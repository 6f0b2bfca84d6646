-------------------------------- MODULE Sifting --------------------------------
(***************************************************************************)
(* What the services' loops over a list do, said of the list's places: a    *)
(* sort, a filter and a sum.                                                *)
(***************************************************************************)
EXTENDS Naturals, Sequences, FiniteSets

\* The elements of T in the order whose pairs are ahead.
InOrder(T, ahead) ==
    [k \in 1..Cardinality(T) |->
        CHOOSE x \in T : Cardinality({y \in T : <<y, x>> \in ahead}) = k - 1]

Ascending(places) == InOrder(places, {p \in places \X places : p[1] < p[2]})

\* The elements of s at the given places, in their order.
Keep(s, places) ==
    LET kept == Ascending(places \cap DOMAIN s) IN [k \in DOMAIN kept |-> s[kept[k]]]

\* The sum of a list of numbers.
Total(s) ==
    LET sum[n \in 0..Len(s)] == IF n = 0 THEN 0 ELSE sum[n - 1] + s[n]
    IN sum[Len(s)]
=============================================================================
