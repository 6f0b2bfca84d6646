----------------------------- MODULE ContextWindow -----------------------------
(***************************************************************************)
(* What of a conversation a model is given when its tokens do not fit:      *)
(* ContextHarness.prepare (server/agent/context_harness.py).  A message is  *)
(* its kind and the length of its content; tokens are counted as langchain  *)
(* counts them, with two characters a token.                                *)
(***************************************************************************)
EXTENDS Integers, Sequences, FiniteSetsExt, SequencesExt, Sifting

CONSTANTS
    Lengths,        \* lengths a message's content may have
    MaxMessages,    \* bound: messages of the conversation
    Budget,         \* input_budget_tokens
    SummaryLimit,   \* summary_tokens
    RecentTurns     \* recent_turns

ASSUME ContextAssumption ==
    /\ Lengths \subseteq Nat /\ MaxMessages \in Nat
    /\ {Budget, SummaryLimit, RecentTurns} \subseteq Nat \ {0}

VARIABLES
    source,    \* the messages, the system prompt first
    prepared   \* what the last call of prepare made of them

contextVars == <<source, prepared>>

MessageKinds == {"system", "human", "ai", "call", "tool"}   \* a call is an ai message with tool calls

Message == [kind : MessageKinds, len : Nat]

\* from: the first turn that is kept; compacted: the messages that are not.
Prepared == [status : {"none", "full", "compacted", "refused"}, messages : Seq(Message),
             from : Nat, compacted : Nat, squeezed : BOOLEAN]

NotPrepared == [status |-> "none", messages |-> <<>>, from |-> 0, compacted |-> 0,
                squeezed |-> FALSE]

ContextTypeOK == source \in Seq(Message) /\ prepared \in Prepared

ContextInit ==
    /\ source \in {<<[kind |-> "system", len |-> l]>> : l \in Lengths}
    /\ prepared = NotPrepared

-----------------------------------------------------------------------------
(* Counting and cutting.                                                     *)

Smaller(a, b) == IF a < b THEN a ELSE b
Larger(a, b) == IF a > b THEN a ELSE b
HalfUp(n) == (n + 1) \div 2

\* count_tokens_approximately: content and role, the calls of a message or the
\* call's name, and three tokens a message.
RoleChars(m) == CASE m.kind = "system" -> 6 [] m.kind = "human" -> 4 [] m.kind = "ai" -> 9
                  [] m.kind = "call" -> 60 [] OTHER -> 12
TokensOf(m) == HalfUp(m.len + RoleChars(m)) + 3
Tokens(messages) == Total([i \in DOMAIN messages |-> TokensOf(messages[i])])

Marker == 40            \* characters of the truncation marker
Shortest == Marker + 12

\* _truncate_text: at least six characters of the head and of the tail.
Truncated(len, tokens) ==
    LET target == Larger(Shortest, 2 * tokens)
        rest   == target - Marker
        head   == Larger(6, (rest * 65) \div 100)
    IN IF len <= target THEN len ELSE head + Marker + Larger(6, rest - head)

\* The longest content, the last of several, loses what is too much.
Shorten(messages, budget) ==
    LET excess  == Tokens(messages) - budget
        long    == {i \in DOMAIN messages : messages[i].len > Shortest}
        longest == CHOOSE i \in long : \A j \in long :
                      \/ messages[j].len < messages[i].len
                      \/ messages[j].len = messages[i].len /\ j <= i
    IN IF excess <= 0 \/ long = {} THEN messages
       ELSE [messages EXCEPT ![longest].len =
               Truncated(@, Larger(24, HalfUp(@) - excess - 4))]

\* _fit_messages: three rounds a message, at least one.
Fitted(messages, budget) ==
    LET round[k \in 0..Larger(1, 3 * Len(messages))] ==
            IF k = 0 THEN messages ELSE Shorten(round[k - 1], budget)
    IN round[Larger(1, 3 * Len(messages))]

-----------------------------------------------------------------------------
(* prepare                                                                   *)

SystemsOf(messages) == Keep(messages, {i \in DOMAIN messages : messages[i].kind = "system"})
DialogueOf(messages) == Keep(messages, {i \in DOMAIN messages : messages[i].kind # "system"})
Systems == SystemsOf(source)
Dialogue == DialogueOf(source)

\* _group_turns: a turn begins with the first message or a human one.
TurnStarts == {i \in DOMAIN Dialogue : i = 1 \/ Dialogue[i].kind = "human"}
Turns == Cardinality(TurnStarts)
StartOf(t) == Ascending(TurnStarts)[t]
TurnsFrom(t) == IF t > Turns THEN <<>> ELSE SubSeq(Dialogue, StartOf(t), Len(Dialogue))
TurnsBefore(t) == IF t > Turns THEN Dialogue ELSE SubSeq(Dialogue, 1, StartOf(t) - 1)

SummaryTokens == Smaller(SummaryLimit, Budget \div 2)

\* A turn is kept when it fits beside the later ones, with room left for the
\* memory of the turns before it.
UsedAfter(t) == Tokens(Systems) + Tokens(TurnsFrom(t + 1))
ReserveAt(t) == IF t = 1 THEN 0
                ELSE Smaller(SummaryTokens, Larger(0, (Budget - UsedAfter(t)) \div 3))
TurnFits(t) == UsedAfter(t - 1) - UsedAfter(t) <= Budget - UsedAfter(t) - ReserveAt(t)

FirstThatFits ==           \* mutant: a current turn that does not fit is dropped
    LET recent == Larger(1, Turns - RecentTurns + 1)..Turns
        kept   == {t \in recent : \A u \in t..Turns : TurnFits(u)}
    IN IF kept = {} THEN Turns + 1 ELSE Min(kept)

\* The current turn is kept even if it does not fit.
FirstKept ==
    LET recent == Larger(1, Turns - RecentTurns + 1)..Turns
        kept   == {t \in recent : \A u \in t..Turns : TurnFits(u)}
    IN IF kept = {} THEN Larger(1, Turns) ELSE Min(kept)

\* _build_memory: a line for each question and each answer, tool chatter left out.
MemoryOf(omitted) ==
    LET line(m) == 1 + (IF m.kind = "human" THEN 8 ELSE 13) + Smaller(360, m.len)
        told    == Keep(omitted, {i \in DOMAIN omitted :
                                     omitted[i].kind \in {"human", "ai"} /\ omitted[i].len > 0})
    IN IF told = <<>> THEN <<>>
       ELSE << [kind |-> "system", len |-> 54 + Total([i \in DOMAIN told |-> line(told[i])])] >>

Compact ==
    LET kept    == TurnsFrom(FirstKept)
        omitted == TurnsBefore(FirstKept)
        left    == Larger(0, Budget - Tokens(Systems) - Tokens(kept))
        room    == Smaller(SummaryTokens, left)
        memory  == IF omitted # <<>> /\ left > 12 THEN Fitted(MemoryOf(omitted), room) ELSE <<>>
        result  == Fitted(Systems \o memory \o kept, Budget)
        squeezed == Tokens(memory) > room
    IN [status |-> IF squeezed \/ Tokens(result) > Budget THEN "refused" ELSE "compacted",
        messages |-> result, from |-> FirstKept, compacted |-> Len(omitted),
        squeezed |-> squeezed]

PrepareMessages ==
    /\ prepared' = IF Tokens(source) <= Budget
                   THEN [NotPrepared EXCEPT !.status = "full", !.messages = source, !.from = 1]
                   ELSE Compact
    /\ UNCHANGED source

\* The conversation goes on: a turn is a question, calls with their results,
\* and an answer; prompts may come with any of them.
Say(kind, len) ==
    /\ Len(source) < MaxMessages /\ prepared = NotPrepared
    /\ kind = "tool" <=> Last(source).kind = "call"
    /\ kind \in {"ai", "call"} => Last(source).kind \in {"human", "tool"}
    /\ source' = Append(source, [kind |-> kind, len |-> len])
    /\ UNCHANGED prepared

ContextNext ==
    \/ \E kind \in MessageKinds, len \in Lengths : Say(kind, len)
    \/ prepared = NotPrepared /\ PrepareMessages

ContextSpec == ContextInit /\ [][ContextNext]_contextVars

-----------------------------------------------------------------------------
(* Properties.                                                               *)

Shape(messages) == [i \in DOMAIN messages |-> messages[i].kind]

\* A context that is handed out fits the budget, has every system prompt, and
\* ends with whole turns, the current one among them, calls beside their results.
HandedOutFits ==
    prepared.status \in {"full", "compacted"} =>
        /\ Tokens(prepared.messages) <= Budget
        /\ LET turns == Shape(TurnsFrom(Smaller(prepared.from, Larger(1, Turns))))
               given == Shape(prepared.messages)
           IN IsSuffix(turns, given) \/ prepared.status = "full"
        /\ Len(SystemsOf(prepared.messages)) >= Len(Systems)
        /\ prepared.compacted = Len(Dialogue) - Len(DialogueOf(prepared.messages))

\* A context is refused only when its contents cut to the shortest do not fit,
\* or when the room left for the memory of older turns is more than the twelve
\* tokens asked for and less than the 33 of the shortest memory.
RefusedWhenFull ==
    prepared.status = "refused" =>
        \/ prepared.squeezed /\ Budget - Tokens(Systems) - Tokens(TurnsFrom(prepared.from)) \in 13..32
        \/ SummaryTokens < 33
        \/ Tokens([i \in DOMAIN prepared.messages |->
              [prepared.messages[i] EXCEPT !.len = Smaller(@, Shortest + 1)]]) > Budget

ContextIsSound == HandedOutFits /\ RefusedWhenFull
=============================================================================
