------------------------------- MODULE Citations -------------------------------
(***************************************************************************)
(* What becomes of a draft on its way to the user (server/agent/evidence.py *)
(* render_citations, called by citation_validator): the model cites its     *)
(* evidence by marker, and may write anything else, what looks like a       *)
(* citation included.  A draft is the sequence of its references, the text  *)
(* between them is left out.                                                *)
(***************************************************************************)
EXTENDS Naturals, Sequences, FiniteSets, SequencesExt, Sifting

CONSTANTS
    Findings,       \* identities of what the tools of a turn may return
    ReturnedBy,     \* its type, document and its name, zero-based page, url, as the tool returns it
    PageCounts,     \* the pages of each document that has ever been in the workspace
    MaxReferences   \* bound: references of a draft

\* NoName: no document, no url.  NoPage: the page of a finding that has none.
NoName == "-"
NoPage == 99

ASSUME CitationsAssumption ==
    /\ MaxReferences \in Nat
    /\ \A e \in Findings : /\ ReturnedBy[e].type \in {"workspace", "web", "arxiv", "analysis", "github"}
                           /\ ReturnedBy[e].page \in Nat
    /\ \A d \in DOMAIN PageCounts : PageCounts[d] \in Nat

VARIABLES
    registry,   \* document_registry: the documents, read when the turn begins
    evidence,   \* the findings of the turn
    reply       \* the draft, what is shown of it, and the citations beside it

citationVars == <<registry, evidence, reply>>

\* References by kind.  name: an evidence identity, a document's name, a url or a table.
\* n: a page or a number, 0 when there is none.
Reference(kind, name, n) == [kind |-> kind, name |-> name, n |-> n]

\* evidence_from_hit, external_evidence: pages are counted from one.
PageOf(e) == IF ReturnedBy[e].page = NoPage THEN 0 ELSE ReturnedBy[e].page + 1
DocumentOf(e) == ReturnedBy[e].document    \* document_id
NameOf(e) == ReturnedBy[e].name            \* document_name: two documents may share it
UrlOf(e) == ReturnedBy[e].url
OfDocument(e) == ReturnedBy[e].type = "workspace"

Unknown == "ev_unknown"

\* What a model may write: markers, labels like those the renderer makes, page,
\* document and url references.
Writable ==
    {Reference("marker", e, 0) : e \in Findings \union {Unknown}}
    \union {Reference("pageLabel", NameOf(e), PageOf(e)) : e \in {f \in Findings : OfDocument(f)}}
    \union {Reference("numberLabel", NoName, 1), Reference("Web", NoName, 1), Reference("GitHub", NoName, 1)}
    \union {Reference("page", NoName, n) : n \in {1, 3}}
    \union {Reference("documentPage", NameOf(e), 1) : e \in {f \in Findings : OfDocument(f)}}
    \union {Reference("url", u, 0) : u \in ({UrlOf(e) : e \in Findings} \ {NoName}) \union {"invented"}}

Drafts == UNION {[1..n -> Writable] : n \in 0..MaxReferences}

NoReply == [draft |-> <<>>, shown |-> <<>>, citations |-> <<>>, done |-> FALSE]

CitationsTypeOK ==
    /\ registry \subseteq DOMAIN PageCounts /\ evidence \subseteq Findings
    /\ reply.draft \in Drafts /\ reply.done \in BOOLEAN
    /\ ToSet(reply.citations) \subseteq Findings

CitationsInit ==
    /\ registry \in SUBSET DOMAIN PageCounts
    /\ evidence \in SUBSET Findings
    /\ reply = NoReply

-------------------------------------------------------------------------------
(* The passes of render_citations, in their order.                          *)

Unavailable == Reference("unavailable", NoName, 0)

\* Document pages and urls that no evidence has are replaced.
KnownOnly(r) ==
    CASE r.kind = "documentPage" ->
            IF \E e \in evidence : NameOf(e) = r.name /\ PageOf(e) = r.n THEN r ELSE Unavailable
      [] r.kind = "url" ->
            IF \E e \in evidence : UrlOf(e) = r.name THEN r ELSE Unavailable
      [] OTHER -> r

\* Bare pages: any page of the evidence will do.
KnownPage(r) ==
    IF r.kind = "page" /\ \A e \in evidence : PageOf(e) # r.n THEN Unavailable ELSE r

\* The identities behind the markers, each once, in order of appearance.
Cited(draft) ==
    LET first  == {i \in DOMAIN draft :
                      /\ draft[i].kind = "marker" /\ draft[i].name \in evidence
                      /\ \A j \in 1..(i - 1) : draft[j] # draft[i]}
        marker == Keep(draft, first)
    IN  [k \in DOMAIN marker |-> marker[k].name]

\* validate_citations: a document's page is a page of a registered document.
IsValid(e) ==
    OfDocument(e) => /\ DocumentOf(e) # NoName /\ NameOf(e) # NoName /\ PageOf(e) # 0
                     /\ DocumentOf(e) \in registry
                     /\ PageOf(e) <= PageCounts[DocumentOf(e)]

Validated(cited) == Keep(cited, {k \in DOMAIN cited : IsValid(cited[k])})

Kind(e) == CASE ReturnedBy[e].type = "web" -> "Web" [] ReturnedBy[e].type = "arxiv" -> "arXiv"
             [] OTHER -> "GitHub"

\* The label of a valid citation; external sources are numbered within their kind.
LabelOf(e, valid) ==
    IF OfDocument(e) THEN Reference("pageLabel", NameOf(e), PageOf(e))
    ELSE IF ReturnedBy[e].type = "analysis" THEN Reference("Analysis", e, 0)
    ELSE LET before == {i \in 1..Len(valid) :
                            /\ ~OfDocument(valid[i]) /\ ReturnedBy[valid[i]].type # "analysis"
                            /\ Kind(valid[i]) = Kind(e)
                            /\ \E j \in i..Len(valid) : valid[j] = e}
         IN  Reference(Kind(e), NoName, Cardinality(before))

\* The labels a model is not believed.  GitHub, MCP and analysis labels pass.
Fabricated(r) == r.kind \in {"numberLabel", "pageLabel", "Web", "arXiv"}

Stripped(refs) == Keep(refs, {i \in DOMAIN refs : ~Fabricated(refs[i])})

\* A marker becomes its label, or nothing.
Label(refs, valid) ==
    LET left == Keep(refs, {i \in DOMAIN refs :
                               refs[i].kind = "marker" => refs[i].name \in ToSet(valid)})
    IN  [k \in DOMAIN left |->
            IF left[k].kind = "marker" THEN LabelOf(left[k].name, valid) ELSE left[k]]

KnownReferences(refs) == [i \in DOMAIN refs |-> KnownOnly(refs[i])]
KnownPages(refs) == [i \in DOMAIN refs |-> KnownPage(refs[i])]

ShownLate(draft, valid) ==    \* mutant: fabricated labels are stripped from the finished text
    Stripped(Label(KnownPages(KnownReferences(draft)), valid))

Shown(draft, valid) == Label(KnownPages(Stripped(KnownReferences(draft))), valid)

RenderCitations(draft) ==
    /\ ~reply.done
    /\ LET valid == Validated(Cited(draft))
       IN  reply' = [draft |-> draft, shown |-> Shown(draft, valid), citations |-> valid, done |-> TRUE]
    /\ UNCHANGED <<registry, evidence>>

CitationsNext == \E draft \in Drafts : RenderCitations(draft)

CitationsSpec == CitationsInit /\ [][CitationsNext]_citationVars

-------------------------------------------------------------------------------
(* Properties.                                                              *)

ShownKinds(kinds) == Keep(reply.shown, {i \in DOMAIN reply.shown : reply.shown[i].kind \in kinds})

\* Every document, Web and arXiv label of the answer stands where the draft had
\* the marker of a valid citation: none was written by the model, none was lost
\* (evidence.py:115, "Only [ev_<id>] markers ... can become public citations").
LabelsAreMarkers ==
    LET draft  == reply.draft
        citing == Keep(draft, {i \in DOMAIN draft :
                      /\ draft[i].kind = "marker" /\ draft[i].name \in ToSet(reply.citations)
                      /\ ReturnedBy[draft[i].name].type \in {"workspace", "web", "arxiv"}})
    IN  ShownKinds({"pageLabel", "Web", "arXiv", "numberLabel"}) =
            [k \in DOMAIN citing |-> LabelOf(citing[k].name, reply.citations)]

\* Two citations are told apart by their labels, but for pages of the same name
\* and number: chunks of one page, or a page of each of two documents of the
\* workspace that have one name (the label takes the name where the
\* validation takes the identity, evidence.py:141 and :103-105).
LabelsTellApart ==
    \A e, f \in ToSet(reply.citations) :
        e # f /\ LabelOf(e, reply.citations) = LabelOf(f, reply.citations) =>
            /\ OfDocument(e) /\ OfDocument(f) /\ NameOf(e) = NameOf(f)
            /\ ReturnedBy[e].page = ReturnedBy[f].page

\* A cited page exists in a document of the turn's workspace (the tools count
\* from zero), and what is shown of urls is evidence.
CitedPagesExist ==
    /\ \A e \in ToSet(reply.citations) :
        e \in evidence /\ (OfDocument(e) => /\ DocumentOf(e) \in registry
                                            /\ ReturnedBy[e].page < PageCounts[DocumentOf(e)])
    /\ \A r \in ToSet(ShownKinds({"url"})) : r.name \in {UrlOf(e) : e \in evidence}

\* The order of the passes and the numbering of the labels keep what is shown,
\* what is cited and what was found in step.
CitationsAreReal == LabelsAreMarkers /\ LabelsTellApart /\ CitedPagesExist
=============================================================================
