------------------------------ MODULE MCServices ------------------------------
(* The services beside the task machinery, and the chat, share no table   *)
(* that their properties speak of: a behaviour is of one of them, the     *)
(* others rest.                                                           *)
EXTENDS Accounts, Permissions, Ingestion, Memories, DataAssets, ResearchRun,
        Citations, ContextWindow, ToolProviders, Retrieval, ChatSession

VARIABLE focus

\* Uploads i1 and i2 share a process, i3 has its own.
UploadProcesses == [i \in Uploads |-> IF i = "i3" THEN "q" ELSE "p"]

\* "zh" and "en" are preferences for one or the other language.
PreferenceKeys == [x \in Contents |-> IF x = "x" THEN NoKey ELSE "language"]

\* What an operator may have configured for the tools.
DefaultPolicy == [readOnly |-> TRUE, allowlist |-> {}, approvals |-> TRUE, writes |-> TRUE,
                  autoRead |-> TRUE]
OperatorChoices ==
    {DefaultPolicy,
     [DefaultPolicy EXCEPT !.readOnly = FALSE, !.autoRead = FALSE],
     [DefaultPolicy EXCEPT !.readOnly = FALSE, !.writes = FALSE, !.allowlist = GithubReads,
                           !.approvals = FALSE]}

WorkspaceDocuments == <<"d1", "d2">>
MatchingChunks == <<{1, 2}, {1}>>

\* The fusion of two rankings, over every pair of rankings of these chunks.
ASSUME FusionIsMonotone

\* A page of each of two documents of one name, a page beyond the end of the
\* first, and sources of other types.
Finding(type, document, name, page, url) ==
    [type |-> type, document |-> document, name |-> name, page |-> page, url |-> url]
ReturnedFindings ==
    [d1 |-> Finding("workspace", "d", "n", 1, "-"), d2 |-> Finding("workspace", "d", "n", 2, "-"),
     s1 |-> Finding("workspace", "s", "n", 1, "-"),
     w1 |-> Finding("web", "-", "-", 99, "u"),      w2 |-> Finding("web", "-", "-", 99, "-"),
     g1 |-> Finding("github", "-", "-", 99, "-")]
DocumentPages == [d |-> 2, s |-> 2]

\* The sources a model names: some local and external ones, and external ones only.
NamedSources == {{"pdf", "web"}, {"arxiv"}}

\* Question a3 is asked in the other session.
OneTask == [a \in TaskRuns |-> "task"]
ChatOf == [a \in Asks |-> IF a = "a3" THEN "other" ELSE "chat"]

Services == {"accounts", "membership", "permissions", "ingestion", "memories", "data", "research",
             "citations", "context", "tools", "retrieval", "chat"}

restVars == <<accountsVars, membershipVars, permissionVars, ingestVars, memoryVars, dataVars,
              researchVars, citationVars, contextVars, providersVars, retrievalVars, chatVars>>

Resting(service) ==
    /\ service # "accounts" => UNCHANGED accountsVars
    /\ service \notin {"membership", "permissions"} => UNCHANGED membershipVars
    /\ service # "permissions" => UNCHANGED permissionVars
    /\ service # "ingestion" => UNCHANGED ingestVars
    /\ service # "memories" => UNCHANGED memoryVars
    /\ service # "data" => UNCHANGED dataVars
    /\ service # "research" => UNCHANGED researchVars
    /\ service # "citations" => UNCHANGED citationVars
    /\ service # "context" => UNCHANGED contextVars
    /\ service # "tools" => UNCHANGED providersVars
    /\ service # "retrieval" => UNCHANGED retrievalVars
    /\ service # "chat" => UNCHANGED chatVars
    /\ UNCHANGED focus

ServicesInit ==
    /\ AccountsInit /\ MembershipInit /\ PermissionsInit /\ IngestInit /\ MemoryInit /\ DataInit
    /\ ResearchInit /\ CitationsInit /\ ContextInit /\ ProvidersInit /\ RetrievalInit
    /\ ChatInit
    /\ focus \in Services
    \* A service at rest has one initial state.
    /\ focus # "membership" => \A w \in Workspaces : workspace[w] = "none"
    /\ focus # "research" => available = ExternalSources /\ asked = "external" /\ extras = {}
    /\ focus # "citations" => evidence = {} /\ registry = {}
    /\ focus # "context" => source[1].len = 0
    /\ focus # "tools" => policy = DefaultPolicy

ServicesNext ==
    \/ focus = "accounts" /\ AccountsNext /\ Resting("accounts")
    \/ focus = "membership" /\ MembershipNext /\ Resting("membership")
    \/ focus = "permissions" /\ PermissionsNext /\ Resting("permissions")
    \/ focus = "ingestion" /\ IngestNext /\ Resting("ingestion")
    \/ focus = "memories" /\ MemoryNext /\ Resting("memories")
    \/ focus = "data" /\ DataNext /\ Resting("data")
    \/ focus = "research" /\ ResearchNext /\ Resting("research")
    \/ focus = "citations" /\ CitationsNext /\ Resting("citations")
    \/ focus = "context" /\ ContextNext /\ Resting("context")
    \/ focus = "tools" /\ ProvidersNext /\ Resting("tools")
    \/ focus = "retrieval" /\ RetrievalNext /\ Resting("retrieval")
    \/ focus = "chat" /\ ChatNext /\ Resting("chat")

ServicesSpec == ServicesInit /\ [][ServicesNext]_<<restVars, focus>>
=============================================================================
