----------------------------- MODULE ToolProviders -----------------------------
(***************************************************************************)
(* Which definition of a tool a run uses, and what the local policy lets it *)
(* call: the registry of a process and its discovery from the MCP servers   *)
(* (server/tool_registry.py, server/mcp_client.py), the copy a session      *)
(* takes of it, the snapshot a run freezes (server/sessions.py) and the     *)
(* policy (server/tool_policy.py, server/phase4.py).  The ledger of calls   *)
(* is ToolLedger; here a run makes one call.  Native tools are in every     *)
(* registry of a session, unchanged, and are not listed in the definitions. *)
(***************************************************************************)
EXTENDS Integers, Functions

CONSTANTS
    GithubReads, GithubWrites,   \* tools of the local capability profile
    GithubOthers,                \* GitHub tools outside it
    OtherTools,                  \* tools of a server without a profile
    Policies,                    \* configurations an operator may choose
    Discoverers,                 \* requests that refresh a provider
    MaxChanges,                  \* bound: changes of what the servers offer
    MaxDiscoveries               \* bound: refreshes ever begun

NativeTools == {"search", "analyze_data"}
GithubTools == GithubReads \cup GithubWrites \cup GithubOthers
McpTools    == GithubTools \cup OtherTools
Servers     == {"github", "other"}
ToolsOf(s)  == IF s = "github" THEN GithubTools ELSE OtherTools
ServerOf(t) == IF t \in GithubTools THEN "github" ELSE "other"

Policy == [readOnly : BOOLEAN, allowlist : SUBSET GithubTools, approvals : BOOLEAN,
           writes : BOOLEAN, autoRead : BOOLEAN]

ASSUME ProvidersAssumption ==
    /\ {MaxChanges, MaxDiscoveries} \subseteq Nat /\ Policies \subseteq Policy
    /\ NativeTools \cap McpTools = {} /\ GithubTools \cap OtherTools = {}
    /\ GithubReads \cap (GithubWrites \cup GithubOthers) = {}
    /\ GithubWrites \cap GithubOthers = {}

VARIABLES
    policy,       \* the operator's configuration; never changes
    offer,        \* [Servers -> tools offered and the version of their schemas]
    changes,      \* how often offer changed
    discoveries,  \* how many refreshes have begun
    definitions,  \* the process's registry: tool |-> definition
    health,       \* [Servers -> connection status], read without the lock
    discovery,    \* [Discoverers -> a refresh under way]
    session,      \* the registry the session's runs share
    run,          \* a run of the session
    approval,     \* the approval request of its call
    listed,       \* history: what each server's last stored discovery told
    call,         \* history: what last reached a provider
    worked        \* history: the snapshot under which a step of the task first completed

operatorSide == <<policy, offer, changes>>
registrySide == <<discoveries, definitions, health, discovery, listed>>
sessionSide == <<session, run, approval, call, worked>>
providersVars == <<operatorSide, registrySide, sessionSide>>

Versions == 0..MaxChanges
Definition == [version : Versions, enabled : BOOLEAN]
Definitions == UNION {[tools -> Definition] : tools \in SUBSET McpTools}

\* "elsewhere": a repository off the allowlist, or a field no write may set.
\* "secret": a value that looks like a credential.
Arguments == {"fine", "elsewhere", "secret"}

NoCall == [tool |-> "none", args |-> "fine", version |-> 0]
Calls  == [tool : NativeTools \cup McpTools \cup {"none"}, args : Arguments, version : Versions]

NothingCalled == [what |-> NoCall, approved |-> FALSE]
NotAsked == [status |-> "none", call |-> NoCall]

Idle == [pc |-> "idle", server |-> "github", found |-> <<>>]
NoRun == [pc |-> "none", task |-> FALSE, frozen |-> <<>>, kept |-> FALSE, tool |-> "none",
          args |-> "fine"]
Pcs == {"none", "copied", "running", "waiting", "claimed", "ended"}

ProvidersTypeOK ==
    /\ policy \in Policy /\ changes \in 0..MaxChanges /\ discoveries \in 0..MaxDiscoveries
    /\ offer \in [Servers -> [tools : SUBSET McpTools, version : Versions]]
    /\ definitions \in Definitions
    /\ health \in [Servers -> {"not_connected", "connected", "unavailable"}]
    /\ discovery \in [Discoverers ->
          [pc : {"idle", "listing", "found"}, server : Servers, found : Definitions]]
    /\ session \in [definitions : Definitions,
                    health : [Servers -> {"not_connected", "connected", "unavailable"}]]
    /\ run \in [pc : Pcs, task : BOOLEAN, frozen : Definitions, kept : BOOLEAN,
                tool : NativeTools \cup McpTools \cup {"none"}, args : Arguments]
    /\ approval \in [status : {"none", "PENDING", "APPROVED", "REJECTED", "CONSUMED"}, call : Calls]
    /\ listed \in [Servers -> Definitions] /\ worked \in Definitions
    /\ call \in [what : Calls, approved : BOOLEAN]

ProvidersInit ==
    /\ policy \in Policies
    /\ offer = [s \in Servers |-> [tools |-> ToolsOf(s), version |-> 0]]
    /\ changes = 0 /\ discoveries = 0
    /\ definitions = <<>> /\ health = [s \in Servers |-> "not_connected"]
    /\ discovery = [f \in Discoverers |-> Idle]
    /\ session = [definitions |-> <<>>, health |-> health]
    /\ run = NoRun
    /\ approval = NotAsked
    /\ listed = [s \in Servers |-> <<>>]
    /\ call = NothingCalled /\ worked = <<>>

-----------------------------------------------------------------------------
(* Discovery.                                                                *)

\* local_profile: what a tool may do, whatever its server says of it.
Operation(t) == CASE t \in GithubReads \cup {"search"} -> "read"
                  [] t \in GithubWrites -> "write"
                  [] OTHER -> "execute"
InProfile(t) == t \notin GithubOthers

\* MCPToolProvider.list_tools.
Described(s) ==
    [t \in offer[s].tools |->
        [version |-> offer[s].version,
         enabled |-> /\ InProfile(t)
                     /\ t \in GithubTools =>
                           /\ policy.allowlist = {} \/ t \in policy.allowlist
                           /\ Operation(t) = "read" \/ ~policy.readOnly]]

ServerChanges(s) ==
    /\ changes < MaxChanges
    /\ changes' = changes + 1
    /\ \E tools \in {ToolsOf(s), {}} :
          offer' = [offer EXCEPT ![s] = [tools |-> tools, version |-> @.version + 1]]
    /\ UNCHANGED <<registrySide, sessionSide, policy>>

BeginDiscovery(f, s) ==
    /\ discovery[f].pc = "idle" /\ discoveries < MaxDiscoveries
    /\ discoveries' = discoveries + 1
    /\ discovery' = [discovery EXCEPT ![f] = [Idle EXCEPT !.pc = "listing", !.server = s]]
    /\ UNCHANGED <<operatorSide, sessionSide, definitions, health, listed>>

ListTools(f) ==
    /\ discovery[f].pc = "listing"
    /\ discovery' = [discovery EXCEPT ![f].pc = "found",
                                    ![f].found = Described(discovery[f].server)]
    /\ UNCHANGED <<operatorSide, sessionSide, discoveries, definitions, health, listed>>

\* refresh: under the lock the server's definitions are replaced, the others kept.
OfOthers(s) == {t \in DOMAIN definitions : ServerOf(t) # s}
StoreDiscovery(f) ==
    LET s == discovery[f].server
        found == discovery[f].found
    IN /\ discovery[f].pc = "found"
       /\ definitions' = [t \in DOMAIN found \cup OfOthers(s) |->
                            IF t \in DOMAIN found THEN found[t] ELSE definitions[t]]
       /\ health' = [health EXCEPT ![s] = "connected"]
       /\ listed' = [listed EXCEPT ![s] = discovery[f].found]
       /\ discovery' = [discovery EXCEPT ![f] = Idle]
       /\ UNCHANGED <<operatorSide, sessionSide, discoveries>>

\* No connection, a timeout, no end of pages, a name told twice: nothing is replaced.
FailDiscovery(f) ==
    /\ discovery[f].pc = "listing"
    /\ health' = [health EXCEPT ![discovery[f].server] = "unavailable"]
    /\ discovery' = [discovery EXCEPT ![f] = Idle]
    /\ UNCHANGED <<operatorSide, sessionSide, discoveries, definitions, listed>>

-----------------------------------------------------------------------------
(* The session's registry and the snapshot of a run.                                         *)

\* Phase4Services.runtime_registry, when a session's agent is built: before a
\* question, whose own copies replace it, or before a task goes on.
LoadSession ==
    /\ run.pc = "waiting"
    /\ session' = [definitions |-> definitions, health |-> health]
    /\ UNCHANGED <<operatorSide, registrySide, run, approval, call, worked>>

\* _ScopedAgent.invoke: the definitions are copied, then the health; the run
\* freezes what it finds, unless its partial state already holds a snapshot.
CopyDefinitions(task) ==
    /\ run.pc = "none" /\ (run.task => task)
    /\ session' = [session EXCEPT !.definitions = definitions]
    /\ run' = [run EXCEPT !.pc = "copied", !.task = task]
    /\ UNCHANGED <<operatorSide, registrySide, approval, call, worked>>

CopyHealth ==
    /\ run.pc = "copied"
    /\ session' = [session EXCEPT !.health = health]
    /\ run' = [run EXCEPT !.pc = "running",
                          !.frozen = IF run.kept THEN run.frozen ELSE session.definitions]
    /\ UNCHANGED <<operatorSide, registrySide, approval, call, worked>>

NativeDefinition == [version |-> 0, enabled |-> TRUE]

\* get_tool(name, snapshot)
DefinitionOf(t) == IF t \in NativeTools THEN NativeDefinition ELSE run.frozen[t]
Known(t) == t \in NativeTools \/ t \in DOMAIN run.frozen

-----------------------------------------------------------------------------
(* ToolPolicy.evaluate.  No profile has a delete operation.                  *)

NeedsApproval(t) ==
    IF Operation(t) = "read" THEN ~policy.autoRead ELSE t # "analyze_data"

RefusedAnywhere(t, args) ==    \* mutant: the repository of a write is not checked
    \/ args = "secret" \/ ~DefinitionOf(t).enabled \/ ~InProfile(t)
    \/ t \in GithubTools /\ Operation(t) # "read" /\ policy.readOnly
    \/ Operation(t) = "write" /\ ~policy.writes
    \/ NeedsApproval(t) /\ ~policy.approvals

Refused(t, args) ==
    \/ args = "secret"
    \/ ~DefinitionOf(t).enabled
    \/ ~InProfile(t)
    \/ /\ t \in GithubTools /\ Operation(t) # "read"
       /\ policy.readOnly \/ args = "elsewhere"
    \/ Operation(t) = "write" /\ ~policy.writes
    \/ NeedsApproval(t) /\ ~policy.approvals

Wanted(t, args) == [tool |-> t, args |-> args, version |-> DefinitionOf(t).version]

\* The run's step asks for a tool of its snapshot.  In a chat a call that needs
\* an approval is refused; a step that fails ends the run.
Propose(t, args) ==
    /\ run.pc = "running" /\ Known(t) /\ DefinitionOf(t).enabled
    /\ \/ /\ Refused(t, args) \/ (NeedsApproval(t) /\ ~run.task)
          /\ run' = [run EXCEPT !.pc = "ended"]
          /\ approval' = NotAsked
       \/ /\ ~Refused(t, args) /\ ~NeedsApproval(t)
          /\ run' = [run EXCEPT !.pc = "claimed", !.tool = t, !.args = args]
          /\ approval' = NotAsked
       \/ /\ ~Refused(t, args) /\ NeedsApproval(t) /\ run.task
          /\ run' = [run EXCEPT !.pc = "waiting", !.tool = t, !.args = args]
          /\ approval' = [status |-> "PENDING", call |-> Wanted(t, args)]
    /\ call' = NothingCalled
    /\ UNCHANGED <<operatorSide, registrySide, session, worked>>

\* ToolActionStore.decide: only title and body may be edited, and the edited
\* call passes the policy again.
Decide(decision, args) ==
    /\ run.pc = "waiting" /\ approval.status = "PENDING"
    /\ \/ decision = "APPROVED" /\ args \in {run.args, "secret"} /\ ~Refused(run.tool, args)
       \/ decision = "REJECTED" /\ args = run.args
    /\ approval' = [approval EXCEPT !.status = decision]
    /\ UNCHANGED <<operatorSide, registrySide, session, run, call, worked>>

\* The task goes on from its checkpoint, with its snapshot, in this process or in
\* one that builds the session anew (LoadSession).  A refused action is no failure.
Resume ==
    /\ run.pc = "waiting" /\ approval.status \in {"APPROVED", "REJECTED"}
    /\ IF approval.status = "REJECTED"
       THEN /\ run' = [run EXCEPT !.pc = "running", !.kept = TRUE]
            /\ worked' = IF run.kept THEN worked ELSE run.frozen
       ELSE /\ run' = [run EXCEPT !.pc = IF Refused(run.tool, run.args) THEN "ended" ELSE "claimed"]
            /\ UNCHANGED worked
    /\ UNCHANGED <<operatorSide, registrySide, session, approval, call>>

\* call_tool, after guard_call; the health is the session's copy.  A step that
\* completed keeps the run's snapshot for every later run of the task.
CallTool(success) ==
    LET t       == run.tool
        reached == t \in NativeTools \/ session.health[ServerOf(t)] = "connected"
    IN /\ run.pc = "claimed"
       /\ success => reached
       /\ call' = IF reached
                  THEN [what |-> Wanted(t, run.args),
                        approved |-> approval.status = "APPROVED"]
                  ELSE NothingCalled
       /\ approval' = [approval EXCEPT !.status = IF @ = "APPROVED" THEN "CONSUMED" ELSE @]
       /\ run' = IF success THEN [run EXCEPT !.pc = "running", !.kept = run.task]
                 ELSE [run EXCEPT !.pc = "ended"]
       /\ worked' = IF success /\ run.task /\ ~run.kept THEN run.frozen ELSE worked
       /\ UNCHANGED <<operatorSide, registrySide, session>>

\* A task that failed is run again, from its last completed step; the answer of
\* a chat is the end of it.
RunAgain ==
    /\ run.pc = "ended"
    /\ run' = IF run.task
              THEN [NoRun EXCEPT !.task = TRUE, !.kept = run.kept,
                                 !.frozen = IF run.kept THEN run.frozen ELSE <<>>]
              ELSE NoRun
    /\ UNCHANGED <<operatorSide, registrySide, session, approval, call, worked>>

ProvidersNext ==
    \/ \E s \in Servers : ServerChanges(s) \/ \E f \in Discoverers : BeginDiscovery(f, s)
    \/ \E f \in Discoverers : ListTools(f) \/ StoreDiscovery(f) \/ FailDiscovery(f)
    \/ LoadSession \/ CopyHealth
    \/ \E task \in BOOLEAN : CopyDefinitions(task)
    \/ \E t \in NativeTools \cup McpTools, args \in Arguments : Propose(t, args)
    \/ \E decision \in {"APPROVED", "REJECTED"}, args \in Arguments : Decide(decision, args)
    \/ Resume \/ RunAgain
    \/ \E success \in BOOLEAN : CallTool(success)

ProvidersSpec == ProvidersInit /\ [][ProvidersNext]_providersVars

-----------------------------------------------------------------------------
(* Properties.                                                               *)

\* Whatever refreshes overlap and fail, the registry holds of each server all
\* of what its last stored discovery told, and nothing else.
DiscoveriesAreWhole ==
    \A s \in Servers : Restrict(definitions, DOMAIN definitions \cap ToolsOf(s)) = listed[s]

\* What reaches a provider: without an approval only a read, or the constrained
\* analysis; no write in read-only mode, off the allowlist or outside the local
\* profile; nothing with a secret.
CallsAreGoverned ==
    LET t == call.what.tool
    IN t # "none" =>
        /\ call.approved \/ t = "analyze_data" \/ (Operation(t) = "read" /\ policy.autoRead)
        /\ t \in GithubTools /\ Operation(t) # "read" =>
              ~policy.readOnly /\ policy.writes /\ policy.approvals /\ call.what.args = "fine"
        /\ InProfile(t) /\ call.what.args # "secret"

\* An approved call is of the definition its approval showed, whatever was
\* discovered and in whichever process the task went on; and once a step of a
\* task has completed, its later runs see the tools that step saw.
ApprovedIsCalled ==
    /\ call.approved /\ approval.status = "CONSUMED" => call.what = approval.call
    /\ run.kept /\ run.pc \in {"running", "waiting", "claimed"} => run.frozen = worked

ToolsAreGoverned == DiscoveriesAreWhole /\ CallsAreGoverned /\ ApprovedIsCalled
=============================================================================
