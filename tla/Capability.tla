----------------------------- MODULE Capability -----------------------------
(***************************************************************************)
(* grande_capability_invoke (capabilities.ts): one tool of a registered    *)
(* provider - a remote MCP server or plugin, a skill file, or the          *)
(* Gateway's own tools - is inspected, gated, put on record and called.    *)
(*                                                                         *)
(* capabilities.yaml is read when a call starts; a remote provider is      *)
(* asked for its tools once to inspect and, over a second connection, once *)
(* more before the call.  Between these the operator may edit the file,    *)
(* the provider may describe its tool differently, other calls go on, and  *)
(* the Gateway may die.  Every provider offers one tool.                   *)
(***************************************************************************)
EXTENDS Naturals, AuditLedger

CONSTANTS
  Calls,          \* calls of the tool
  Native,         \* the Gateway's own tools
  Remotes,        \* providers of type mcp and plugin
  Skills,         \* providers of type skill
  Configs,        \* entries capabilities.yaml may have for a provider
  Hints,          \* how a tool may be annotated: "read", "write", "destructive"
  MaxChanges      \* bound: edits of the file and of annotations, and crashes

Order == [read |-> 0, write |-> 1, destructive |-> 2, production |-> 3]
Risks == DOMAIN Order
Guarded == {"destructive", "production"}
Providers == {Native} \cup Remotes \cup Skills

ASSUME CapabilityAssumption ==
  /\ Native \notin Remotes \cup Skills /\ Remotes \cap Skills = {}
  /\ Configs \subseteq [risk : Risks, allow : SUBSET Guarded]
  /\ Hints \subseteq {"read", "write", "destructive"} /\ Hints # {}
  /\ MaxChanges \in Nat

VARIABLES
  config,         \* capabilities.yaml: the entry of each provider, or Absent
  hint,           \* how each provider annotates its tool, or "gone"
  calls,          \* the calls
  pending,        \* calls of a tool on their way to the provider
  effects,        \* history: calls the provider carried out
  answers,        \* history: calls whose answer reached the Gateway
  changes

vars == <<config, hint, calls, pending, effects, answers, changes>>

Absent == [risk |-> "none", allow |-> {}]
Builtin == [risk |-> "read", allow |-> {}]
NoRow == [decision |-> "none", state |-> "none"]
NoCall == [pc |-> "idle", provider |-> Native, task |-> FALSE, config |-> Builtin,
           inspected |-> "none", listed |-> "none", row |-> NoRow]

CallsInit ==
  /\ config \in [Remotes \cup Skills -> Configs]
  /\ hint \in [{Native} \cup Remotes -> Hints]
  /\ calls = [c \in Calls |-> NoCall]
  /\ pending = {} /\ effects = {} /\ answers = {} /\ changes = 0

\* maxRisk.
MaxRisk(a, b) == IF Order[a] >= Order[b] THEN a ELSE b

\* The risk of the tool as its provider describes it now: a remote one cannot call itself
\* less risky than the operator says, the Gateway's own is what it is.
Described(p, entry) ==
  CASE p = Native -> hint[p]
    [] p \in Skills -> entry.risk
    [] OTHER -> MaxRisk(entry.risk, hint[p])

\* assertAllowed: nothing is forbidden to the Gateway's own tools.
Permitted(p, entry, risk) == p = Native \/ risk \notin Guarded \/ risk \in entry.allow

Recorded(risk) == risk # "read"

-----------------------------------------------------------------------------
Update(c, call) == calls' = [calls EXCEPT ![c] = call]

\* The handler's catch: the row fails, if there is one.
Ends_Silently(c) == Update(c, [calls[c] EXCEPT !.pc = "done"])

Ends(c) ==
  Update(c, [calls[c] EXCEPT !.pc = "done", !.row = IF @ = NoRow THEN NoRow ELSE Failed(@)])

\* After inspect: the gate, the task, the row; then the tool is called.
Cleared(c, call, risk) ==
  /\ Permitted(call.provider, call.config, risk)
  /\ Recorded(risk) => call.task
  /\ Update(c, [call EXCEPT !.pc = IF call.provider \in Remotes THEN "relist" ELSE "sent",
                            !.inspected = risk,
                            !.listed = IF call.provider \in Remotes THEN "none" ELSE risk,
                            !.row = IF Recorded(risk) THEN Executing(Allowed(BeginAudit)) ELSE @])

\* providersFor: the file's entry of a provider; the Gateway's own tools have none.
Entry(p) == IF p = Native THEN Builtin ELSE config[p]

\* A call begins with the file as it is.  A provider in this process is inspected at once.
\* A refused call leaves nothing behind.
Begin(c, p, task) ==
  LET call == [NoCall EXCEPT !.pc = "inspect", !.provider = p, !.task = task, !.config = Entry(p)] IN
  /\ calls[c].pc = "idle"
  /\ Entry(p) # Absent
  /\ IF p \in Remotes
     THEN Update(c, call) /\ UNCHANGED pending
     ELSE Cleared(c, call, Described(p, call.config)) /\ pending' = pending \cup {c}
  /\ UNCHANGED <<config, hint, effects, answers, changes>>

\* The remote provider lists its tools: refused, or cleared.
Inspected(c) ==
  LET call == calls[c] risk == Described(call.provider, call.config) IN
  /\ call.pc = "inspect" /\ hint[call.provider] # "gone"
  /\ \/ Cleared(c, call, risk)
     \/ ~(Permitted(call.provider, call.config, risk) /\ (Recorded(risk) => call.task)) /\ Ends(c)
  /\ UNCHANGED <<config, hint, pending, effects, answers, changes>>

\* Listed again over a new connection, with the entry the call began with.  The listing is
\* one step: the pages of a provider that never ends its cursor are not modelled.
Relisted_Unchecked(c) ==
  LET call == calls[c] risk == Described(call.provider, call.config) IN
  /\ call.pc = "relist" /\ hint[call.provider] # "gone"
  /\ Update(c, [call EXCEPT !.pc = "sent", !.listed = risk])
  /\ pending' = pending \cup {c}
  /\ UNCHANGED <<config, hint, effects, answers, changes>>

Relisted(c) ==
  LET call == calls[c] risk == Described(call.provider, call.config) IN
  /\ call.pc = "relist" /\ hint[call.provider] # "gone"
  /\ IF Permitted(call.provider, call.config, risk)
     THEN Update(c, [call EXCEPT !.pc = "sent", !.listed = risk]) /\ pending' = pending \cup {c}
     ELSE Ends(c) /\ UNCHANGED pending
  /\ UNCHANGED <<config, hint, effects, answers, changes>>

\* No connection, a tool that is gone, an answer that does not come (the client's time-out).
Fails(c) ==
  /\ calls[c].pc \in {"inspect", "relist", "sent"}
  /\ Ends(c)
  /\ pending' = IF calls[c].provider \in Remotes THEN pending ELSE pending \ {c}
  /\ UNCHANGED <<config, hint, effects, answers, changes>>

\* The provider gets the request and carries it out, or refuses it in an ordinary answer;
\* by then the Gateway may be waiting, may have given up, or may have died.
Carries(c) ==
  /\ c \in pending
  /\ pending' = pending \ {c}
  /\ effects' = effects \cup {c}
  /\ UNCHANGED <<config, hint, calls, answers, changes>>

\* Whatever the answer says, an error envelope included, the call has succeeded.
Answered(c) ==
  /\ calls[c].pc = "sent"
  /\ pending' = pending \ {c}
  /\ answers' = answers \cup {c}
  /\ Update(c, [calls[c] EXCEPT !.pc = "done", !.row = IF @ = NoRow THEN NoRow ELSE Succeeded(@)])
  /\ UNCHANGED <<config, hint, effects, changes>>

-----------------------------------------------------------------------------
Spend == changes < MaxChanges /\ changes' = changes + 1

\* The operator edits capabilities.yaml; a provider describes its tool differently.
EditConfig(p) ==
  /\ Spend
  /\ \E entry \in Configs \cup {Absent} : config' = [config EXCEPT ![p] = entry]
  /\ UNCHANGED <<hint, calls, pending, effects, answers>>

Redescribe(p) ==
  /\ Spend
  /\ \E h \in Hints \cup {"gone"} : hint' = [hint EXCEPT ![p] = h]
  /\ UNCHANGED <<config, calls, pending, effects, answers>>

\* The Gateway dies; requests to a remote provider may be on their way.
Crash ==
  /\ Spend
  /\ \E c \in Calls : calls[c].pc \notin {"idle", "done"}
  /\ calls' = [c \in Calls |->
       IF calls[c].pc \in {"idle", "done"} THEN calls[c] ELSE [calls[c] EXCEPT !.pc = "dead"]]
  /\ pending' = {c \in pending : calls[c].provider \in Remotes}
  /\ UNCHANGED <<config, hint, effects, answers>>

Goes(c) == Inspected(c) \/ Relisted(c) \/ Fails(c) \/ Answered(c)

CallsNext ==
  \/ \E c \in Calls, p \in Providers, task \in BOOLEAN : Begin(c, p, task)
  \/ \E c \in Calls : Goes(c) \/ Carries(c)
  \/ \E p \in Remotes \cup Skills : EditConfig(p)
  \/ \E p \in Remotes : Redescribe(p)
  \/ Crash

\* A request is answered or times out.
Fairness == \A c \in Calls : WF_vars(Goes(c))

CallsSpec == CallsInit /\ [][CallsNext]_vars
FairSpec == CallsSpec /\ Fairness

-----------------------------------------------------------------------------
(* Properties.                                                             *)

\* Calls keep their types; a call that is not under way holds no request of this process.
CallsTypeOK ==
  /\ config \in [Remotes \cup Skills -> Configs \cup {Absent}]
  /\ \A c \in Calls :
       /\ calls[c].pc \in {"idle", "inspect", "relist", "sent", "done", "dead"}
       /\ calls[c].row \in AuditRow \cup {NoRow}
       /\ {calls[c].inspected, calls[c].listed} \subseteq Risks \cup {"none"}
  /\ \A c \in pending : calls[c].provider \in Remotes \/ calls[c].pc = "sent"
  /\ pending \cap answers = {} /\ changes \in 0..MaxChanges

\* Whatever a provider carries out that may write is on record, under the task it was asked
\* for, before it happens: no crash, lost answer or late effect is without a row.  (A remote
\* tool that called itself read-only when inspected and no longer when listed again excepted:
\* it is called without a row.)
EffectsHaveRows ==
  \A c \in effects : calls[c].listed # "read" =>
    \/ calls[c].inspected = "read"
    \/ /\ calls[c].row.decision = "ALLOWED" /\ calls[c].row.state # "INTENT"
       /\ calls[c].task

\* Nothing destructive or of production is carried out for a provider the operator has not
\* allowed it in the file the call began with, however the provider described its tool first.
GuardedIsAllowed ==
  \A c \in effects :
    (calls[c].listed \in Guarded /\ calls[c].provider # Native) =>
      calls[c].listed \in calls[c].config.allow

\* A row that succeeded was answered; one that failed may have had its effect, so a row never
\* says less than what is known: an answered call is never recorded as failed.
OutcomeIsTheAnswer ==
  \A c \in Calls : calls[c].row.state \in Finished =>
    ((calls[c].row.state = "SUCCEEDED") <=> (c \in answers))

\* Nothing happens through a provider that was not cleared and put on record first, and the
\* record tells what is known of it.
CallInv == CallsTypeOK /\ EffectsHaveRows /\ GuardedIsAllowed /\ OutcomeIsTheAnswer

\* A row is finished unless the Gateway dies while its call is under way.
RowsEnd ==
  \A c \in Calls :
    (calls[c].row.state = "EXECUTING") ~> (~Unfinished(calls[c].row) \/ calls[c].pc = "dead")
=============================================================================
