------------------------------ MODULE RepoEdit ------------------------------
(***************************************************************************)
(* The files of one task worktree: grande_repo_edit applies a batch after  *)
(* taking a checkpoint of the paths it names, grande_rollback puts a       *)
(* checkpoint back, and whatever either removes goes to the trash          *)
(* (repoFile.ts, checkpoint.ts, trash.ts, toolsCore.ts, audit.ts).         *)
(*                                                                         *)
(* The handlers are synchronous, so one runs at a time (call), but a       *)
(* running job writes the same directory between any two of their steps    *)
(* (the worktree is the writable root of its sandbox), any file operation  *)
(* may fail, and the process may die anywhere.                             *)
(***************************************************************************)
EXTENDS Integers, Sequences, FiniteSets, AuditLedger

CONSTANTS
  Paths,          \* relative paths of the worktree
  Contents,       \* bytes a file can have (told apart by their sha256)
  Absent,         \* no file there
  MaxCalls,       \* bound: edits and rollbacks requested
  MaxJobWrites    \* bound: files written or removed by jobs

ASSUME RepoEditAssumption ==
  /\ Absent \notin Contents
  /\ IsFiniteSet(Paths)
  /\ MaxCalls \in Nat
  /\ MaxJobWrites \in Nat

VARIABLES
  tree,           \* what each path holds now
  checkpoints,    \* the checkpoints with a manifest, oldest first
  trash,          \* files moved aside, with the path they came from
  ledger,         \* audit rows, oldest first
  call,           \* the handler that is running
  jobWrites,      \* writes done by jobs
  seen            \* history: contents a tool found before it changed anything

editing == <<tree, checkpoints, trash, ledger, call, jobWrites, seen>>

Held == Contents \cup {Absent}
Exists(p) == tree[p] # Absent

Ops == [op : {"create", "modify"}, path : Paths, content : Contents]
         \cup [op : {"delete"}, path : Paths]
         \cup {o \in [op : {"move"}, path : Paths, to : Paths] : o.path # o.to}

\* pathsOf: a move concerns two paths.
PathsOf(o) == IF o.op = "move" THEN {o.path, o.to} ELSE {o.path}
AffectedPaths(batch) == UNION {PathsOf(batch[i]) : i \in DOMAIN batch}

Batches == {<<o>> : o \in Ops} \cup (Ops \X Ops)

\* What phase one checks of an operation.  stale: the file has changed since
\* the caller read the sha256 it names.
Valid(o, stale) ==
  CASE o.op = "create" -> ~Exists(o.path)
    [] o.op = "move"   -> Exists(o.path) /\ ~Exists(o.to)
    [] OTHER           -> Exists(o.path) /\ ~stale

\* ... and of the batch: no two operations concern the same path.
Accepted(batch, stale) ==
  /\ \A i \in DOMAIN batch : Valid(batch[i], stale)
  /\ \A i, j \in DOMAIN batch : i # j => PathsOf(batch[i]) \cap PathsOf(batch[j]) = {}

NoCall == [kind |-> "none"]
Running ==
  [kind : {"edit", "rollback"}, row : 1..MaxCalls, batch : Seq(Ops), next : 1..3,
   left : SUBSET Paths, cp : Nat, pc : {"snapshot", "write", "restore"},
   aside : BOOLEAN, at : Paths \cup {Absent}, raced : SUBSET Paths]
Handlers == {NoCall} \cup Running

Here == {<<p, tree[p]>> : p \in {q \in Paths : Exists(q)}}

EditInit ==
  /\ tree \in [Paths -> Held]
  /\ Cardinality({p \in Paths : Exists(p)}) = 1
  /\ checkpoints = <<>>
  /\ trash = {}
  /\ ledger = <<>>
  /\ call = NoCall
  /\ jobWrites = 0
  /\ seen = {}

-----------------------------------------------------------------------------
(* grande_repo_edit                                                        *)

\* beginAudit, allowed, the whole of phase one, then executing: the handler
\* has not touched the disk yet.  A batch that fails a check ends its row.
Edit(batch, stale) ==
  /\ call = NoCall
  /\ Len(ledger) < MaxCalls
  /\ IF Accepted(batch, stale)
     THEN /\ ledger' = Append(ledger, Executing(Allowed(BeginAudit)))
          /\ call' = [kind |-> "edit", row |-> Len(ledger) + 1, batch |-> batch, next |-> 1,
                    left |-> {}, cp |-> 0, pc |-> "snapshot", aside |-> FALSE, at |-> Absent, raced |-> {}]
          /\ seen' = seen \cup Here
     ELSE /\ ledger' = Append(ledger, Failed(Allowed(BeginAudit)))
          /\ UNCHANGED <<call, seen>>
  /\ UNCHANGED <<tree, checkpoints, trash, jobWrites>>

\* createCheckpoint copies the files of the batch and writes the manifest
\* last; without a manifest there is no checkpoint.
CheckpointOf_Existing(paths) == [p \in {q \in paths : Exists(q)} |-> tree[p]]
CheckpointOf(paths) == [p \in paths |-> tree[p]]

Snapshot ==
  /\ call # NoCall /\ call.pc = "snapshot"
  /\ checkpoints' = Append(checkpoints, CheckpointOf(AffectedPaths(call.batch)))
  /\ call' = [call EXCEPT !.pc = "write", !.cp = Len(checkpoints) + 1]
  /\ UNCHANGED <<tree, trash, ledger, jobWrites, seen>>

\* One operation of phase two.  Nothing is checked again: a file a job has
\* put there since is overwritten.
Applied(o) ==
  CASE o.op = "move"   -> [[tree EXCEPT ![o.to] = tree[o.path]] EXCEPT ![o.path] = Absent]
    [] o.op = "delete" -> [tree EXCEPT ![o.path] = Absent]
    [] OTHER           -> [tree EXCEPT ![o.path] = o.content]

Writing == call # NoCall /\ call.pc = "write" /\ call.next <= Len(call.batch)

WriteOne ==
  /\ Writing
  /\ LET o == call.batch[call.next] IN
     /\ o.op \in {"move", "delete"} => Exists(o.path)
     /\ tree' = Applied(o)
     /\ trash' = IF o.op = "delete" THEN trash \cup {<<o.path, tree[o.path]>>} ELSE trash
  /\ call' = [call EXCEPT !.next = @ + 1]
  /\ UNCHANGED <<checkpoints, ledger, jobWrites, seen>>

\* A file operation throws: the handler goes over to restoring its checkpoint.
WriteFails ==
  /\ Writing
  /\ call' = [call EXCEPT !.pc = "restore", !.left = DOMAIN checkpoints[call.cp]]
  /\ UNCHANGED <<tree, checkpoints, trash, ledger, jobWrites, seen>>

EditDone ==
  /\ call # NoCall /\ call.pc = "write" /\ call.next > Len(call.batch)
  /\ ledger' = [ledger EXCEPT ![call.row] = Succeeded(@)]
  /\ call' = NoCall
  /\ UNCHANGED <<tree, checkpoints, trash, jobWrites, seen>>

\* createCheckpoint throws: phase two never starts.
SnapshotFails ==
  /\ call # NoCall /\ call.pc = "snapshot"
  /\ ledger' = [ledger EXCEPT ![call.row] = Failed(@)]
  /\ call' = NoCall
  /\ UNCHANGED <<tree, checkpoints, trash, jobWrites, seen>>

-----------------------------------------------------------------------------
(* restoreCheckpoint: for grande_rollback, and for a batch that failed     *)

Rollback(cp) ==
  /\ call = NoCall
  /\ Len(ledger) < MaxCalls
  /\ IF cp \in DOMAIN checkpoints
     THEN /\ ledger' = Append(ledger, Executing(Allowed(BeginAudit)))
          /\ call' = [kind |-> "rollback", row |-> Len(ledger) + 1, batch |-> <<>>, next |-> 1,
                    left |-> DOMAIN checkpoints[cp], cp |-> cp,
                    pc |-> "restore", aside |-> FALSE, at |-> Absent, raced |-> {}]
          /\ seen' = seen \cup Here
     ELSE /\ ledger' = Append(ledger, Failed(Executing(Allowed(BeginAudit))))
          /\ UNCHANGED <<call, seen>>
  /\ UNCHANGED <<tree, checkpoints, trash, jobWrites>>

\* The entries are taken one after the other; which comes first matters to
\* nothing, so the model takes any, and stays with one it has moved aside.
Restoring == call # NoCall /\ call.pc = "restore" /\ call.left # {}
Wanted(p) == checkpoints[call.cp][p]

\* A file that differs from the checkpoint is moved to the trash first.
MustMoveAside_OnlyNew(p) == Exists(p) /\ Wanted(p) = Absent
MustMoveAside(p) == Exists(p) /\ tree[p] # Wanted(p)

MoveAside(p) ==
  /\ Restoring /\ p \in call.left /\ ~call.aside
  /\ MustMoveAside(p)
  /\ trash' = trash \cup {<<p, tree[p]>>}
  /\ tree' = [tree EXCEPT ![p] = Absent]
  /\ call' = [call EXCEPT !.aside = TRUE, !.at = p]
  /\ UNCHANGED <<checkpoints, ledger, jobWrites, seen>>

\* ... then the saved bytes are written, unless the entry had no file.
PutBack(p) ==
  /\ Restoring /\ p \in call.left
  /\ IF call.aside THEN p = call.at ELSE ~MustMoveAside(p)
  /\ tree' = IF Wanted(p) = Absent THEN tree ELSE [tree EXCEPT ![p] = Wanted(p)]
  /\ call' = [call EXCEPT !.left = @ \ {p}, !.aside = FALSE, !.at = Absent]
  /\ UNCHANGED <<checkpoints, trash, ledger, jobWrites, seen>>

\* A restore that throws ends a rollback as failed; a batch that was being
\* undone reports its own first error either way.
RestoreFails ==
  /\ Restoring
  /\ ledger' = [ledger EXCEPT ![call.row] = Failed(@)]
  /\ call' = NoCall
  /\ UNCHANGED <<tree, checkpoints, trash, jobWrites, seen>>

RestoreDone ==
  /\ call # NoCall /\ call.pc = "restore" /\ call.left = {}
  /\ ledger' = [ledger EXCEPT ![call.row] =
                  IF call.kind = "rollback" THEN Succeeded(@) ELSE Failed(@)]
  /\ call' = NoCall
  /\ UNCHANGED <<tree, checkpoints, trash, jobWrites, seen>>

-----------------------------------------------------------------------------
(* Around the handlers                                                     *)

JobWrites(p, c) ==
  /\ jobWrites < MaxJobWrites
  /\ tree[p] # c
  /\ tree' = [tree EXCEPT ![p] = c]
  /\ jobWrites' = jobWrites + 1
  /\ call' = IF call = NoCall THEN call ELSE [call EXCEPT !.raced = @ \cup {p}]
  /\ seen' = seen \ {<<p, tree[p]>>}
  /\ UNCHANGED <<checkpoints, trash, ledger>>

\* The process dies inside a handler and is started again.
CallCrash ==
  /\ call # NoCall
  /\ call' = NoCall
  /\ UNCHANGED <<tree, checkpoints, trash, ledger, jobWrites, seen>>

CallStep ==
  \/ Snapshot \/ SnapshotFails
  \/ WriteOne \/ WriteFails \/ EditDone
  \/ \E p \in Paths : MoveAside(p) \/ PutBack(p)
  \/ RestoreFails \/ RestoreDone
  \/ CallCrash

EditNext ==
  \/ \E batch \in Batches, stale \in BOOLEAN : Edit(batch, stale)
  \/ \E cp \in 1..MaxCalls : Rollback(cp)
  \/ \E p \in Paths, c \in Held : JobWrites(p, c)
  \/ CallStep

EditSpec == EditInit /\ [][EditNext]_editing

-----------------------------------------------------------------------------
EditTypeOK ==
  /\ tree \in [Paths -> Held]
  /\ checkpoints \in Seq(UNION {[S -> Held] : S \in SUBSET Paths})
  /\ trash \subseteq Paths \X Contents
  /\ ledger \in Seq(AuditRow)
  /\ call \in Handlers
  /\ jobWrites \in 0..MaxJobWrites
  /\ seen \subseteq Paths \X Contents

\* A file that needs the worktree no more: it is in the trash or in a checkpoint.
Kept(f) ==
  \/ f \in trash
  \/ \E i \in DOMAIN checkpoints :
       f[1] \in DOMAIN checkpoints[i] /\ checkpoints[i][f[1]] = f[2]

\* Neither tool destroys bytes: every file a handler found when it started
\* is still in the worktree, in a checkpoint or in the trash, whatever failed
\* or crashed since (files a job itself replaced are not the tools' to keep).
NothingLost ==
  \A f \in seen : tree[f[1]] = f[2] \/ Kept(f)

\* A restore that reaches its end has put back every path of the batch, or
\* of the checkpoint a rollback names, the created ones removed and the moved
\* ones at their old place: a failed batch leaves nothing of itself behind, and
\* a rollback that says it succeeded did (paths a job wrote meanwhile excepted).
RestoreIsExact ==
  [][ (call # NoCall /\ call.pc = "restore" /\ call.left = {} /\ call' = NoCall)
      => LET cp == checkpoints[call.cp] IN
         \A p \in (DOMAIN cp \cup AffectedPaths(call.batch)) \ call.raced :
           p \in DOMAIN cp /\ tree'[p] = cp[p] ]_editing

\* The files only change while the row of the handler says EXECUTING, so a
\* handler cut short by a crash is one of the rows listUnfinishedAudit shows.
EffectsAreOnRecord ==
  [][ (tree' # tree /\ jobWrites' = jobWrites)
      => ledger[call.row].state = "EXECUTING" /\ Unfinished(ledger'[call.row]) ]_editing

\* How an operation that was carried out leaves its paths.
Outcome(o) ==
  CASE o.op = "move" ->
         {o.path, o.to} \cap call.raced = {}
           => tree[o.path] = Absent /\ tree[o.to] = checkpoints[call.cp][o.path]
    [] o.op = "delete" -> o.path \in call.raced \/ tree[o.path] = Absent
    [] OTHER -> o.path \in call.raced \/ tree[o.path] = o.content

\* A batch reported as applied left every path as its operation asked, a moved
\* file's bytes included: no operation of it undid another one (paths a job
\* wrote meanwhile excepted).
AppliedIsWhole ==
  [][ (call # NoCall /\ call.kind = "edit" /\ ledger'[call.row].state = "SUCCEEDED")
      => \A i \in DOMAIN call.batch : Outcome(call.batch[i]) ]_editing

\* Nothing the handlers found is beyond recovery.
FilesInv == EditTypeOK /\ NothingLost

\* What the agent is told, and what the ledger shows after a crash, is what the files are.
OutcomesAreTrue == RestoreIsExact /\ EffectsAreOnRecord /\ AppliedIsWhole
=============================================================================
