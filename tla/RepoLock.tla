------------------------------ MODULE RepoLock ------------------------------
(***************************************************************************)
(* The write lock of one repository: the queue inside a process            *)
(* (src/src/repoWriteLock.ts) and, for its head, the lock file between     *)
(* processes (src/src/repoProcessLock.ts).  The Gateway and the command    *)
(* line (grande gc --apply) are the processes.  Inside a process the file  *)
(* operations run without an await; every one of them is an action because *)
(* another process may act in between, and a process may die there.        *)
(***************************************************************************)
EXTENDS Naturals, Sequences, FiniteSets

CONSTANTS
  Procs,       \* processes that write to the repository
  MaxCalls,    \* bound: calls of withRepoWriteLock
  MaxLife      \* bound: times a process was started

ASSUME LockAssumption == MaxCalls \in Nat /\ MaxLife \in Nat \ {0}

VARIABLES
  queue,     \* repoTails: the waiting calls of each process, its head first
  pc,        \* what the head of each queue does
  seen,      \* the lock file content the head has read
  retried,   \* the head has already removed a stale lock
  file,      \* the lock file
  life,      \* how often each process was started; its pid is <<p, life[p]>>
  pids,      \* live process ids, those given to other programs included
  calls,     \* calls made; a call's number stands for the nonce it draws
  raced      \* history: a recovery removed a lock other than the one it had read

lvars == <<queue, pc, seen, retried, file, life, pids, calls, raced>>

NoFile == [state |-> "none", pid |-> <<>>, nonce |-> 0]

(* The lock of the head of p's queue, before and after its content is       *)
(* written.                                                                 *)
Lock(p, s) == [state |-> s, pid |-> <<p, life[p]>>, nonce |-> Head(queue[p])]

Live(p) == <<p, life[p]>> \in pids

LockInit ==
  /\ queue = [p \in Procs |-> <<>>]
  /\ pc = [p \in Procs |-> "idle"]
  /\ seen = [p \in Procs |-> NoFile]
  /\ retried = [p \in Procs |-> FALSE]
  /\ file = NoFile
  /\ life = [p \in Procs |-> 1]
  /\ pids = {<<p, 1>> : p \in Procs}
  /\ calls = 0
  /\ raced = FALSE

world == <<life, pids>>
Goto(p, l) == pc' = [pc EXCEPT ![p] = l]

(* withRepoWriteLock: wait for the previous tail.                           *)
Enqueue(p) ==
  /\ Live(p)
  /\ calls < MaxCalls
  /\ calls' = calls + 1
  /\ queue' = [queue EXCEPT ![p] = Append(@, calls + 1)]
  /\ UNCHANGED <<pc, seen, retried, file, raced, world>>

Begin(p) ==
  /\ pc[p] = "idle" /\ queue[p] # <<>>
  /\ Goto(p, "create")
  /\ retried' = [retried EXCEPT ![p] = FALSE]
  /\ UNCHANGED <<queue, seen, file, calls, raced, world>>

\* Mutant: a call that could not acquire the lock leaves its queue waiting.
Leave_OnlyOnSuccess(p) ==
  IF pc[p] \in {"release", "unlock"}
  THEN Goto(p, "idle") /\ queue' = [queue EXCEPT ![p] = Tail(@)]
  ELSE UNCHANGED <<pc, queue>>

(* The finally blocks: whatever happened, the next of the queue may go on.  *)
Leave(p) ==
  /\ Goto(p, "idle")
  /\ queue' = [queue EXCEPT ![p] = Tail(@)]

(* writeFileSync with wx: open(O_CREAT|O_EXCL), then the content.           *)
Create(p) ==
  /\ pc[p] = "create"
  /\ file.state = "none"
  /\ file' = Lock(p, "empty")
  /\ Goto(p, "write")
  /\ UNCHANGED <<queue, seen, retried, calls, raced, world>>

\* The file may have been removed by somebody else's recovery meanwhile: the
\* content then goes to a file that has no name any more.
Write(p) ==
  /\ pc[p] = "write"
  /\ file' = IF file = Lock(p, "empty") THEN Lock(p, "whole") ELSE file
  /\ Goto(p, "critical")
  /\ UNCHANGED <<queue, seen, retried, calls, raced, world>>

Exists(p) ==
  /\ pc[p] = "create"
  /\ file.state # "none"
  /\ Goto(p, "read")
  /\ UNCHANGED <<queue, seen, retried, file, calls, raced, world>>

\* Mutant: a lock file without readable metadata is taken for a leftover.
Stale_Malformed(p) ==
  /\ file.state = "empty" \/ (file.state = "whole" /\ file.pid \notin pids)
  /\ ~retried[p]

(* Well formed, its owner dead, and no stale lock was removed before.       *)
Stale(p) == file.state = "whole" /\ file.pid \notin pids /\ ~retried[p]

(* The file that was there is read (gone by now: ENOENT is thrown) and      *)
(* judged; malformed metadata, a live owner or a second stale lock are      *)
(* errors.                                                                  *)
Read(p) ==
  /\ pc[p] = "read"
  /\ IF Stale(p)
     THEN /\ seen' = [seen EXCEPT ![p] = file]
          /\ Goto(p, "reread")
          /\ UNCHANGED queue
     ELSE Leave(p) /\ UNCHANGED seen
  /\ UNCHANGED <<retried, file, calls, raced, world>>

(* Read again: changed means that somebody else takes over.                 *)
Reread(p) ==
  /\ pc[p] = "reread"
  /\ IF file = seen[p] THEN Goto(p, "unlink") /\ UNCHANGED queue ELSE Leave(p)
  /\ UNCHANGED <<seen, retried, file, calls, raced, world>>

(* unlinkSync removes whatever bears the name by then, and throws if        *)
(* nothing does.                                                            *)
Unlink(p) ==
  /\ pc[p] = "unlink"
  /\ IF file.state = "none"
     THEN Leave(p) /\ UNCHANGED <<file, retried, raced>>
     ELSE /\ file' = NoFile
          /\ raced' = (raced \/ file # seen[p])
          /\ retried' = [retried EXCEPT ![p] = TRUE]
          /\ Goto(p, "create")
          /\ UNCHANGED queue
  /\ UNCHANGED <<seen, calls, world>>

(* The operation ends, well or not; release() reads the file ...            *)
Finish(p) ==
  /\ pc[p] = "critical"
  /\ Goto(p, "release")
  /\ UNCHANGED <<queue, seen, retried, file, calls, raced, world>>

Owned(p) == file = Lock(p, "whole")

Release(p) ==
  /\ pc[p] = "release"
  /\ IF Owned(p) THEN Goto(p, "unlock") /\ UNCHANGED queue ELSE Leave(p)
  /\ UNCHANGED <<seen, retried, file, calls, raced, world>>

(* ... and removes it.                                                      *)
Unlock(p) ==
  /\ pc[p] = "unlock"
  /\ file' = NoFile
  /\ Leave(p)
  /\ UNCHANGED <<seen, retried, calls, raced, world>>

(* The process dies where it is; its pid is free.                           *)
Die(p) ==
  /\ Live(p)
  /\ pids' = pids \ {<<p, life[p]>>}
  /\ queue' = [queue EXCEPT ![p] = <<>>]
  /\ Goto(p, "dead")
  /\ UNCHANGED <<seen, retried, file, life, calls, raced>>

Start(p) ==
  /\ ~Live(p)
  /\ life[p] < MaxLife
  /\ life' = [life EXCEPT ![p] = @ + 1]
  /\ pids' = pids \cup {<<p, life[p] + 1>>}
  /\ Goto(p, "idle")
  /\ UNCHANGED <<queue, seen, retried, file, calls, raced>>

(* Another program is given the pid of the dead owner of the lock.          *)
Recycled ==
  /\ file.state = "whole" /\ file.pid \notin pids
  /\ \E p \in Procs : file.pid[1] = p /\ file.pid[2] < life[p]
  /\ pids' = pids \cup {file.pid}
  /\ UNCHANGED <<queue, pc, seen, retried, file, life, calls, raced>>

HeadSteps(p) ==
  \/ Begin(p) \/ Create(p) \/ Write(p) \/ Exists(p) \/ Read(p)
  \/ Reread(p) \/ Unlink(p) \/ Finish(p) \/ Release(p) \/ Unlock(p)

LockNext ==
  \/ \E p \in Procs : Enqueue(p) \/ HeadSteps(p) \/ Die(p) \/ Start(p)
  \/ Recycled

\* A process that lives goes on with its work.
Fairness == \A p \in Procs : WF_lvars(HeadSteps(p))

LockSpec == LockInit /\ [][LockNext]_lvars
FairSpec == LockSpec /\ Fairness

-----------------------------------------------------------------------------
Labels == {"idle", "create", "write", "read", "reread", "unlink", "critical", "release", "unlock", "dead"}
Writers == {p \in Procs : pc[p] \in {"critical", "release", "unlock"}}

LockTypeOK ==
  /\ pc \in [Procs -> Labels]
  /\ calls \in 0..MaxCalls
  /\ life \in [Procs -> 1..MaxLife]
  /\ file.state \in {"none", "empty", "whole"}
  /\ raced \in BOOLEAN
  /\ \A p \in Procs : (pc[p] = "dead" <=> ~Live(p)) /\ (pc[p] \notin {"idle", "dead"} => queue[p] # <<>>)

(* There is one writer at a time; the one way to a second is a recovery     *)
(* that removed a lock taken after it had read the stale one, which the     *)
(* comment at repoProcessLock.ts:142 rules out and the code does not.       *)
OneWriter == raced \/ Cardinality(Writers) <= 1

(* The writer's lock stays on disk until the writer itself removes it.      *)
WriterHoldsFile ==
  \A p \in Procs : pc[p] = "critical" /\ ~raced => file = Lock(p, "whole")

(* Writers exclude each other, across crashes, recycled process ids and     *)
(* lock files nobody can read: those are for a Human to remove.             *)
LockInv == LockTypeOK /\ OneWriter /\ WriterHoldsFile

Waits(p, c) == \E n \in DOMAIN queue[p] : queue[p][n] = c

(* No wakeup is lost: a queued call is served or refused, whatever happened *)
(* to those before it, or its process dies.                                 *)
QueueDrains ==
  \A p \in Procs, c \in 1..MaxCalls : Waits(p, c) ~> ~Waits(p, c)
=============================================================================
