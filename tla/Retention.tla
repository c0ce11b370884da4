------------------------------ MODULE Retention ------------------------------
(***************************************************************************)
(* The retention of what jobs leave behind (resourceRetention.ts): the     *)
(* private directory of a job and the prepared dependencies of the         *)
(* repository, used by the jobs of JobSupervision and removed by a process *)
(* of its own, `resourceMaintenanceCli apply`.                             *)
(*                                                                         *)
(* An object is renamed under the write lock of the database, its removal  *)
(* is put on record in the same transaction, and only then is it deleted.  *)
(* The process may die at any step.  The tasks are of one repository.      *)
(***************************************************************************)
EXTENDS JobSupervision

VARIABLES
  obj,            \* what each resource is on disk: its stamp under its name (0: nothing), the
                  \* last stamp, the objects moved aside, whether the job's row names the
                  \* one moved, whether a death lost its name
  merged,         \* tasks whose pull request receipt names a merge
  recorded,       \* retirements committed with their audit row, of each resource
  deleted,        \* objects deleted, of each resource
  cli,            \* the maintenance process
  plans           \* the maintenance processes started

kept == <<obj, merged, recorded, deleted>>
hostVars == <<vars, kept, cli, plans>>

Cache == 0
Resources == {Cache} \cup Jobs
NoObject == [name |-> 0, last |-> 0, moved |-> 0, noted |-> FALSE, lost |-> FALSE]
NoCli == [pc |-> "idle", items |-> {}, item |-> [res |-> Cache, at |-> "name", stamp |-> 0]]

Stamped(o) == [o EXCEPT !.name = o.last + 1, !.last = o.last + 1]
Aside(o) == [o EXCEPT !.name = 0, !.moved = o.moved + 1]
Back(o, stamp) == [o EXCEPT !.name = stamp, !.moved = o.moved - 1]

\* An earlier task of the repository has prepared its dependencies.
HostInit ==
  /\ Init
  /\ obj = [r \in Resources |-> IF r = Cache THEN Stamped(NoObject) ELSE NoObject]
  /\ merged = {}
  /\ recorded = [r \in Resources |-> 0] /\ deleted = [r \in Resources |-> 0]
  /\ cli = NoCli /\ plans = 0

-----------------------------------------------------------------------------
(* What the jobs make and use.                                             *)

\* jobTmp is made for a sandbox and for an install; the bootstrap removes its own when it settles.
MakesTemp(j) ==
  /\ Kind(j) \in {"sandbox", "dependency-bootstrap"}
  /\ sup[j].pc # "spawned" /\ sup'[j].pc = "spawned"

DropsTemp(j) ==
  /\ Kind(j) = "dependency-bootstrap" /\ sup[j].pc # "none"
  /\ row[j].state = "running" /\ row'[j].state \in Terminal

\* The prepared dependencies are read or published, which refreshes their age.
UsesCache(j) ==
  sup[j].pc \in {"prepare", "publish"} /\ Kind(j) \in {"dependency-bootstrap", "host-verifier"}

TouchesCache(j) ==
  /\ UsesCache(j) /\ gateway' = "up" /\ sup'[j].pc # "spawned"
  /\ sup'[j].pc # sup[j].pc \/ sup'[j].installed # sup[j].installed

\* A step of the jobs.  Its writes to the database wait for the transaction of a retirement.
JobStep ==
  /\ Next
  /\ cli.pc = "moved" => row' = row /\ task' = task
  /\ \E touched, dropped \in BOOLEAN :
       /\ touched => \E j \in Jobs : TouchesCache(j)
       /\ dropped => \E j \in Jobs : DropsTemp(j)
       /\ obj' = [r \in Resources |->
            CASE r = Cache -> IF touched THEN Stamped(obj[r]) ELSE obj[r]
              [] r # Cache /\ MakesTemp(r) -> Stamped(obj[r])
              [] r # Cache /\ DropsTemp(r) /\ dropped -> [obj[r] EXCEPT !.name = 0]
              [] OTHER -> obj[r]]
  /\ UNCHANGED <<merged, recorded, deleted, cli, plans>>

\* recordTaskPrMerged, by whichever call sees the merge.
MergeRecorded(t) ==
  /\ history.plans > 0 /\ task[t] # "none" /\ t \notin merged
  /\ merged' = merged \cup {t}
  /\ UNCHANGED <<vars, obj, recorded, deleted, cli, plans>>

-----------------------------------------------------------------------------
(* The plan and its application.                                           *)

\* deliveryObligation: an authorization precedes every deployment job.
Obliged(t) == \E j \in Jobs : TaskOf(j) = t /\ Kind(j) = "deployment-host"

TempHeld(j) ==
  LET t == TaskOf(j) IN
  ~(row[j].state \in Terminal /\ task[t] = "CLOSED" /\ t \in merged /\ ~Obliged(t)
    /\ ActiveOf(t) = {})

CacheHeld ==
  Active # {} \/ \E t \in Tasks : task[t] \in {"READY", "closing"} \/ Obliged(t)

\* protection.
Held(r) == IF r = Cache THEN CacheHeld ELSE TempHeld(r)

\* A moved directory of a job is found only by the name its row keeps, the cache by listing.
Listed(r) ==
  {i \in {[res |-> r, at |-> "name", stamp |-> obj[r].name], [res |-> r, at |-> "aside", stamp |-> 0]} :
     IF i.at = "name" THEN obj[r].name # 0 ELSE obj[r].moved > 0 /\ (r = Cache \/ (obj[r].noted /\ ~obj[r].lost))}

\* planResourceRetention: those found old enough of what is there and not held.
Plans ==
  /\ cli = NoCli /\ plans < history.plans
  /\ \E items \in SUBSET UNION {Listed(r) : r \in {x \in Resources : ~Held(x)}} :
       items # {} /\ cli' = [NoCli EXCEPT !.pc = "apply", !.items = items]
  /\ plans' = plans + 1
  /\ UNCHANGED <<vars, kept>>

\* Under the lock the item is looked at again: its stamp stands for identity, content and age.
Retirable_AsPlanned(i) == i \in Listed(i.res)

Retirable(i) == i \in Listed(i.res) /\ ~Held(i.res)

\* BEGIN IMMEDIATE, the checks and the rename.
Retires(i) ==
  /\ cli.pc = "apply" /\ i \in cli.items /\ Retirable(i)
  /\ obj' = [obj EXCEPT ![i.res] = IF i.at = "name" THEN Aside(@) ELSE @]
  /\ cli' = [cli EXCEPT !.pc = "moved", !.item = i, !.items = @ \ {i}]
  /\ UNCHANGED <<vars, merged, recorded, deleted, plans>>

\* Held, changed or gone since the plan.
Skips(i) ==
  /\ cli.pc = "apply" /\ i \in cli.items /\ ~Retirable(i)
  /\ cli' = [cli EXCEPT !.items = @ \ {i}]
  /\ UNCHANGED <<vars, kept, plans>>

\* The audit row and the row of the job go with the transaction.
Commits ==
  /\ cli.pc = "moved"
  /\ recorded' = [recorded EXCEPT ![cli.item.res] = @ + 1]
  /\ obj' = [obj EXCEPT ![cli.item.res].noted = cli.item.res # Cache]
  /\ cli' = [cli EXCEPT !.pc = "committed"]
  /\ UNCHANGED <<vars, merged, deleted, plans>>

\* The audit is refused: the object goes back to where it was.
RollsBack ==
  /\ cli.pc = "moved"
  /\ obj' = [obj EXCEPT ![cli.item.res] =
               IF cli.item.at = "name" THEN Back(@, cli.item.stamp) ELSE @]
  /\ cli' = [cli EXCEPT !.pc = "apply"]
  /\ UNCHANGED <<vars, merged, recorded, deleted, plans>>

\* rmSync of the moved object, which may fail and leave it.
Purges ==
  /\ cli.pc = "committed"
  /\ \/ /\ obj' = [obj EXCEPT ![cli.item.res].moved = @ - 1]
        /\ deleted' = [deleted EXCEPT ![cli.item.res] = @ + 1]
     \/ UNCHANGED <<obj, deleted>>
  /\ cli' = [cli EXCEPT !.pc = "apply"]
  /\ UNCHANGED <<vars, merged, recorded, plans>>

\* The plan is done, or the process dies.  SQLite forgets what was not committed, with it the
\* name a directory was moved to: every move gives a new one.
Leaves ==
  /\ (cli.pc = "apply" /\ cli.items = {}) \/ cli.pc \in {"moved", "committed"}
  /\ cli' = NoCli
  /\ obj' = IF cli.pc = "moved" /\ cli.item.res # Cache
            THEN [obj EXCEPT ![cli.item.res].lost = TRUE] ELSE obj
  /\ UNCHANGED <<vars, merged, recorded, deleted, plans>>

Maintains == Commits \/ RollsBack \/ Purges \/ Leaves

HostNext ==
  \/ JobStep \/ \E t \in Tasks : MergeRecorded(t)
  \/ Plans \/ Maintains \/ \E i \in cli.items : Retires(i) \/ Skips(i)

\* The process goes on or dies: it does not keep the lock for ever.
HostSpec == HostInit /\ [][HostNext]_hostVars /\ Fairness /\ WF_hostVars(Maintains)

-----------------------------------------------------------------------------
(* Properties.                                                             *)

\* Whose work needs a resource: the processes and the supervisor of a job its directory, the
\* jobs that read or publish dependencies the cache.
InUse(r) ==
  IF r = Cache THEN \E j \in Jobs : UsesCache(j)
  ELSE Alive(r) \/ sup[r].pc \in {"spawned", "watch"}

\* No retirement takes a directory from under a process or a supervisor, whichever life of the
\* Gateway started it, nor the dependencies from under a job that reads or publishes them
\* (applyResourceRetention against the jobs and tasks that come and go since the plan).
RetiredIsUnused ==
  [][\A r \in Resources : obj'[r].moved > obj[r].moved => ~InUse(r)]_hostVars

\* Nothing is deleted whose retirement is not on record, and what is on record and was not
\* deleted is still found, whichever steps of the plan failed or died, except by a death between
\* a rename and its commit.
DeletedIsOnRecord ==
  \A r \in Resources :
    /\ deleted[r] <= recorded[r]
    /\ recorded[r] > deleted[r] /\ cli = NoCli /\ ~obj[r].lost =>
         obj[r].moved = 0 \/ \E i \in Listed(r) : i.at = "aside"

\* What retention removes nobody uses, and it is on record.
RetentionIsSafe == []DeletedIsOnRecord /\ RetiredIsUnused
=============================================================================
