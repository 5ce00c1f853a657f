----------------------------- MODULE DatasetQueues -----------------------------
(***************************************************************************)
(* The queues of the DuckDB datasets: every dataset is a database file     *)
(* that operations attach to the one connection, and executeWithQueue      *)
(* chains the operations of a dataset one behind the other.                *)
(* src/src/main/duckdb/dataset-storage-service.ts, and the services that   *)
(* queue through it: dataset-query-service.ts, dataset-export-service.ts,  *)
(* dataset-service.ts, duckdb-service-query-facade.ts.                     *)
(*                                                                         *)
(* A queue is a chain of promises: queryQueues holds the newest one.  An   *)
(* entry <<o, n>> is the n-th promise operation o makes.  number and       *)
(* arrived count them: they belong to the properties and steer nothing.    *)
(*                                                                         *)
(* The kinds of operations, by their way through the queues:               *)
(*   query       executeInQueue, metadata read in the queue (queryDataset, *)
(*               previews, record changes)                                 *)
(*   attached    withDatasetAttached, metadata read before the queue       *)
(*   lookup      previewLookup: both datasets' queues, in sorted order     *)
(*   dictionary  filterWithAhoCorasick: attaches a second dataset, in the  *)
(*               queue of the first alone                                  *)
(*   export      exportDataset with a lookup: the second dataset's queue   *)
(*               within the first's                                        *)
(*   delete      deleteDataset                                             *)
(* A query of the query engine with lookups (queryWithEngine) is an        *)
(* `attached` operation of the looked-up dataset and then a `query` of its *)
(* own; that the second one uses what the first one attached, outside the  *)
(* other dataset's queue, is left out, like plugin tables, whose removal   *)
(* goes on when their file cannot be removed, and a DETACH that fails.     *)
(***************************************************************************)
EXTENDS Naturals

CONSTANTS
  Datasets,   \* numbered, in the order of their identifiers
  Ops,
  Kinds,      \* the kinds of operations of the instance
  None

ASSUME QueuesAssumption ==
  /\ Datasets \subseteq Nat
  /\ None \notin Datasets /\ None \notin Ops \X {1, 2}
  /\ None \notin [kind : Kinds, main : Datasets, other : Datasets]

Entries == Ops \X {1, 2}

VARIABLES
  queryQueues,  \* dataset -> its newest entry
  promise,      \* entry -> "no", "waiting", "running", "settled"
  on,           \* entry -> its dataset
  after,        \* waiting entry -> the entry it is chained to
  number,       \* entry -> its place among the entries of its dataset
  arrived,      \* dataset -> how many entries it has had
  op,           \* operation -> its kind and datasets
  pc,
  uses,         \* operation under way -> the datasets it has attached
  meta,         \* the datasets that have their row in the metadata
  file,         \* dataset -> "data", "empty" (made by ATTACH) or "none"
  attached      \* the datasets attached to the connection

queueVars == <<queryQueues, promise, on, after, number, arrived>>
opVars == <<op, pc, uses>>
dataVars == <<meta, file, attached>>
vars == <<queueVars, opVars, dataVars>>

Init ==
  /\ queryQueues = [d \in Datasets |-> None]
  /\ promise = [e \in Entries |-> "no"]
  /\ on = [e \in Entries |-> None]
  /\ after = [e \in Entries |-> None]
  /\ number = [e \in Entries |-> 0]
  /\ arrived = [d \in Datasets |-> 0]
  /\ op = [o \in Ops |-> None]
  /\ pc = [o \in Ops |-> "idle"]
  /\ uses = [o \in Ops |-> {}]
  /\ meta = Datasets
  /\ file = [d \in Datasets |-> "data"]
  /\ attached = {}
-----------------------------------------------------------------------------
(* executeWithQueue.                                                       *)

Enqueue(e, d) ==
  /\ promise[e] = "no"
  /\ promise' = [promise EXCEPT ![e] = "waiting"]
  /\ on' = [on EXCEPT ![e] = d]
  /\ after' = [after EXCEPT ![e] = queryQueues[d]]
  /\ queryQueues' = [queryQueues EXCEPT ![d] = e]
  /\ number' = [number EXCEPT ![e] = arrived[d] + 1]
  /\ arrived' = [arrived EXCEPT ![d] = @ + 1]

\* mutant: an entry does not wait for one that is still waiting itself.
HasTurnEarly(e) == after[e] # None => promise[after[e]] # "running"
HasTurn(e) == after[e] # None => promise[after[e]] = "settled"

Begin(e) ==
  /\ promise[e] = "waiting" /\ HasTurn(e)
  /\ promise' = [promise EXCEPT ![e] = "running"]
  /\ after' = [after EXCEPT ![e] = None]
  /\ UNCHANGED <<queryQueues, on, number, arrived>>

\* mutant: a settled entry is left in the map.
KeepsEntry(e) == queryQueues
Cleans(e) == IF queryQueues[on[e]] = e THEN [queryQueues EXCEPT ![on[e]] = None]
             ELSE queryQueues

Settle(e) ==
  /\ promise[e] = "running"
  /\ promise' = [promise EXCEPT ![e] = "settled"]
  /\ queryQueues' = Cleans(e)
  /\ UNCHANGED <<on, after, number, arrived>>
-----------------------------------------------------------------------------
(* Operations, from one await to the next.                                 *)

Goto(o, l) == pc' = [pc EXCEPT ![o] = l]

Fail(o) ==
  /\ Goto(o, "leaving")
  /\ UNCHANGED <<op, uses, dataVars>>

\* mutant: the datasets of a lookup are queued for as they are named.
AsNamed(r) == IF r.main = r.other THEN <<r.main>> ELSE <<r.main, r.other>>
Sorted(r) == IF r.main = r.other THEN <<r.main>>
             ELSE IF r.main < r.other THEN <<r.main, r.other>>
             ELSE <<r.other, r.main>>

\* The queues an operation goes through; all but an export's second one are
\* entered before it begins.
Queues(r) == CASE r.kind = "lookup" -> Sorted(r)
               [] r.kind = "export" -> <<r.main, r.other>>
               [] OTHER -> <<r.main>>
Twice(r) == r.kind = "lookup" /\ r.main # r.other
ReadsAhead == {"attached", "delete"}

Call(o) ==
  /\ pc[o] = "idle"
  /\ \E k \in Kinds, d, b \in Datasets :
       /\ k \notin {"lookup", "dictionary", "export"} => b = d
       /\ LET r == [kind |-> k, main |-> d, other |-> b]
          IN /\ op' = [op EXCEPT ![o] = r]
             /\ IF k \in ReadsAhead
                THEN Goto(o, "look") /\ UNCHANGED queueVars
                ELSE Goto(o, "queued") /\ Enqueue(<<o, 1>>, Queues(r)[1])
  /\ UNCHANGED <<uses, dataVars>>

\* The metadata is read before the operation is queued.
Look(o) ==
  /\ pc[o] = "look"
  /\ Goto(o, IF op[o].main \in meta THEN "enter" ELSE "over")
  /\ UNCHANGED <<queueVars, op, uses, dataVars>>

Enter(o) ==
  /\ pc[o] \in {"enter", "enterOther"}
  /\ Goto(o, IF pc[o] = "enter" THEN "queued" ELSE "queuedOther")
  /\ LET n == IF pc[o] = "enter" THEN 1 ELSE 2
     IN Enqueue(<<o, n>>, Queues(op[o])[n])
  /\ UNCHANGED <<op, uses, dataVars>>

\* The operation's turn in its first queue, or in its second one.
Start(o) ==
  \/ /\ pc[o] = "queued" /\ Begin(<<o, 1>>)
     /\ Goto(o, CASE Twice(op[o]) -> "enterOther"
                  [] op[o].kind = "attached" -> "attach"
                  [] op[o].kind = "delete" -> "detach"
                  [] OTHER -> "read")
     /\ UNCHANGED <<op, uses, dataVars>>
  \/ /\ pc[o] = "queuedOther" /\ Begin(<<o, 2>>)
     /\ Goto(o, IF op[o].kind = "export" THEN "attachOther" ELSE "read")
     /\ UNCHANGED <<op, uses, dataVars>>

\* mutant: the dataset's row is not looked for.
MayGoOnBlindly(d) == TRUE
MayGoOn(d) == d \in meta

\* getDatasetInfo in the queue; a missing dictionary shows only when it is used.
Read(o) ==
  /\ pc[o] = "read"
  /\ \/ MayGoOn(op[o].main) /\ Goto(o, "attach") /\ UNCHANGED <<op, uses, dataVars>>
     \/ /\ op[o].main \notin meta /\ op[o].kind = "dictionary"
        /\ Goto(o, "readOther")
        /\ UNCHANGED <<op, uses, dataVars>>
     \/ ~MayGoOn(op[o].main) /\ op[o].kind # "dictionary" /\ Fail(o)
  /\ UNCHANGED queueVars

ReadOther(o) ==
  /\ pc[o] = "readOther"
  /\ \/ /\ op[o].other \in meta
        /\ Goto(o, IF op[o].kind = "export" THEN "enterOther" ELSE "attachOther")
        /\ UNCHANGED <<op, uses, dataVars>>
     \/ /\ op[o].other \notin meta /\ op[o].kind = "dictionary"
        /\ Goto(o, "use")
        /\ UNCHANGED <<op, uses, dataVars>>
     \/ op[o].other \notin meta /\ op[o].kind # "dictionary" /\ Fail(o)
  /\ UNCHANGED queueVars

\* smartAttach: ATTACH IF NOT EXISTS, which makes a file that is not there.
Attach(o, d) ==
  /\ attached' = attached \cup {d}
  /\ file' = [file EXCEPT ![d] = IF @ = "none" THEN "empty" ELSE @]
  /\ uses' = [uses EXCEPT ![o] = @ \cup {d}]
  /\ UNCHANGED <<op, meta>>

AttachMain(o) ==
  /\ pc[o] = "attach"
  /\ \/ /\ Attach(o, op[o].main)
        /\ Goto(o, IF op[o].kind \in {"dictionary", "export"} \/ Twice(op[o])
                   THEN "readOther" ELSE "use")
     \/ Fail(o)
  /\ UNCHANGED queueVars

AttachOther(o) ==
  /\ pc[o] = "attachOther"
  /\ \/ /\ Attach(o, op[o].other)
        /\ Goto(o, IF op[o].kind = "export" THEN "returning" ELSE "use")
     \/ Fail(o)
  /\ UNCHANGED queueVars

\* What the operation is for, on tables that are there or not.
Use(o) ==
  /\ pc[o] = "use"
  /\ \/ Fail(o)
     \/ /\ \A d \in {op[o].main, op[o].other} : d \in attached /\ file[d] = "data"
        /\ Goto(o, "leaving")
        /\ UNCHANGED <<op, uses, dataVars>>
  /\ UNCHANGED queueVars

\* deleteDataset: DETACH,
Detach(o) ==
  /\ pc[o] = "detach"
  /\ attached' = attached \ {op[o].main}
  /\ Goto(o, "remove")
  /\ UNCHANGED <<queueVars, op, uses, meta, file>>

\* the file, which may still be held after four attempts,
Remove(o) ==
  /\ pc[o] = "remove"
  /\ \/ Fail(o)
     \/ /\ file' = [file EXCEPT ![op[o].main] = "none"]
        /\ Goto(o, "forget")
        /\ UNCHANGED <<op, uses, meta, attached>>
  /\ UNCHANGED queueVars

\* and deleteMetadata, a transaction that may fail.
Forget(o) ==
  /\ pc[o] = "forget"
  /\ \/ Fail(o)
     \/ /\ meta' = meta \ {op[o].main}
        /\ Goto(o, "leaving")
        /\ UNCHANGED <<op, uses, file, attached>>
  /\ UNCHANGED queueVars

\* An export goes on when its second dataset has been attached.
Return(o) ==
  /\ pc[o] = "returning"
  /\ Settle(<<o, 2>>)
  /\ Goto(o, "use")
  /\ UNCHANGED <<op, uses, dataVars>>

\* An operation that has ended or failed settles its queues, the inner one first.
Leave(o) ==
  /\ pc[o] = "leaving"
  /\ \/ /\ promise[<<o, 2>>] = "running" /\ Settle(<<o, 2>>)
        /\ UNCHANGED <<pc, uses>>
     \/ /\ promise[<<o, 2>>] # "running" /\ Settle(<<o, 1>>)
        /\ Goto(o, "over")
        /\ uses' = [uses EXCEPT ![o] = {}]
  /\ UNCHANGED <<op, dataVars>>

Work(o) ==
  \/ Look(o) \/ Enter(o) \/ Start(o) \/ Read(o) \/ ReadOther(o)
  \/ AttachMain(o) \/ AttachOther(o) \/ Use(o)
  \/ Detach(o) \/ Remove(o) \/ Forget(o) \/ Return(o) \/ Leave(o)

Next == \E o \in Ops : Call(o) \/ Work(o)

Spec == Init /\ [][Next]_vars

\* The database and the file system answer, with a result or an error.
FairSpec == Spec /\ \A o \in Ops : WF_vars(Work(o))
-----------------------------------------------------------------------------
(* Properties.                                                             *)

QueuedOn(d) == {e \in Entries : promise[e] # "no" /\ on[e] = d}

\* An operation is under way in a dataset's queue only when all those queued
\* before it are over, whatever settled, failed or cleaned the map meanwhile:
\* no two overlap and none overtakes another (executeWithQueue).
InTurn == \A e, f \in Entries :
  /\ promise[e] \in {"running", "settled"}
  /\ promise[f] # "no" /\ on[f] = on[e] /\ number[f] < number[e]
  => promise[f] = "settled"

\* The map has an entry for a dataset as long as an operation of its queue is
\* not over, and not longer ("no leak", "no race" in executeWithQueue).
QueuesForgotten == \A d \in Datasets :
  queryQueues[d] = None <=> \A e \in QueuedOn(d) : promise[e] = "settled"

\* Those whose second dataset is used outside its queue, which lets a deletion of
\* it pass; and those that go by what they read of a dataset before its queue.
Outsiders == {"dictionary", "export"}
Early == Outsiders \cup {"attached"}
Names(o, d) == op[o] # None /\ d \in {op[o].main, op[o].other}

\* No operation finds a dataset detached that it attached, but the second one of a
\* dictionary filter or an export: a deletion waits for those that use the
\* dataset, and they for it (deleteDataset).
AttachedInUse == \A o \in Ops : pc[o] = "use" =>
  \A d \in uses[o] \ attached : op[o].kind \in Outsiders /\ d # op[o].main

\* A deleted dataset does not come back: no operation that was waiting for the
\* deletion attaches it again and so makes a new file, but those that looked for
\* it too early (deleteDataset).
DeletedIsGone == \A d \in Datasets \ meta :
  d \in attached \/ file[d] # "none" => \E o \in Ops : Names(o, d) /\ op[o].kind \in Early

\* Every operation ends, whichever datasets the others queue for and in which
\* order they name them, unless there are exports, which wait in a second queue
\* from within a first one (executeInQueues).
Exporting == \E o \in Ops : op[o] # None /\ op[o].kind = "export"
OperationsEnd == \A o \in Ops : pc[o] # "idle" ~> pc[o] = "over" \/ Exporting
=============================================================================
