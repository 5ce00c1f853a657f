------------------------------ MODULE Pipeline ------------------------------
(***************************************************************************)
(* One stage of a pipeline on its task queue: the worker polls a table for *)
(* rows of the stage's input status and adds a task per row; the task      *)
(* claims the row with a conditional update, handles it and writes the     *)
(* result.  src/src/core/task-manager/pipeline/pipeline.ts.                *)
(*                                                                         *)
(* The queue of a stage is its own; a queue that a plugin creates takes    *)
(* the plugin's calls.  `client` says whose queue this is, so that one     *)
(* specification covers both uses.  The id of a stage's task is its row.   *)
(***************************************************************************)
EXTENDS TaskQueue

CONSTANTS
  Batch,    \* rows asked for at a time (batchSize)
  Rival,    \* another worker on the same table: a second pipeline or process
  Shared,   \* the rows it may take
  MayFail,  \* whether a claim, the write of a result or that of an error may fail
  Clients   \* whose queue is looked at: a subset of {"plugin", "stage"}

Rows == Ids

ASSUME StageAssumption ==
  /\ IsFiniteSet(Rows)
  /\ Batch \in Nat \ {0}
  /\ Shared \subseteq Rows
  /\ Rival \notin Tasks \cup {None}
  /\ MayFail \in BOOLEAN
  /\ Clients \subseteq {"plugin", "stage"}

VARIABLES
  client,
  row,      \* row -> its status: from, processing, to or error
  by,       \* row -> who claimed it last
  result,   \* task -> what its handler returned
  poll,     \* where the polling loop stands
  items,    \* the rows the last query returned
  batch,    \* the tasks of the batch whose promises are not settled
  rival,    \* the rows the other worker is at
  late,     \* row -> updates to the error status under way, awaited by nobody
  unmarked, \* history: the rows for which such an update has failed
  running,  \* StageWorker.running
  crashed   \* whether the process has died once

stageVars ==
  <<row, by, rival, result, poll, items, batch, late, unmarked, running>>
allVars == <<vars, client, stageVars, crashed>>

StageInit ==
  /\ Init
  /\ client \in Clients
  /\ row = [i \in Rows |-> "from"]
  /\ by = [i \in Rows |-> None]
  /\ rival = {}
  /\ result = [t \in Tasks |-> "none"]
  /\ poll = "ask"
  /\ items = {}
  /\ batch = {}
  /\ late = [i \in Rows |-> 0]
  /\ unmarked = {}
  /\ running = TRUE
  /\ crashed = FALSE

-----------------------------------------------------------------------------
(* The polling loop.                                                       *)

\* Answers of the database, handlers and timers take their turn when no promise
\* callback is left to run.
StageTurn ==
  /\ Turn
  /\ ~(poll = "batch" /\ batch = {})
  /\ \A t \in batch : Open(t)

\* A row is taken up while there are tasks left to be added for it; they come
\* without a signal.
Spare == {t \in Tasks \ Signalled : Exec(t) = "none"}
Waiting == {i \in Rows : row[i] = "from" /\ \E t \in Spare : Id[t] = i}

\* queryItems.  Which rows come first (orderBy) is left out, and so is a query
\* that finds nothing: the loop only sleeps before the next one.
Query ==
  /\ StageTurn
  /\ poll = "ask" /\ running
  /\ Waiting # {}
  /\ \E found \in SUBSET Waiting :
       /\ Cardinality(found) = Min({Batch, Cardinality(Waiting)})
       /\ items' = found
  /\ poll' = "asked"
  /\ UNCHANGED <<vars, row, by, rival, result, batch, late, unmarked, running>>

\* The tasks a batch is given: a fresh one for each row.
Chosen == {t \in Spare : Id[t] \in items}
TaskFor(i) == CHOOSE t \in Chosen : Id[t] = i
Added == {TaskFor(i) : i \in {Id[t] : t \in Chosen}}

\* processBatch: a stopping queue refuses each task, and the catch of each marks
\* its row; after stop() the worker has no queue any more.
Submit ==
  /\ StageTurn
  /\ poll = "asked"
  /\ IF stop = "no"
     THEN /\ batch' = Added
          /\ task' = [t \in Tasks |->
                        IF t \in Added
                        THEN [task[t] EXCEPT !.exec = "queued", !.promise = "open"]
                        ELSE task[t]]
          /\ \E new \in SetToSeqs(Added) : line' = line \o new
          /\ record' = [i \in Ids |-> IF \E t \in Added : Id[t] = i
                                      THEN TaskFor(i) ELSE record[i]]
          /\ UNCHANGED late
     ELSE /\ late' = [i \in Rows |-> IF i \in items /\ stop # "done"
                                     THEN late[i] + 1 ELSE late[i]]
          /\ UNCHANGED <<batch, task, line, record>>
  /\ poll' = "batch"
  /\ items' = {}
  /\ UNCHANGED <<body, due, paused, stopVars, row, by, rival, result, unmarked,
                 running>>

\* mutant: the rejection is only logged.
SettledQuietly(t) ==
  /\ t \in batch /\ ~Open(t)
  /\ batch' = batch \ {t}
  /\ UNCHANGED <<vars, row, by, rival, result, poll, items, late, unmarked, running>>

\* A task of the batch is settled; a rejected one is marked as an error.
Settled(t) ==
  /\ t \in batch /\ ~Open(t)
  /\ batch' = batch \ {t}
  /\ late' = IF task[t].promise = "rejected" THEN [late EXCEPT ![Id[t]] = @ + 1]
             ELSE late
  /\ UNCHANGED <<vars, row, by, rival, result, poll, items, unmarked, running>>

\* The update to the error status.  Nobody awaits it: when it fails, that is
\* logged, and the row stays as it is.
LateUpdate(i) ==
  /\ StageTurn
  /\ late[i] > 0
  /\ late' = [late EXCEPT ![i] = @ - 1]
  /\ \/ /\ row' = [row EXCEPT ![i] = "error"]
        /\ UNCHANGED unmarked
     \/ /\ MayFail
        /\ unmarked' = unmarked \cup {i}
        /\ UNCHANGED row
  /\ UNCHANGED <<vars, by, rival, result, poll, items, batch, running>>

\* mutant: a rejected task ends the loop.
AgainIfDone ==
  /\ poll = "batch" /\ batch = {}
  /\ \A t \in Tasks : task[t].promise # "rejected"
  /\ poll' = "ask"
  /\ UNCHANGED <<vars, row, by, rival, result, items, batch, late, unmarked, running>>

\* The loop goes round when the batch is settled.
Again ==
  /\ poll = "batch" /\ batch = {}
  /\ poll' = "ask"
  /\ UNCHANGED <<vars, row, by, rival, result, items, batch, late, unmarked, running>>

LoopEnds ==
  /\ poll = "ask" /\ ~running
  /\ poll' = "off"
  /\ UNCHANGED <<vars, row, by, rival, result, items, batch, late, unmarked, running>>

-----------------------------------------------------------------------------
(* The task function of a stage.                                           *)

\* mutant: the update is unconditional, as without claimById.
Unclaimed(i) == TRUE
Claimable(i) == row[i] = "from"

Claim(t) ==
  /\ StageTurn
  /\ body[t] = "run"
  /\ LET i == Id[t]
     IN \/ /\ Claimable(i)
           /\ row' = [row EXCEPT ![i] = "processing"]
           /\ by' = [by EXCEPT ![i] = t]
           /\ body' = [body EXCEPT ![t] = "handle"]
           /\ UNCHANGED task
        \/ /\ ~Claimable(i)
           /\ Return(t, "ok")
           /\ UNCHANGED <<row, by>>
        \/ /\ MayFail
           /\ Return(t, "error")
           /\ UNCHANGED <<row, by>>
  /\ UNCHANGED <<line, record, due, paused, stopVars, rival, result, poll, items,
                 batch, late, unmarked, running>>

Handle(t) ==
  /\ StageTurn
  /\ body[t] = "handle"
  /\ \/ \E res \in {"success", "failure", "skip"} :
          /\ result' = [result EXCEPT ![t] = res]
          /\ body' = [body EXCEPT ![t] = "apply"]
          /\ UNCHANGED task
     \/ /\ Return(t, "error")
        /\ UNCHANGED result
  /\ UNCHANGED <<line, record, due, paused, stopVars, row, by, rival, poll, items,
                 batch, late, unmarked, running>>

\* applyResult: a skip does not touch the status.
Written(t) == CASE result[t] = "success" -> "to"
                [] result[t] = "failure" -> "error"
                [] OTHER -> row[Id[t]]

Apply(t) ==
  /\ StageTurn
  /\ body[t] = "apply"
  /\ \/ /\ row' = [row EXCEPT ![Id[t]] = Written(t)]
        /\ Return(t, "ok")
     \/ /\ MayFail
        /\ Return(t, "error")
        /\ UNCHANGED row
  /\ result' = [result EXCEPT ![t] = "none"]
  /\ UNCHANGED <<line, record, due, paused, stopVars, by, rival, poll, items,
                 batch, late, unmarked, running>>

-----------------------------------------------------------------------------
(* The end of the worker; the other worker; a crash.                       *)

StopWorker ==
  /\ running
  /\ running' = FALSE
  /\ Stop
  /\ UNCHANGED <<row, by, rival, result, poll, items, batch, late, unmarked>>

RivalClaims(i) ==
  /\ StageTurn
  /\ i \in Shared
  /\ row[i] = "from"
  /\ row' = [row EXCEPT ![i] = "processing"]
  /\ by' = [by EXCEPT ![i] = Rival]
  /\ rival' = rival \cup {i}
  /\ UNCHANGED <<vars, result, poll, items, batch, late, unmarked, running>>

RivalApplies(i) ==
  /\ StageTurn
  /\ i \in rival
  /\ \E s \in {"to", "error"} : row' = [row EXCEPT ![i] = s]
  /\ rival' = rival \ {i}
  /\ UNCHANGED <<vars, by, result, poll, items, batch, late, unmarked, running>>

\* The process dies and a new one starts the pipeline again on the same table.
Crash ==
  /\ StageTurn
  /\ ~crashed
  /\ crashed' = TRUE
  /\ task' = [t \in Tasks |-> NewTask]
  /\ body' = [t \in Tasks |-> "none"]
  /\ line' = <<>>
  /\ record' = [i \in Ids |-> None]
  /\ due' = {} /\ todo' = {} /\ awaited' = {}
  /\ paused' = FALSE /\ stop' = "no"
  /\ result' = [t \in Tasks |-> "none"]
  /\ poll' = "ask" /\ items' = {} /\ batch' = {}
  /\ late' = [i \in Rows |-> 0]
  /\ unmarked' = {}
  /\ running' = TRUE
  /\ UNCHANGED <<row, by, rival>>

-----------------------------------------------------------------------------

\* What the worker does by itself.
Polling == Query \/ Submit \/ Again \/ LoopEnds
Writes == (\E t \in Tasks : Claim(t) \/ Apply(t)) \/ \E i \in Rows : LateUpdate(i)

StageStep ==
  \/ Polling
  \/ Writes
  \/ \E t \in Tasks : Settled(t) \/ Handle(t)
  \/ StopWorker
  \/ \E i \in Rows : RivalClaims(i) \/ RivalApplies(i)

\* The records a stage's queue keeps of finished tasks are never cleaned up here:
\* their ids are not used again before a restart.
PluginStep ==
  \/ \E t \in Tasks : Add(t) \/ RunBody(t)
  \/ Housekeeping
  \/ UserCalls
  \/ Stop

QueueStep ==
  \/ \E t \in Tasks : Progress(t) \/ (StageTurn /\ Timeout(t))
  \/ Stopping

StageNext ==
  \/ QueueStep /\ UNCHANGED <<client, stageVars, crashed>>
  \/ client = "plugin" /\ PluginStep /\ UNCHANGED <<client, stageVars, crashed>>
  \/ client = "stage" /\ StageStep /\ UNCHANGED <<client, crashed>>
  \/ client = "stage" /\ Crash /\ UNCHANGED client

StageSpec == StageInit /\ [][StageNext]_allVars

\* Timers fire, callbacks run and the database answers; nothing says that a
\* handler ever returns.
StageWork ==
  \/ Polling
  \/ Writes
  \/ \E t \in Tasks : Settled(t)
StageFairness ==
  WF_allVars(\/ QueueStep /\ UNCHANGED <<client, stageVars, crashed>>
             \/ client = "stage" /\ StageWork /\ UNCHANGED <<client, crashed>>)

StageFairSpec == StageSpec /\ StageFairness

-----------------------------------------------------------------------------
(* Properties.                                                             *)

\* Types of the stage's variables (StageWorker).
StageTypeOK ==
  /\ TypeOK
  /\ client \in Clients
  /\ row \in [Rows -> {"from", "processing", "to", "error"}]
  /\ rival \subseteq Shared
  /\ by \in [Rows -> Tasks \cup {None, Rival}]
  /\ result \in [Tasks -> {"none", "success", "failure", "skip"}]
  /\ poll \in {"ask", "asked", "batch", "off"}
  /\ items \subseteq Rows /\ batch \subseteq Tasks
  /\ late \in [Rows -> Nat] /\ unmarked \subseteq Rows
  /\ running \in BOOLEAN /\ crashed \in BOOLEAN

\* A handler works on a row only if its task was the last to claim it, and
\* nobody else is at it, however stale the query was that led to it (claimItem).
HandlerOwnsRow == \A t \in Tasks :
  body[t] \in {"handle", "apply"} => by[Id[t]] = t /\ Id[t] \notin rival

\* A claimed row is not left behind by a task that failed, timed out or was
\* stopped: it gets its error status although the handler never returns - unless
\* that last update fails itself, which nothing makes good.
RowsAreMarked == \A t \in Tasks \ Signalled :
  (row[Id[t]] = "processing" /\ by[Id[t]] = t)
    ~> \/ row[Id[t]] # "processing" \/ task[t].promise = "resolved"
       \/ Id[t] \in unmarked \/ crashed

\* The claim of the row and then the update to the error status have failed: the
\* next query finds it again, but the instance has no further task for it.
OutOfTasks(i) == i \in unmarked /\ \A t \in Spare : Id[t] # i

\* Rows that wait are taken up as long as the worker runs, after a crash too.
RowsAreServed == \A i \in Rows :
  (client = "stage" /\ row[i] = "from")
    ~> (row[i] # "from" \/ ~running \/ OutOfTasks(i))

\* No row is left lying, neither before its task nor behind it (poll, claimItem,
\* the update to the error status).
RowsMove == RowsAreMarked /\ RowsAreServed
=============================================================================
