------------------------------ MODULE TaskQueue ------------------------------
(***************************************************************************)
(* The task queue of plugins, pipelines, OCR and image workers: tasks with *)
(* a record each, run by p-queue with bounded concurrency, with a time     *)
(* limit, retries, cancellation, clear() and stop().                       *)
(* src/src/core/task-manager/queue.ts.                                     *)
(*                                                                         *)
(* The queue does not stop a task function that ignores its AbortSignal:   *)
(* the attempt is settled without it and the function runs on.  So the     *)
(* attempt (task[t].exec) and the function (body[t]) are apart.            *)
(*                                                                         *)
(* p-queue is external: add() queues by priority and starts a task when    *)
(* one of its places is free, clear() forgets what is queued, onIdle()     *)
(* waits for everything.  Its rateLimit option is left out.                *)
(***************************************************************************)
EXTENDS Naturals, Sequences, FiniteSets, SequencesExt

CONSTANTS
  Tasks,        \* calls of add(), each made at most once
  Ids,          \* task ids
  Id,           \* the id each task is given; an id serves one task at a time
  Prio,         \* the priority of each task
  Retry,        \* how often each task may be retried
  Signalled,    \* tasks that come with an AbortSignal of their caller
  Concurrency,  \* places in p-queue
  Keep,         \* MAX_COMPLETED_TASKS
  None

ASSUME TaskAssumption ==
  /\ Id \in [Tasks -> Ids]
  /\ Prio \in [Tasks -> Nat]
  /\ Retry \in [Tasks -> Nat]
  /\ Signalled \subseteq Tasks
  /\ Concurrency \in Nat \ {0}
  /\ Keep \in Nat
  /\ None \notin Tasks

VARIABLES
  task,     \* task -> its TaskInfo, controller, promise and place in p-queue
  body,     \* task -> where its task function stands
  line,     \* the tasks queued in p-queue
  record,   \* id -> the task of its record (taskRecords)
  due,      \* tasks whose delayed clean-up (5 s) is still to come
  paused,   \* queue.isPaused
  stop,     \* how far stop() is
  todo,     \* ids stop() has still to cancel
  awaited   \* tasks whose promises stop() waits for

vars == <<task, body, line, record, due, paused, stop, todo, awaited>>
stopVars == <<stop, todo, awaited>>

\* exec: none, queued, the race of one attempt, ended (the function won it) or
\* lost (abort or timeout won it) until the attempt goes on, the delay before a
\* retry, leaving (p-queue and the promise have still to hear of it), over.
\* known: the attempt found its record; told: terminal events emitted.
NewTask == [exec |-> "none", out |-> "none", status |-> "pending", tries |-> 0,
            known |-> FALSE, settled |-> FALSE, aborted |-> FALSE, told |-> 0,
            promise |-> "none"]

Execs == {"none", "queued", "race", "ended", "lost", "delay", "leaving", "over"}
Bodies == {"none", "run", "handle", "apply"}  \* the last two: of a stage
InPlace == {"race", "ended", "lost", "delay", "leaving"}
Final == {"completed", "failed", "cancelled"}

Init ==
  /\ task = [t \in Tasks |-> NewTask]
  /\ body = [t \in Tasks |-> "none"]
  /\ line = <<>>
  /\ record = [i \in Ids |-> None]
  /\ due = {}
  /\ paused = FALSE
  /\ stop = "no"
  /\ todo = {}
  /\ awaited = {}

-----------------------------------------------------------------------------
(* What happens to one task: k is its record.                              *)

Exec(t) == task[t].exec
Open(t) == task[t].promise = "open"
Running == {t \in Tasks : Exec(t) \in InPlace}
Recorded == {t \in Tasks : record[Id[t]] = t}
Forget(S) == record' = [i \in Ids |-> IF record[i] \in S THEN None ELSE record[i]]

\* A timer's turn comes when the promise callbacks under way have all run.
Startable == ~paused /\ line # <<>> /\ Cardinality(Running) < Concurrency
Turn == /\ \A t \in Tasks : Exec(t) \notin {"ended", "lost", "leaving"}
        /\ ~Startable
        /\ stop # "cancelling"

\* Its terminal event, with the status it reports.
Tell(k, s) == [k EXCEPT !.status = s, !.told = @ + 1]

\* mutant: settled is not looked at.
SettleAgain(k) ==
  [Tell(k, "cancelled") EXCEPT !.settled = k.known, !.aborted = TRUE]

\* settleCancelled: once per record, and aborts the controller.
SettleCancelled(k) ==
  IF k.known /\ k.settled
  THEN k
  ELSE [Tell(k, "cancelled") EXCEPT !.settled = k.known, !.aborted = TRUE]

\* controller.abort(): a race under way is lost at once, a task whose last
\* attempt has ended takes no notice.
Abort(k) ==
  CASE k.exec = "race" ->
         [SettleCancelled([k EXCEPT !.aborted = TRUE]) EXCEPT !.exec = "lost"]
    [] k.exec \in {"leaving", "over"} -> k
    [] OTHER -> [k EXCEPT !.aborted = TRUE]

\* A task that has not started is rejected on the spot.
Reject(k) == [Tell(k, "cancelled") EXCEPT !.promise = "rejected"]
CancelPending(k) == [Reject(k) EXCEPT !.aborted = TRUE]

\* mutant: the attempt does not look at the signal first.
BeginBlindly(t) == [task[t] EXCEPT !.exec = "race", !.status = "running",
                                   !.known = (record[Id[t]] = t)]

\* The beginning of an attempt of t, the first one or a retry.
StillListed(t) == record[Id[t]] = t /\ task[t].status = "pending"
Begin(t) ==
  LET k == task[t]
  IN IF k.aborted
     THEN [(IF StillListed(t) THEN CancelPending(k) ELSE k)
             EXCEPT !.exec = "leaving", !.out = "error"]
     ELSE [k EXCEPT !.exec = "race", !.status = "running",
                    !.known = (record[Id[t]] = t)]
Attempt(t) ==
  /\ task' = [task EXCEPT ![t] = Begin(t)]
  /\ body' = [body EXCEPT ![t] = IF task[t].aborted THEN @ ELSE "run"]
  /\ IF task[t].aborted /\ StillListed(t) THEN Forget({t}) ELSE UNCHANGED record

\* The end of an attempt: a cancelled one is settled, a failed one retried.
Retried(k, t) == ~k.aborted /\ k.out = "error" /\ k.tries < Retry[t]
After(k, t) ==
  IF k.aborted
  THEN [SettleCancelled(k) EXCEPT !.exec = "leaving", !.out = "error"]
  ELSE IF Retried(k, t)
  THEN [k EXCEPT !.exec = "delay", !.tries = @ + 1]
  ELSE [Tell(k, IF k.out = "ok" THEN "completed" ELSE "failed")
          EXCEPT !.settled = TRUE, !.exec = "leaving"]

-----------------------------------------------------------------------------
(* add() and the life of an attempt.                                       *)

Place(t) == LET n == Cardinality({i \in DOMAIN line : Prio[line[i]] >= Prio[t]})
            IN InsertAt(line, n + 1, t)

Add(t) ==
  /\ stop = "no"
  /\ Exec(t) = "none"
  /\ \A u \in Tasks : Id[u] = Id[t] => ~Open(u)
  /\ task' = [task EXCEPT ![t].exec = "queued", ![t].promise = "open"]
  /\ line' = Place(t)
  /\ record' = [record EXCEPT ![Id[t]] = t]
  /\ UNCHANGED <<body, due, paused, stopVars>>

\* p-queue starts the wrapped task.
Start(t) ==
  /\ Startable /\ t = Head(line)
  /\ line' = Tail(line)
  /\ Attempt(t)
  /\ UNCHANGED <<due, paused, stopVars>>

\* The task function of t returns or throws; nobody listens to a late one.
Return(t, o) ==
  /\ body' = [body EXCEPT ![t] = "none"]
  /\ task' = IF Exec(t) = "race"
             THEN [task EXCEPT ![t].exec = "ended", ![t].out = o]
             ELSE task

RunBody(t) ==
  /\ body[t] = "run"
  /\ \E o \in {"ok", "error"} : Return(t, o)
  /\ UNCHANGED <<line, record, due, paused, stopVars>>

Timeout(t) ==
  /\ Turn
  /\ Exec(t) = "race"
  /\ task' = [task EXCEPT ![t] = [SettleCancelled(@) EXCEPT !.exec = "lost"]]
  /\ UNCHANGED <<body, line, record, due, paused, stopVars>>

\* A leaving attempt has its record cleaned up later (finally).
EndAttempt(t) ==
  /\ Exec(t) \in {"ended", "lost"}
  /\ task' = [task EXCEPT ![t] = After(@, t)]
  /\ due' = IF Retried(task[t], t) THEN due ELSE due \cup {t}
  /\ UNCHANGED <<body, line, record, paused, stopVars>>

\* The retry begins, and with it ends the attempt before: its finally runs.
EndDelay(t) ==
  /\ Turn
  /\ Exec(t) = "delay"
  /\ Attempt(t)
  /\ due' = due \cup {t}
  /\ UNCHANGED <<line, paused, stopVars>>

\* p-queue gives the place free and the promise of add() is settled.
Leave(t) ==
  /\ Exec(t) = "leaving"
  /\ task' = [task EXCEPT
                ![t].exec = "over", ![t].out = "none",
                ![t].known = FALSE, ![t].settled = FALSE,
                ![t].promise = IF @ # "open" THEN @
                               ELSE IF task[t].out = "ok" THEN "resolved"
                               ELSE "rejected"]
  /\ UNCHANGED <<body, line, record, due, paused, stopVars>>

\* mutant: whatever record has the id is removed.
AnyRecord(t) == record[Id[t]] # None
OwnRecord(t) == record[Id[t]] = t

\* The delayed clean-up.
CleanUp(t) ==
  /\ Turn
  /\ t \in due
  /\ due' = due \ {t}
  /\ record' = IF OwnRecord(t) THEN [record EXCEPT ![Id[t]] = None] ELSE record
  /\ UNCHANGED <<task, body, line, paused, stopVars>>

\* cleanupCompletedTasks; which of the finished ones are the oldest is left out.
Trim ==
  LET done == {t \in Recorded : task[t].status \in Final}
  IN /\ Turn
     /\ Cardinality(done) > Keep
     /\ \E old \in SUBSET done :
          /\ Cardinality(old) = Cardinality(done) - Keep
          /\ Forget(old)
     /\ UNCHANGED <<task, body, line, due, paused, stopVars>>

-----------------------------------------------------------------------------
(* The calls of the queue's user.                                          *)

Pending(t) == task[t].status = "pending"
PendingRecords == {t \in Recorded : Pending(t)}

CancelRecord(t) ==
  /\ task' = [task EXCEPT ![t] = IF Pending(t) THEN CancelPending(@) ELSE Abort(@)]
  /\ IF Pending(t) THEN Forget({t}) ELSE UNCHANGED record

\* cancelTask; cancelTasks and cancelAll are several of them.
CancelTask(i) ==
  /\ record[i] # None
  /\ CancelRecord(record[i])
  /\ UNCHANGED <<body, line, due, paused, stopVars>>

\* The caller's AbortSignal, listened to from add() to the end of the wrapper.
Signal(t) ==
  /\ t \in Signalled
  /\ Exec(t) \in {"queued"} \cup InPlace
  /\ ~task[t].aborted
  /\ task' = [task EXCEPT ![t] = Abort(@)]
  /\ UNCHANGED <<body, line, record, due, paused, stopVars>>

Pause ==
  /\ ~paused
  /\ paused' = TRUE
  /\ UNCHANGED <<task, body, line, record, due, stopVars>>

Resume ==
  /\ paused
  /\ paused' = FALSE
  /\ UNCHANGED <<task, body, line, record, due, stopVars>>

\* mutant: p-queue's clear() alone, which answers nobody.
DropSilently(k, rejected) ==
  IF k.exec = "queued" THEN [k EXCEPT !.exec = "over"] ELSE k

\* p-queue forgets the task k; one in rejected gets its answer.
Drop(k, rejected) ==
  LET d == IF rejected THEN Reject(k) ELSE k
  IN IF d.exec = "queued" THEN [d EXCEPT !.exec = "over"] ELSE d

Clear ==
  /\ line' = <<>>
  /\ task' = [t \in Tasks |->
                IF t \in Recorded /\ task[t].status = "running"
                THEN Abort(task[t])
                ELSE Drop(task[t], t \in PendingRecords)]
  /\ Forget(PendingRecords)
  /\ UNCHANGED <<body, due, paused, stopVars>>

\* stop(), up to the first await of cancelAll().  Its queue.start() fills the
\* free places of a paused queue before its queue.clear() empties the line.
Started == IF ~paused THEN {}
           ELSE {line[i] : i \in {j \in DOMAIN line :
                                    j + Cardinality(Running) <= Concurrency}}

Stop ==
  /\ stop = "no"
  /\ stop' = "cancelling"
  /\ paused' = FALSE
  /\ line' = <<>>
  /\ LET left == PendingRecords \ Started
     IN /\ task' = [t \in Tasks |-> IF t \in Started THEN Begin(t)
                                     ELSE Drop(task[t], t \in left)]
        /\ body' = [t \in Tasks |-> IF t \in Started /\ ~task[t].aborted
                                     THEN "run" ELSE body[t]]
        /\ LET gone == left \cup {t \in Started : task[t].aborted}
           IN /\ Forget(gone)
              /\ todo' = {Id[t] : t \in Recorded \ gone}
  /\ UNCHANGED <<due, awaited>>

\* cancelAll(), with an await after each task, ...
StopCancel ==
  /\ stop = "cancelling"
  /\ \E i \in todo :
       /\ todo' = todo \ {i}
       /\ IF record[i] = None THEN UNCHANGED <<task, record>>
                              ELSE CancelRecord(record[i])
  /\ UNCHANGED <<body, line, due, paused, stop, awaited>>

\* ... the promises of the running ones, and p-queue's onIdle.
StopAwait ==
  /\ stop = "cancelling" /\ todo = {}
  /\ stop' = "waiting"
  /\ awaited' = {t \in Recorded : task[t].status \in {"running", "cancelled"}}
  /\ UNCHANGED <<task, body, line, record, due, paused, todo>>

AllAwaited == \A t \in awaited : ~Open(t)            \* mutant: no onIdle()
FunctionsEnded == \A t \in Tasks : body[t] = "none"  \* mutant
AllEnded == (\A t \in awaited : ~Open(t)) /\ Running = {} /\ line = <<>>

StopReturn ==
  /\ stop = "waiting"
  /\ AllEnded
  /\ stop' = "done"
  /\ record' = [i \in Ids |-> None]
  /\ UNCHANGED <<task, body, line, due, paused, todo, awaited>>

-----------------------------------------------------------------------------

UserCalls ==
  \/ \E t \in Tasks : Signal(t)
  \/ \E i \in Ids : CancelTask(i)
  \/ Pause \/ Resume \/ Clear

\* What the queue does by itself.
Progress(t) == Start(t) \/ EndAttempt(t) \/ EndDelay(t) \/ Leave(t)
Housekeeping == (\E t \in Tasks : CleanUp(t)) \/ Trim
Stopping == StopCancel \/ StopAwait \/ StopReturn

Next ==
  \/ \E t \in Tasks : Add(t) \/ RunBody(t) \/ Progress(t) \/ Timeout(t)
  \/ Housekeeping
  \/ UserCalls
  \/ Stop
  \/ Stopping

Spec == Init /\ [][Next]_vars

\* Timers fire and promises are answered.  Nothing says that a task function
\* ever ends or that a paused queue is resumed.
Fairness == WF_vars((\E t \in Tasks : Progress(t) \/ Timeout(t)) \/ Stopping)

FairSpec == Spec /\ Fairness
-----------------------------------------------------------------------------
(* Properties.                                                             *)

\* Types; a task tells of its end twice at most, the second time when it is
\* cancelled after its record went (queue.ts, settleCancelled).
TypeOK ==
  /\ task \in [Tasks -> [exec : Execs, out : {"none", "ok", "error"},
                         status : Final \cup {"pending", "running"},
                         tries : Nat, known : BOOLEAN, settled : BOOLEAN,
                         aborted : BOOLEAN, told : 0..2,
                         promise : {"none", "open", "resolved", "rejected"}]]
  /\ body \in [Tasks -> Bodies]
  /\ line \in Seq(Tasks)
  /\ record \in [Ids -> Tasks \cup {None}]
  /\ due \subseteq Tasks /\ awaited \subseteq Tasks /\ todo \subseteq Ids
  /\ paused \in BOOLEAN
  /\ stop \in {"no", "cancelling", "waiting", "done"}

\* A task that is over has told its listeners so exactly once, with the status
\* its promise agrees with, unless it was cancelled after a failed attempt
\* (executeTask, cancelPendingTask, clear, stop).
LateCancel(t) == task[t].aborted /\ task[t].tries > 0
ToldOnce == \A t \in Tasks : Exec(t) = "over" /\ ~LateCancel(t) =>
              /\ task[t].told = 1
              /\ IF task[t].status = "completed"
                 THEN task[t].promise = "resolved"
                 ELSE /\ task[t].status \in {"failed", "cancelled"}
                      /\ task[t].promise = "rejected"

\* An open task can be found and cancelled by its id: neither the delayed
\* clean-up of an earlier task of that id nor the trimming of the history takes
\* its record.  From the first retry on it may outlive its record, which is
\* cleaned up 5 s after the attempt before (the finally of attempt).
OpenIsRecorded == \A t \in Tasks :
  /\ Open(t) /\ stop # "done"
  /\ task[t].tries = 0 \/ (Exec(t) = "delay" /\ task[t].tries = 1)
  => record[Id[t]] = t

\* When stop() returns, every task is answered and no attempt is under way.
StopIsFinal == stop = "done" => \A t \in Tasks : ~Open(t) /\ t \notin Running

\* The queue's books are right: whatever ends a task - its function, its time
\* limit, its signal, cancel(), clear() or stop(), at any point of its life - it is
\* told of once, and until then it can be found (settle, cleanup, stop).
TasksAccounted == ToldOnce /\ OpenIsRecorded /\ StopIsFinal

\* Every task is answered while the queue is not paused, even if its function
\* ignores the signal and never ends; and stop() returns, also on a paused queue.
\* (A new queue, after a crash, is not being stopped.)
Answered ==
  /\ \A t \in Tasks : Open(t) ~> ~Open(t) \/ paused
  /\ stop # "no" ~> stop \in {"done", "no"}
=============================================================================
