----------------------------- MODULE Scheduler -----------------------------
(***************************************************************************)
(* The scheduler of stored tasks: timers, executions with a time limit and *)
(* retries under a resource lease; pause, resume, cancel and trigger while *)
(* an execution is under way; and the restoration after a restart.         *)
(* main/scheduler/scheduler-service.ts, with scheduled-task-service.ts.    *)
(*                                                                         *)
(* A thread is one asynchronous call: a fired timer, a call of a user, or  *)
(* restoreActiveTasks.  An action is one query of the database, or another *)
(* event a call waits for, with what follows up to the next.               *)
(*                                                                         *)
(* Time is abstract: past holds the tasks whose nextRunAt has gone by.     *)
(* Cron tasks are interval tasks here.  The rows of the executions and the *)
(* statistics are written and never read: the queries that close an        *)
(* execution are one step.  A nextRunAt of exactly the present millisecond *)
(* and timers of more than a day are left out.                             *)
(***************************************************************************)
EXTENDS Naturals, FiniteSets

CONSTANTS
  Tasks,
  Once,      \* the one-shot tasks; the others have an interval
  Missed,    \* tasks of the missedPolicy run_once; the others skip
  Keyed,     \* tasks that need the resource key
  Limited,   \* tasks with a time limit
  Retry,     \* task -> retryCount
  Timers,    \* threads of fired timers
  Users,     \* threads of calls from outside, one call each
  Op,        \* user -> the call it makes
  Scenes,    \* sets of tasks and users: a behaviour has those of one of them
  Boot,      \* the thread of restoreActiveTasks
  MaxFires,  \* bound on the fired timers
  None

Threads == Timers \cup Users \cup {Boot}
Key == "resource key"

ASSUME SchedulerAssumption ==
  /\ Once \subseteq Tasks /\ Missed \subseteq Tasks
  /\ Keyed \subseteq Tasks /\ Limited \subseteq Tasks
  /\ Retry \in [Tasks -> Nat]
  /\ Scenes \subseteq SUBSET (Tasks \cup Users)
  /\ Op \in [Users -> {"create", "pause", "resume", "cancel", "trigger", "dispose"}]
  /\ Boot \notin Timers \cup Users /\ Timers \cap Users = {} /\ Tasks \cap Users = {}
  /\ MaxFires \in Nat
  /\ None \notin Tasks \cup Threads

VARIABLES
  scene,      \* the tasks and the users of this behaviour
  status,     \* task -> its status in the database
  past,       \* tasks whose nextRunAt has gone by
  timers,     \* tasks with a timer (timers)
  running,    \* task -> the thread of its execution (runningTasks)
  suppress,   \* tasksSuppressSchedule
  thread,     \* thread -> where it stands
  aborted,    \* threads whose execution's controller is aborted
  todo, late, \* the tasks restoreActiveTasks has still to schedule, as it has
              \* read them, and those of them whose time has gone by
  disposing,  \* "no", "on", or "done"
  holder, wanted,  \* the lease
  fires, crashed,
  fired,      \* task -> how often the scheduler by itself began to run it
  excused,    \* tasks resumed, or with a timer or a call already when restored
  unscheduled \* tasks whose scheduling failed: they were being executed

database == <<status, past>>
memory == <<timers, running, suppress, aborted, todo, late, disposing>>
lease == <<holder, wanted>>
history == <<fires, crashed, fired, excused, unscheduled>>
vars == <<scene, database, memory, thread, lease, history>>

Lease == INSTANCE ResourceLease
           WITH Keys <- {Key}, Parties <- Threads, Tokens <- Threads,
                Token <- [h \in Threads |-> h], MayClear <- FALSE, Heirs <- {}

\* how: the call; tries: attempts that failed; on: the executions it
\* waits for.
Idle == [at |-> "idle", how |-> "none", task |-> None, tries |-> 0,
         on |-> {}]

Init ==
  /\ scene \in Scenes
  /\ status \in [Tasks -> {"new", "active"}]
  /\ past \in SUBSET (scene \cap Tasks)
  /\ \A t \in Tasks : (t \in past => status[t] = "active")
                      /\ (t \notin scene => status[t] = "new")
  /\ timers = {} /\ suppress = {} /\ aborted = {}
  /\ running = [t \in Tasks |-> None]
  /\ thread = [h \in Threads |-> Idle]
  /\ todo = {} /\ late = {}
  /\ disposing = "no"
  /\ Lease!LeaseInit
  /\ fires = 0 /\ crashed = FALSE
  /\ fired = [t \in Tasks |-> 0]
  /\ excused = {} /\ unscheduled = {}

-----------------------------------------------------------------------------
(* How a thread goes on.                                                   *)

At(h, l) == thread[h].at = l
My(h) == thread[h].task
Exists(t) == status[t] \notin {"new", "gone"}
Set(t, s) == status' = IF Exists(t) THEN [status EXCEPT ![t] = s] ELSE status

\* Where a thread goes when its call is over; restoreActiveTasks goes to the
\* next task.
Rest(h) == IF h = Boot THEN "boot" ELSE IF h \in Users THEN "over" ELSE "idle"
To(h, rec, l) == IF l = Rest(h) THEN [Idle EXCEPT !.at = l]
                 ELSE [rec EXCEPT !.at = l]
Go(h, rec, l) == thread' = [thread EXCEPT ![h] = To(h, rec, l)]
Goto(h, l) == Go(h, thread[h], l)

-----------------------------------------------------------------------------
(* executeTask and scheduleTask, up to their first query.                  *)

Running(t) == running[t] # None

\* After an execution, or its refusal, a fired timer goes on to the next run if
\* nobody has told it not to.
Suppressed(t) == disposing # "no" \/ t \in suppress
AfterOwnRun(h) ==  \* mutant: nothing is scheduled after a refusal
  IF running[My(h)] = h /\ ~Suppressed(My(h)) THEN "again" ELSE Rest(h)
AfterFire(h) == IF Suppressed(My(h)) THEN Rest(h) ELSE "again"

\* executeTask of the task of rec registers the execution, or throws.
Execute(h, rec) ==
  LET t == rec.task
  IN \/ /\ Running(t)
        /\ Go(h, rec, IF rec.how = "fire" THEN AfterFire(h) ELSE Rest(h))
        /\ unscheduled' = IF rec.how \in {"fire", "trigger"} THEN unscheduled
                          ELSE unscheduled \cup {t}
        /\ UNCHANGED running
     \/ /\ ~Running(t)
        /\ running' = [running EXCEPT ![t] = h]
        /\ Go(h, rec, "record")
        /\ UNCHANGED unscheduled

SetTimer(t) == timers' = timers \cup {t}

\* scheduleTask of an active task, whose time has gone by or has not.
Schedule(h, rec, overdue) ==
  LET t == rec.task
  IN \/ /\ ~overdue
        /\ SetTimer(t)
        /\ Go(h, rec, Rest(h))
        /\ UNCHANGED <<running, unscheduled>>
     \/ /\ overdue /\ t \in Missed \ Once
        /\ Execute(h, rec)
        /\ UNCHANGED timers
     \/ /\ overdue /\ t \notin Missed \ Once
        /\ Go(h, rec, IF t \notin Once THEN "next"
                      ELSE IF t \in Missed THEN "mark" ELSE "disable")
        /\ UNCHANGED <<timers, running, unscheduled>>

-----------------------------------------------------------------------------
(* Timers.                                                                 *)

\* The time of a task without a timer goes by, if that matters: nothing reads the
\* nextRunAt of an interval task but the restoration.
Tick(t) ==
  /\ t \in Once \cup todo /\ Exists(t)
  /\ t \notin past \cup timers
  /\ past' = past \cup {t}
  /\ late' = late \cup ({t} \cap todo)
  /\ UNCHANGED <<status, timers, running, suppress, aborted, todo, disposing,
                 thread, lease, history>>

Fire(t) ==
  LET h == CHOOSE g \in Timers : At(g, "idle")
  IN
  /\ \E g \in Timers : At(g, "idle")
  /\ t \in timers /\ fires < MaxFires
  /\ fires' = fires + 1
  /\ timers' = timers \ {t}
  /\ past' = past \cup {t}
  /\ late' = late \cup ({t} \cap todo)
  /\ Go(h, [Idle EXCEPT !.how = "fire", !.task = t], "look")
  /\ UNCHANGED <<status, running, suppress, aborted, todo, disposing, lease,
                 crashed, fired, excused, unscheduled>>

\* onTimerFired has read the task.
Look(h) ==
  /\ At(h, "look")
  /\ LET t == My(h)
     IN \/ /\ status[t] # "active"
           /\ Goto(h, Rest(h))
           /\ UNCHANGED <<running, unscheduled>>
        \/ /\ status[t] = "active" /\ t \in Once
           /\ Goto(h, "mark")
           /\ UNCHANGED <<running, unscheduled>>
        \/ /\ status[t] = "active" /\ t \notin Once
           /\ Execute(h, thread[h])
  /\ UNCHANGED <<database, timers, suppress, aborted, todo, late, disposing,
                 lease, fires, crashed, fired, excused>>

\* markOnceTaskTriggered: the task is disabled before it is executed.
MarkLater(h) == UNCHANGED status  \* mutant: it is disabled only afterwards
Mark(h) == Set(My(h), "disabled")
Marked(h) ==
  /\ At(h, "mark")
  /\ Mark(h)
  /\ Execute(h, thread[h])
  /\ UNCHANGED <<past, timers, suppress, aborted, todo, late, disposing, lease,
                 fires, crashed, fired, excused>>

LookAgain(h) ==
  /\ At(h, "again")
  /\ Goto(h, IF status[My(h)] # "active" THEN Rest(h)
             ELSE IF My(h) \in Once THEN "disable" ELSE "next")
  /\ UNCHANGED <<database, memory, lease, history>>

\* The next run of an interval task is stored, and the timer set.
StoreNext(h) ==
  /\ At(h, "next")
  /\ past' = past \ {My(h)}
  /\ SetTimer(My(h))
  /\ Goto(h, Rest(h))
  /\ UNCHANGED <<status, running, suppress, aborted, todo, late, disposing,
                 lease, history>>

Disable(h) ==
  /\ At(h, "disable")
  /\ Set(My(h), "disabled")
  /\ Goto(h, Rest(h))
  /\ UNCHANGED <<past, memory, lease, history>>

-----------------------------------------------------------------------------
(* An execution: runTaskExecution.                                         *)

Quietly == <<database, timers, running, suppress, todo, late, disposing,
             fires, crashed, excused, unscheduled>>

Executing(h) == thread[h].at \in {"record", "acquire", "lookup", "begin", "work",
                                  "sleep", "close"}

\* The finally of runTaskExecution gives the lease back.
GiveBack(h) == IF holder[Key] = h THEN Lease!Leave(Key) \/ Lease!PassOn(Key)
               ELSE UNCHANGED lease
Fail(h) == Goto(h, "close") /\ GiveBack(h)

Recorded(h) ==
  /\ At(h, "record")
  /\ Goto(h, IF My(h) \in Keyed THEN "acquire" ELSE "lookup")
  /\ UNCHANGED <<Quietly, aborted, fired, lease>>

\* The resource coordinator: the execution enters, or waits and is let in, or its
\* wait is aborted or takes too long.
Enter(h) ==
  /\ At(h, "acquire") /\ h \notin wanted[Key]
  /\ \/ holder[Key] = h /\ UNCHANGED lease
     \/ h \notin aborted /\ Lease!Take(h, Key)
  /\ Goto(h, "lookup")
  /\ UNCHANGED <<Quietly, aborted, fired>>

Wait(h) ==
  /\ At(h, "acquire") /\ h \notin aborted
  /\ Lease!Ask(h, Key)
  /\ UNCHANGED <<Quietly, aborted, fired, thread>>

GiveUp(h) ==
  /\ At(h, "acquire") /\ holder[Key] # h
  /\ \/ Lease!Withdraw(h, Key)
     \/ h \in aborted \ wanted[Key] /\ UNCHANGED lease
  /\ Goto(h, "close")
  /\ UNCHANGED <<Quietly, aborted, fired>>

\* The handler is registered, or not: its plugin may be gone.
Lookup(h) ==
  /\ At(h, "lookup")
  /\ \/ disposing # "done" /\ Goto(h, "begin") /\ UNCHANGED lease
     \/ Fail(h)
  /\ UNCHANGED <<Quietly, aborted, fired>>

\* The first attempt, or the next one after its delay, unless it is aborted.
Unasked(h) == thread[h].how \in {"fire", "restore", "create"}
Attempt(h) ==
  /\ thread[h].at \in {"begin", "sleep"}
  /\ \/ /\ h \in aborted
        /\ Fail(h)
        /\ UNCHANGED fired
     \/ /\ h \notin aborted
        /\ Goto(h, "work")
        /\ fired' = IF At(h, "begin") /\ Unasked(h)
                    THEN [fired EXCEPT ![My(h)] = @ + 1] ELSE fired
        /\ UNCHANGED lease
  /\ UNCHANGED <<Quietly, aborted>>

MayRetry(h) == thread[h].tries < Retry[My(h)]

\* The handler answers; it need not.
Answer(h) ==
  /\ At(h, "work") /\ h \notin aborted
  /\ \/ Goto(h, "close") /\ UNCHANGED lease
     \/ /\ MayRetry(h)
        /\ Go(h, [thread[h] EXCEPT !.tries = @ + 1], "sleep") /\ UNCHANGED lease
     \/ ~MayRetry(h) /\ Fail(h)
  /\ UNCHANGED <<Quietly, aborted, fired>>

\* The time limit aborts the execution's own controller.
TimeLimit(h) ==
  /\ At(h, "work") /\ h \notin aborted /\ My(h) \in Limited
  /\ aborted' = aborted \cup {h}
  /\ UNCHANGED <<Quietly, thread, lease, fired>>

\* invokeHandlerWithHardCancellation: an aborted attempt is over, whatever its
\* handler does.
OnlyLimited(h) == My(h) \in Limited  \* mutant: only the time limit ends it
Ends(h) == TRUE
Interrupt(h) ==
  /\ At(h, "work") /\ h \in aborted /\ Ends(h)
  /\ Fail(h)
  /\ UNCHANGED <<Quietly, aborted, fired>>

\* The execution is closed in the database and forgotten.  Those who wait for it
\* go on after its own call: pauseTask takes its suppression away then.
NobodyPaused(h) == {}  \* mutant: the suppression stays
Paused(h) == {My(g) : g \in {u \in Users : At(u, "pausing") /\ h \in thread[u].on}}
NextOf(h) ==
  CASE thread[h].how = "fire" -> AfterFire(h)
    [] thread[h].how \in {"restore", "create", "resume"} /\ My(h) \notin Once ->
         "next"
    [] OTHER -> Rest(h)

Close(h) ==
  /\ At(h, "close")
  /\ GiveBack(h)
  /\ running' = [running EXCEPT ![My(h)] = IF @ = h THEN None ELSE @]
  /\ aborted' = aborted \ {h}
  /\ suppress' = suppress \ Paused(h)
  /\ thread' = [g \in Threads |->
                  IF g = h THEN To(h, [thread[h] EXCEPT !.tries = 0], NextOf(h))
                  ELSE [thread[g] EXCEPT !.on = @ \ {h}]]
  /\ UNCHANGED <<database, timers, todo, late, disposing, history>>

-----------------------------------------------------------------------------
(* The calls from outside.                                                 *)

\* A user makes one call, before the scheduler is disposed of; its first query
\* has found the task.
May(u, op) ==
  /\ u \in scene /\ Op[u] = op /\ At(u, "idle") /\ disposing = "no"
Made(op, t) == [Idle EXCEPT !.how = op, !.task = t]
Watching(u, t, op) == [Made(op, t) EXCEPT !.on = {running[t]} \ {None}]

\* pause and cancel abort the execution under way and wait for it.
StopTask(u, t, op, l) ==
  /\ timers' = timers \ {t}
  /\ Go(u, Watching(u, t, op), l)
  /\ IF Running(t) THEN /\ suppress' = suppress \cup {t}
                        /\ aborted' = aborted \cup {running[t]}
     ELSE UNCHANGED <<suppress, aborted>>
  /\ UNCHANGED <<database, running, todo, late, disposing, lease, history>>

Pause(u, t) == May(u, "pause") /\ Exists(t) /\ StopTask(u, t, "pause", "pausing")
Cancel(u, t) == May(u, "cancel") /\ Exists(t) /\ StopTask(u, t, "cancel", "deleting")

StorePaused(u) ==
  /\ At(u, "pausing") /\ thread[u].on = {}
  /\ Set(My(u), "paused")
  /\ Goto(u, "over")
  /\ UNCHANGED <<past, memory, lease, history>>

Delete(u) ==
  /\ At(u, "deleting") /\ thread[u].on = {}
  /\ Set(My(u), "gone")
  /\ suppress' = suppress \ {My(u)}
  /\ Goto(u, "over")
  /\ UNCHANGED <<past, timers, running, aborted, todo, late, disposing, lease,
                 history>>

\* resume: active again, with a next run unless a one-shot's time has gone by.
Resume(u, t) ==
  /\ May(u, "resume") /\ Exists(t)
  /\ Go(u, Made("resume", t), "activate")
  /\ excused' = excused \cup {t}
  /\ UNCHANGED <<database, memory, lease, fires, crashed, fired, unscheduled>>

Activate(u) ==
  /\ At(u, "activate")
  /\ Set(My(u), "active")
  /\ Goto(u, IF My(u) \in Once \cap past THEN "reschedule" ELSE "renew")
  /\ UNCHANGED <<past, memory, lease, history>>

Renew(u) ==
  /\ At(u, "renew")
  /\ past' = past \ {My(u)}
  /\ Goto(u, "reschedule")
  /\ UNCHANGED <<status, memory, lease, history>>

\* resume has read the task again; create has inserted it.
Reschedule(u) ==
  /\ At(u, "reschedule")
  /\ \/ /\ status[My(u)] # "active"
        /\ Goto(u, "over")
        /\ UNCHANGED <<timers, running, unscheduled>>
     \/ /\ status[My(u)] = "active"
        /\ Schedule(u, thread[u], My(u) \in past)
  /\ UNCHANGED <<database, suppress, aborted, todo, late, disposing, lease,
                 fires, crashed, fired, excused>>

Create(u, t) ==
  /\ May(u, "create") /\ t \in scene /\ status[t] = "new"
  /\ status' = [status EXCEPT ![t] = "active"]
  /\ \E overdue \in BOOLEAN :
       /\ past' = IF overdue THEN past \cup {t} ELSE past
       /\ Schedule(u, Made("create", t), overdue)
  /\ UNCHANGED <<suppress, aborted, todo, late, disposing, lease,
                 fires, crashed, fired, excused>>

Trigger(u, t) ==
  /\ May(u, "trigger") /\ Exists(t)
  /\ Execute(u, Made("trigger", t))
  /\ UNCHANGED <<database, timers, suppress, aborted, todo, late, disposing,
                 lease, fires, crashed, fired, excused>>

\* dispose: no timers, every execution aborted and waited for, no handlers.
Dispose(u) ==
  LET under == {running[t] : t \in {x \in Tasks : Running(x)}}
  IN /\ May(u, "dispose")
     /\ disposing' = "on"
     /\ timers' = {}
     /\ suppress' = suppress \cup {t \in Tasks : Running(t)}
     /\ aborted' = aborted \cup under
     /\ Go(u, [Idle EXCEPT !.how = "dispose", !.on = under], "disposing")
     /\ UNCHANGED <<database, running, todo, late, lease, history>>

Disposed(u) ==
  /\ At(u, "disposing") /\ thread[u].on = {}
  /\ running' = [t \in Tasks |-> None]
  /\ suppress' = {}
  /\ disposing' = "done"
  /\ Goto(u, "over")
  /\ UNCHANGED <<database, timers, aborted, todo, late, lease, history>>

-----------------------------------------------------------------------------
(* restoreActiveTasks, and the crash before it.                            *)

\* It reads all active tasks once and schedules them one after the other.
Restore ==
  /\ At(Boot, "idle")
  /\ todo' = {t \in Tasks : status[t] = "active"}
  /\ late' = past \cap todo'
  /\ excused' = (excused \cup timers \cup {My(h) : h \in Threads}) \ {None}
  /\ thread' = [thread EXCEPT ![Boot].at = "boot"]
  /\ UNCHANGED <<database, timers, running, suppress, aborted, disposing, lease,
                 fires, crashed, fired, unscheduled>>

RestoreNext ==
  /\ At(Boot, "boot")
  /\ \/ /\ todo = {}
        /\ thread' = [thread EXCEPT ![Boot] = [Idle EXCEPT !.at = "over"]]
        /\ UNCHANGED <<timers, running, todo, late, unscheduled>>
     \/ \E t \in todo :
          /\ todo' = todo \ {t} /\ late' = late \ {t}
          /\ Schedule(Boot, Made("restore", t), t \in late)
  /\ UNCHANGED <<database, suppress, aborted, disposing, lease, fires, crashed,
                 fired, excused>>

\* The process dies, or ends after dispose, and starts again; time passes.
Crash ==
  /\ ~crashed /\ crashed' = TRUE
  /\ past' \in {past, {t \in Tasks : Exists(t)}}
  /\ timers' = {} /\ suppress' = {} /\ aborted' = {} /\ todo' = {} /\ late' = {}
  /\ running' = [t \in Tasks |-> None]
  /\ disposing' = "no"
  /\ thread' = [h \in Threads |->
                  IF h \in Users /\ ~At(h, "idle") THEN [Idle EXCEPT !.at = "over"]
                  ELSE Idle]
  /\ holder' = [k \in {Key} |-> None] /\ wanted' = [k \in {Key} |-> {}]
  /\ unscheduled' = {}
  /\ UNCHANGED <<status, fires, fired, excused>>

-----------------------------------------------------------------------------

\* What goes on by itself.
Progress(h) ==
  \/ Look(h) \/ Marked(h) \/ LookAgain(h) \/ StoreNext(h) \/ Disable(h)
  \/ Recorded(h) \/ Enter(h) \/ Wait(h) \/ GiveUp(h) \/ Lookup(h) \/ Attempt(h)
  \/ TimeLimit(h) \/ Interrupt(h) \/ Close(h)
  \/ StorePaused(h) \/ Delete(h) \/ Activate(h) \/ Renew(h) \/ Reschedule(h)
  \/ Disposed(h)

Call(u, t) ==
  \/ Pause(u, t) \/ Cancel(u, t) \/ Resume(u, t) \/ Create(u, t) \/ Trigger(u, t)

Next ==
  /\ UNCHANGED scene
  /\ \/ \E h \in Threads : Progress(h) \/ Answer(h)
     \/ \E t \in Tasks : Fire(t) \/ Tick(t)
     \/ \E u \in Users : Dispose(u) \/ \E t \in Tasks : Call(u, t)
     \/ Restore \/ RestoreNext \/ Crash

Spec == Init /\ [][Next]_vars

\* The database answers, time limits pass, and waits for the lease end.  Handlers
\* need not answer.  The steps are bounded: one fairness for all is enough.
Fairness == WF_vars(/\ \/ RestoreNext \/ \E h \in Threads : Progress(h)
                    /\ UNCHANGED scene)
FairSpec == Spec /\ Fairness

-----------------------------------------------------------------------------
(* Properties.                                                             *)

Labels == {"idle", "look", "mark", "record", "acquire", "lookup", "begin", "work",
           "sleep", "close", "again", "next", "disable", "pausing", "deleting",
           "activate", "renew", "reschedule", "disposing", "boot", "over"}

Ways == {"none", "fire", "restore", "create", "pause", "resume", "cancel",
         "trigger", "dispose"}
ThreadRecords == [at : Labels, how : Ways, task : Tasks \cup {None}, tries : Nat,
                  on : SUBSET Threads]

\* Types of the database, of the scheduler's memory and of its calls.
TypeOK ==
  /\ scene \in Scenes
  /\ status \in [Tasks -> {"new", "active", "paused", "disabled", "gone"}]
  /\ past \cup timers \cup suppress \cup excused \cup unscheduled
       \subseteq scene \cap Tasks
  /\ todo \subseteq scene \cap Tasks /\ late \subseteq todo
  /\ running \in [Tasks -> Threads \cup {None}]
  /\ thread \in [Threads -> ThreadRecords]
  /\ \A h \in Threads :
       /\ My(h) \in scene \cup {None}
       /\ thread[h].tries <= IF My(h) = None THEN 0 ELSE Retry[My(h)]
  /\ aborted \subseteq {h \in Threads : Executing(h)}
  /\ disposing \in {"no", "on", "done"}
  /\ holder \in [{Key} -> Threads \cup {None}]
  /\ wanted \in [{Key} -> SUBSET Threads]
  /\ fires \in 0..MaxFires /\ crashed \in BOOLEAN
  /\ fired \in [Tasks -> Nat]

\* A one-shot task that nobody resumes is begun at most once by the scheduler,
\* across a crash and the restoration (markOnceTaskTriggered).
OnceOnly == \A t \in Once \ excused : fired[t] <= 1

\* When nothing is under way, every active task has its timer, whatever was
\* paused, resumed, refused or crashed on the way, unless scheduling it failed.
Quiet == /\ \A h \in Threads : thread[h].at \in {"idle", "over"}
         /\ At(Boot, "over") /\ disposing = "no"
ActiveHasTimer ==
  Quiet => \A t \in Tasks : status[t] = "active" => t \in timers \cup unscheduled

\* pauseTask, cancelTask and dispose return, even when a handler neither heeds its
\* signal nor has a time limit.
Stopping == \E u \in Users : thread[u].how \in {"pause", "cancel", "dispose"}
Answered == Stopping ~> ~Stopping

\* After its timer has fired, an active interval task with a time limit gets its
\* next timer, also when its execution was refused or failed.
Fired(t) == \E h \in Timers : At(h, "look") /\ My(h) = t
Rescheduled == \A t \in Limited \ Once :
  Fired(t) ~> (\/ t \in timers \/ status[t] # "active"
               \/ disposing # "no" \/ At(Boot, "idle"))

\* The scheduler never hangs on a handler: whoever stops a task is answered, and a
\* task with a time limit goes on (the races with the signal and the limit in
\* executeTask, pauseTask, cancelTask, dispose).
NothingHangs == Answered /\ Rescheduled
=============================================================================
