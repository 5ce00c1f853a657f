---------------------------- MODULE SchedulerProofs ----------------------------
(***************************************************************************)
(* The safety of the scheduler, for every set of tasks, users and timers.  *)
(*                                                                         *)
(* OnceOnly: a one-shot task has one chance to be begun by the scheduler   *)
(* itself: its row still to be inserted, its timer, its place in the list  *)
(* of the restoration, a call on its way to run it, or that it has been    *)
(* begun.  Single says that it has one of these at most, and that the      *)
(* chance survives a crash only as long as the task is active: it is       *)
(* disabled before it is executed.                                         *)
(*                                                                         *)
(* ActiveHasTimer: an active task without a timer is one somebody is about *)
(* to schedule, to stop or to disable (Covered); a suppressed task, which  *)
(* an execution will not schedule again, is one that somebody waits to     *)
(* stop (SuppressOK).                                                      *)
(***************************************************************************)
EXTENDS Scheduler, TLAPS

\* An execution that is registered is under way, and is one of that task; a task
\* outside the scene does not exist; a call is about one, but for some; and only
\* users stop, resume and dispose.
UserLabels == {"pausing", "deleting", "activate", "renew", "reschedule", "disposing"}
Taskless == {"idle", "boot", "over", "disposing"}
RunningOK ==
  /\ \A t \in Tasks :
       /\ running[t] # None => Executing(running[t]) /\ My(running[t]) = t
       /\ t \notin scene => status[t] = "new"
  /\ \A h \in Threads : /\ thread[h].at \notin Taskless => My(h) \in Tasks
                        /\ thread[h].at \in UserLabels => h \in Users

TypeInv == TypeOK /\ RunningOK

\* A call of the scheduler's own on its way to begin t.
Unbegun == {"look", "mark", "record", "acquire", "lookup", "begin"}
Decided == {"record", "acquire", "lookup", "begin"}
Chance(h, t) == Unasked(h) /\ My(h) = t /\ thread[h].at \in Unbegun
Due(h, t) == Chance(h, t) /\ thread[h].at \in Decided

Single(t) ==
  /\ fired[t] <= 1
  /\ status[t] = "new" \/ t \in timers \/ t \in todo =>
       fired[t] = 0 /\ \A h \in Threads : ~Chance(h, t)
  /\ status[t] = "new" => t \notin timers /\ t \notin todo
  /\ t \in timers => t \notin todo
  /\ \A g, h \in Threads : Chance(g, t) /\ Chance(h, t) => g = h
  /\ \A h \in Threads : Chance(h, t) => fired[t] = 0
  /\ \A h \in Threads : Due(h, t) => status[t] # "active"
  /\ fired[t] # 0 => status[t] # "active"

\* Only resume makes a task active again; only an interval task has a next run.
\* A fired timer looks its task up.
CallOK(h) ==
  /\ thread[h].at \in {"activate", "renew", "reschedule"} => thread[h].how = "resume"
  /\ thread[h].how = "resume" => My(h) \in excused
  /\ thread[h].at = "next" => My(h) \notin Once
  /\ thread[h].at = "look" => thread[h].how = "fire"
CallsOK == \A h \in Threads : CallOK(h)

OnceInv == CallsOK /\ \A t \in Once \ excused : Single(t)

\* Somebody is about to schedule t, to stop it or to disable it.
Stops(h, t) == thread[h].at \in {"pausing", "deleting"} /\ My(h) = t
Covers(h, t) ==
  /\ My(h) = t
  /\ \/ thread[h].at \in {"look", "mark", "again", "next", "disable", "pausing", "deleting",
                          "activate", "renew", "reschedule"}
     \/ /\ Executing(h)
        /\ \/ thread[h].how = "fire"
           \/ thread[h].how \in {"restore", "create", "resume"} /\ t \notin Once
Covered(t) ==
  \/ t \in timers \cup unscheduled \cup todo
  \/ At(Boot, "idle") \/ disposing # "no"
  \/ \E h \in Threads : Covers(h, t)

\* pauseTask takes its suppression away when the execution it waits for is over.
Suppresses(h, t) == Stops(h, t) /\ (At(h, "pausing") => thread[h].on # {})
SuppressOK == \A t \in suppress : disposing # "no" \/ \E u \in Users : Suppresses(u, t)
CoverInv ==
  /\ \A t \in Tasks : status[t] = "active" => Covered(t)
  /\ At(Boot, "over") => todo = {}
  /\ SuppressOK
-----------------------------------------------------------------------------
(* How threads go on.                                                      *)

USE DEF At, My, Goto, database, memory, lease, history

Moved(h) == \A g \in Threads \ {h} : thread'[g] = thread[g]
Rested(h) == thread'[h] = [Idle EXCEPT !.at = Rest(h)]

LEMMA GoEffect ==
  ASSUME TypeOK, NEW h \in Threads, NEW rec \in ThreadRecords, NEW l \in Labels, Go(h, rec, l)
  PROVE  /\ thread' \in [Threads -> ThreadRecords] /\ Moved(h) /\ thread'[h].at = l
         /\ IF l = Rest(h) THEN Rested(h) ELSE thread'[h] = [rec EXCEPT !.at = l]
<1>1. Idle \in ThreadRecords
  BY DEF Idle, ThreadRecords, Labels, Ways
<1>2. /\ [Idle EXCEPT !.at = l] \in ThreadRecords /\ [Idle EXCEPT !.at = l].at = l
      /\ [rec EXCEPT !.at = l] \in ThreadRecords /\ [rec EXCEPT !.at = l].at = l
  BY <1>1 DEF ThreadRecords
<1>3. To(h, rec, l) \in ThreadRecords /\ To(h, rec, l).at = l
      /\ IF l = Rest(h) THEN To(h, rec, l) = [Idle EXCEPT !.at = Rest(h)]
         ELSE To(h, rec, l) = [rec EXCEPT !.at = l]
  BY <1>2 DEF To
<1> QED
  BY <1>3 DEF TypeOK, Go, Moved, Rested

\* What executeTask does: the execution is refused, or registered.
Refused(h, rec) ==
  /\ running' = running
  /\ \/ /\ rec.how = "fire" /\ unscheduled' = unscheduled
        /\ \/ thread'[h] = [rec EXCEPT !.at = "again"]
           \/ Suppressed(My(h)) /\ Rested(h)
     \/ rec.how = "trigger" /\ unscheduled' = unscheduled /\ Rested(h)
     \/ rec.how # "fire" /\ unscheduled' = unscheduled \cup {rec.task} /\ Rested(h)
Registers(h, rec) ==
  /\ running[rec.task] = None /\ running' = [running EXCEPT ![rec.task] = h]
  /\ thread'[h] = [rec EXCEPT !.at = "record"] /\ unscheduled' = unscheduled
Executes(h, rec) ==
  /\ thread' \in [Threads -> ThreadRecords] /\ Moved(h)
  /\ Refused(h, rec) \/ Registers(h, rec)

LEMMA ExecuteEffect ==
  ASSUME TypeOK, NEW h \in Threads, NEW rec \in ThreadRecords, Execute(h, rec)
  PROVE  Executes(h, rec)
<1>r. Rest(h) \in {"boot", "over", "idle"} /\ Rest(h) \in Labels
  BY DEF Rest, Labels
<1>1. CASE Running(rec.task) /\ Go(h, rec, IF rec.how = "fire" THEN AfterFire(h) ELSE Rest(h))
  <2> DEFINE l == IF rec.how = "fire" THEN AfterFire(h) ELSE Rest(h)
  <2>0. Go(h, rec, l) /\ Running(rec.task)
    BY <1>1
  <2>1. /\ l \in Labels
        /\ l = Rest(h) \/ (rec.how = "fire" /\ l = "again")
        /\ rec.how = "fire" /\ l = Rest(h) => Suppressed(My(h))
    BY <1>r DEF AfterFire, Labels
  <2> HIDE DEF l
  <2>2. /\ thread' \in [Threads -> ThreadRecords] /\ Moved(h) /\ thread'[h].at = l
        /\ IF l = Rest(h) THEN Rested(h) ELSE thread'[h] = [rec EXCEPT !.at = l]
    BY <2>0, <2>1, GoEffect
  <2>3. /\ running' = running
        /\ unscheduled' = IF rec.how \in {"fire", "trigger"} THEN unscheduled
                          ELSE unscheduled \cup {rec.task}
    BY <1>1 DEF Execute, Running
  <2> QED
    BY <2>1, <2>2, <2>3 DEF Executes, Refused
<1>2. CASE ~Running(rec.task)
  <2>1. /\ Go(h, rec, "record") /\ "record" \in Labels /\ "record" # Rest(h)
        /\ running' = [running EXCEPT ![rec.task] = h] /\ unscheduled' = unscheduled
    BY <1>r, <1>2 DEF Execute, Labels
  <2>2. thread' \in [Threads -> ThreadRecords] /\ Moved(h) /\ thread'[h] = [rec EXCEPT !.at = "record"]
    BY <2>1, GoEffect
  <2> QED
    BY <1>2, <2>1, <2>2 DEF Executes, Registers, Running
<1> QED
  BY <1>1, <1>2 DEF Execute

\* What scheduleTask does with an active task.
Schedules(h, rec) ==
  /\ thread' \in [Threads -> ThreadRecords] /\ Moved(h)
  /\ \/ /\ timers' = timers \cup {rec.task} /\ Rested(h)
        /\ UNCHANGED <<running, unscheduled>>
     \/ rec.task \notin Once /\ timers' = timers /\ Executes(h, rec)
     \/ /\ UNCHANGED <<timers, running, unscheduled>>
        /\ \E l \in {"next", "mark", "disable"} :
             /\ thread'[h] = [rec EXCEPT !.at = l]
             /\ l = "next" <=> rec.task \notin Once

LEMMA ScheduleEffect ==
  ASSUME TypeOK, NEW h \in Threads, NEW rec \in ThreadRecords, NEW overdue,
         Schedule(h, rec, overdue)
  PROVE  Schedules(h, rec)
<1>r. Rest(h) \in {"boot", "over", "idle"} /\ Rest(h) \in Labels
  BY DEF Rest, Labels
<1>1. CASE SetTimer(rec.task) /\ Go(h, rec, Rest(h)) /\ UNCHANGED <<running, unscheduled>>
  BY <1>r, <1>1, GoEffect DEF SetTimer, Schedules
<1>2. CASE rec.task \in Missed \ Once /\ Execute(h, rec) /\ UNCHANGED timers
  BY <1>2, ExecuteEffect DEF Schedules, Executes
<1>3. CASE /\ Go(h, rec, IF rec.task \notin Once THEN "next"
                         ELSE IF rec.task \in Missed THEN "mark" ELSE "disable")
           /\ UNCHANGED <<timers, running, unscheduled>>
  <2>1. PICK l \in {"next", "mark", "disable"} :
          Go(h, rec, l) /\ (l = "next" <=> rec.task \notin Once)
    BY <1>3
  <2>2. l \in Labels /\ l # Rest(h)
    BY <1>r DEF Labels
  <2> QED
    BY <1>3, <2>1, <2>2, GoEffect DEF Schedules
<1> QED
  BY <1>1, <1>2, <1>3 DEF Schedule

\* An execution goes on.
Working(h) ==
  \/ Recorded(h) \/ Enter(h) \/ Wait(h) \/ GiveUp(h) \/ Lookup(h) \/ Attempt(h)
  \/ TimeLimit(h) \/ Interrupt(h) \/ Answer(h)

Works(h) ==
  /\ Executing(h) /\ UNCHANGED Quietly
  /\ thread' \in [Threads -> ThreadRecords] /\ Moved(h)
  /\ thread'[h].how = thread[h].how /\ My(h)' = My(h) /\ thread'[h].on = thread[h].on
  /\ Executing(h)' /\ ~At(h, "record")'
  /\ At(h, "close")' => \/ thread[h].at \in {"acquire", "lookup", "begin", "sleep", "work"}
  /\ thread'[h].at \in Unbegun => thread[h].at \in Decided
  /\ \/ thread'[h].tries = thread[h].tries
     \/ thread'[h].tries = thread[h].tries + 1 /\ MayRetry(h)
  /\ aborted' \subseteq aborted \cup {h}
  /\ \/ fired' = fired
     \/ /\ At(h, "begin") /\ At(h, "work")' /\ Unasked(h)
        /\ fired' = [fired EXCEPT ![My(h)] = @ + 1]

LEMMA WorkEffect ==
  ASSUME TypeOK, NEW h \in Threads, Working(h)
  PROVE  Works(h)
<1> DEFINE Goes(rec, l) == /\ thread' \in [Threads -> ThreadRecords] /\ Moved(h)
                           /\ thread'[h] = [rec EXCEPT !.at = l]
<1>r. Rest(h) \in {"boot", "over", "idle"}
  BY DEF Rest
<1>t. thread[h] \in ThreadRecords /\ thread \in [Threads -> ThreadRecords]
  BY DEF TypeOK
<1>g. \A l \in {"acquire", "lookup", "begin", "work", "sleep", "close"},
         rec \in ThreadRecords : Go(h, rec, l) => Goes(rec, l)
  <2> TAKE l \in {"acquire", "lookup", "begin", "work", "sleep", "close"}, rec \in ThreadRecords
  <2> HAVE Go(h, rec, l)
  <2>1. l \in Labels /\ l # Rest(h)
    BY <1>r DEF Labels
  <2> QED
    BY <2>1, GoEffect
<1> DEFINE W(l) == Goes(thread[h], l)
<1>w. \A l \in {"acquire", "lookup", "begin", "work", "sleep", "close"} : Goto(h, l) => W(l)
  BY <1>g, <1>t
<1>s. Moved(h) \/ thread' # thread
  BY DEF Moved
<1> HIDE DEF Goes, W
<1>u. UNCHANGED Quietly
  BY DEF Working, Recorded, Enter, Wait, GiveUp, Lookup, Attempt, TimeLimit, Interrupt, Answer,
     Quietly
<1>1. CASE Recorded(h)
  <2>1. At(h, "record") /\ (W("acquire") \/ W("lookup"))
    BY <1>1, <1>w DEF Recorded
  <2> QED
    BY <1>1, <1>t, <1>u, <2>1 DEF W, Goes, Recorded, Works, Executing, Unbegun, Decided,
       ThreadRecords
<1>2. CASE Enter(h)
  BY <1>2, <1>t, <1>u, <1>w DEF W, Goes, Enter, Works, Executing, Unbegun, Decided, ThreadRecords
<1>3. CASE Wait(h) \/ TimeLimit(h)
  BY <1>3, <1>s, <1>t, <1>u DEF Wait, TimeLimit, Works, Executing, Unbegun, Decided, ThreadRecords
<1>4. CASE GiveUp(h)
  BY <1>4, <1>t, <1>u, <1>w DEF W, Goes, GiveUp, Works, Executing, Unbegun, Decided, ThreadRecords
<1>5. CASE Lookup(h)
  <2>1. At(h, "lookup") /\ (W("begin") \/ W("close"))
    BY <1>5, <1>w DEF Lookup, Fail
  <2> QED
    BY <1>5, <1>t, <1>u, <2>1 DEF W, Goes, Lookup, Works, Executing, Unbegun, Decided,
       ThreadRecords
<1>6. CASE Attempt(h)
  <2>1. CASE W("close") /\ fired' = fired
    BY <1>6, <1>t, <1>u, <2>1 DEF W, Goes, Attempt, Works, Executing, Unbegun, Decided,
       ThreadRecords
  <2>2. CASE W("work") /\ fired' = IF At(h, "begin") /\ Unasked(h)
                                   THEN [fired EXCEPT ![My(h)] = @ + 1] ELSE fired
    BY <1>6, <1>t, <1>u, <2>2 DEF W, Goes, Attempt, Works, Executing, Unbegun, Decided,
       ThreadRecords
  <2> QED
    BY <1>6, <1>w, <2>1, <2>2 DEF Attempt, Fail
<1>7. CASE Interrupt(h)
  <2>1. At(h, "work") /\ W("close")
    BY <1>7, <1>w DEF Interrupt, Fail
  <2> QED
    BY <1>7, <1>t, <1>u, <2>1 DEF W, Goes, Interrupt, Works, Executing, Unbegun, Decided,
       ThreadRecords
<1>8. CASE Answer(h)
  <2>1. At(h, "work") /\ UNCHANGED <<aborted, fired>>
    BY <1>8 DEF Answer
  <2>2. CASE W("close")
    BY <1>t, <1>u, <2>1, <2>2 DEF W, Goes, Works, Executing, Unbegun, Decided, ThreadRecords
  <2>3. CASE MayRetry(h) /\ Go(h, [thread[h] EXCEPT !.tries = @ + 1], "sleep")
    <3>1. [thread[h] EXCEPT !.tries = @ + 1] \in ThreadRecords
      BY <1>t DEF ThreadRecords
    <3>2. Goes([thread[h] EXCEPT !.tries = @ + 1], "sleep")
      BY <1>g, <2>3, <3>1
    <3> QED
      BY <1>t, <1>u, <2>1, <2>3, <3>2 DEF Goes, Works, Executing, Unbegun, Decided, ThreadRecords
  <2> QED
    BY <1>8, <1>w, <2>2, <2>3 DEF Answer, Fail
<1> QED
  BY <1>1, <1>2, <1>3, <1>4, <1>5, <1>6, <1>7, <1>8 DEF Working

\* An execution is closed; whoever waits for it goes on.
Closes(h) ==
  /\ At(h, "close")
  /\ thread' \in [Threads -> ThreadRecords]
  /\ \A g \in Threads \ {h} : thread'[g] = [thread[g] EXCEPT !.on = @ \ {h}]
  /\ \/ Rested(h)
     \/ /\ thread'[h] = [thread[h] EXCEPT !.tries = 0, !.at = NextOf(h)]
        /\ NextOf(h) \in {"again", "next"}
  /\ NextOf(h) \in {"again", "next"} => ~Rested(h)
  /\ running' = [running EXCEPT ![My(h)] = IF @ = h THEN None ELSE @]
  /\ aborted' = aborted \ {h} /\ suppress' = suppress \ Paused(h)
  /\ UNCHANGED <<database, timers, todo, late, disposing, history>>

LEMMA CloseEffect ==
  ASSUME TypeOK, NEW h \in Threads, Close(h)
  PROVE  Closes(h)
<1>r. Rest(h) \in {"boot", "over", "idle"} /\ Rest(h) \in Labels
  BY DEF Rest, Labels
<1>t. thread \in [Threads -> ThreadRecords] /\ Idle \in ThreadRecords
  BY DEF TypeOK, Idle, ThreadRecords, Labels, Ways
<1> DEFINE rec == [thread[h] EXCEPT !.tries = 0]
           l == NextOf(h)
<1>1. l \in {"again", "next", Rest(h)} /\ l \in Labels
  BY <1>r DEF NextOf, AfterFire, Labels
<1>2. /\ rec \in ThreadRecords
      /\ \A k \in ThreadRecords : [k EXCEPT !.at = l] \in ThreadRecords
                                /\ [k EXCEPT !.on = @ \ {h}] \in ThreadRecords
      /\ [rec EXCEPT !.at = l] = [thread[h] EXCEPT !.tries = 0, !.at = l]
  BY <1>t, <1>1 DEF ThreadRecords
<1> HIDE DEF rec, l
<1>3. /\ To(h, rec, l) \in ThreadRecords
      /\ IF l = Rest(h) THEN To(h, rec, l) = [Idle EXCEPT !.at = Rest(h)]
         ELSE To(h, rec, l) = [rec EXCEPT !.at = l]
  BY <1>t, <1>2 DEF To
<1>4. thread' = [g \in Threads |-> IF g = h THEN To(h, rec, l)
                                  ELSE [thread[g] EXCEPT !.on = @ \ {h}]]
  BY DEF Close, rec, l
<1>5. /\ thread' \in [Threads -> ThreadRecords] /\ thread'[h] = To(h, rec, l)
      /\ \A g \in Threads \ {h} : thread'[g] = [thread[g] EXCEPT !.on = @ \ {h}]
  BY <1>t, <1>2, <1>3, <1>4
<1>6. l \in {"again", "next"} => thread'[h].at = l /\ ~Rested(h)
  BY <1>r, <1>t, <1>2, <1>3, <1>5 DEF Rested, Idle, ThreadRecords
<1>7. /\ At(h, "close")
      /\ running' = [running EXCEPT ![My(h)] = IF @ = h THEN None ELSE @]
      /\ aborted' = aborted \ {h} /\ suppress' = suppress \ Paused(h)
      /\ UNCHANGED <<database, timers, todo, late, disposing, history>>
  BY DEF Close
<1> QED
  BY <1>1, <1>2, <1>3, <1>5, <1>6, <1>7 DEF Closes, Rested, l

-----------------------------------------------------------------------------
(* Types.                                                                  *)

RecOK(h, rec) ==
  /\ rec \in ThreadRecords /\ rec.task \in scene \cup {None}
  /\ rec.tries <= IF rec.task = None THEN 0 ELSE Retry[rec.task]
  /\ rec.at \notin Taskless => rec.task \in Tasks
  /\ rec.at \in UserLabels => h \in Users

ThreadsOK ==
  /\ thread \in [Threads -> ThreadRecords]
  /\ \A h \in Threads : RecOK(h, thread[h])
  /\ aborted \subseteq {h \in Threads : Executing(h)}

\* A call that executes nothing makes its step.
LEMMA FreeStep ==
  ASSUME TypeInv, scene' = scene, NEW h \in Threads, ~Executing(h), Moved(h),
         thread' \in [Threads -> ThreadRecords], RecOK(h, thread'[h]),
         \/ running' = running
         \/ running' = [t \in Tasks |-> None]
         \/ \E rec : RecOK(h, rec) /\ Registers(h, rec),
         aborted' \subseteq aborted \cup ({running[t] : t \in Tasks} \ {None}),
         \A t \in Tasks : t \notin scene => status'[t] = status[t]
  PROVE  ThreadsOK' /\ RunningOK' /\ running' \in [Tasks -> Threads \cup {None}]
<1>t. /\ running \in [Tasks -> Threads \cup {None}] /\ thread \in [Threads -> ThreadRecords]
      /\ None \notin Tasks \cup Threads
      /\ aborted \subseteq {g \in Threads : Executing(g)}
  BY SchedulerAssumption DEF TypeInv, TypeOK
<1>1. \A g \in Threads : RecOK(g, thread'[g])
  BY DEF TypeInv, TypeOK, RunningOK, RecOK, Moved
<1>2. \A g \in Threads \ {h} : (Executing(g)' <=> Executing(g)) /\ My(g)' = My(g)
  BY DEF Moved, Executing
<1>3. \A t \in Tasks : running[t] # None =>
        running[t] \in Threads \ {h} /\ Executing(running[t]) /\ My(running[t]) = t
  BY <1>t DEF TypeInv, RunningOK
<1>4. aborted' \subseteq {g \in Threads : Executing(g)'}
  BY <1>t, <1>2, <1>3
<1>5. ASSUME NEW t \in Tasks, running'[t] # None
      PROVE  (Executing(running[t]) /\ My(running[t]) = t)'
  <2>1. CASE running' = running
    BY <1>2, <1>3, <1>5, <2>1
  <2>2. CASE running' = [x \in Tasks |-> None]
    BY <1>5, <2>2
  <2>3. CASE \E rec : RecOK(h, rec) /\ Registers(h, rec)
    <3>1. PICK rec : RecOK(h, rec) /\ Registers(h, rec)
      BY <2>3
    <3>2. CASE t = rec.task
      <4>1. running'[t] = h /\ thread'[h].at = "record" /\ thread'[h].task = t
        BY <1>t, <3>1, <3>2 DEF Registers, RecOK, ThreadRecords
      <4> QED
        BY <4>1 DEF Executing
    <3>3. CASE t # rec.task
      <4>1. running'[t] = running[t]
        BY <1>t, <3>1, <3>3 DEF Registers
      <4> QED
        BY <1>2, <1>3, <1>5, <4>1
    <3> QED
      BY <3>2, <3>3
  <2> QED
    BY <2>1, <2>2, <2>3
<1>6. running' \in [Tasks -> Threads \cup {None}]
  BY <1>t DEF Registers
<1>7. \A t \in Tasks : t \notin scene' => status'[t] = "new"
  BY DEF TypeInv, RunningOK
<1> QED
  BY <1>1, <1>4, <1>5, <1>6, <1>7 DEF ThreadsOK, RunningOK, RecOK

\* The steps of the calls that execute nothing.
Sits(h, l) == thread'[h] = [thread[h] EXCEPT !.at = l]
SetTo(t, s) == status' = IF Exists(t) THEN [status EXCEPT ![t] = s] ELSE status

LEMMA Moves ==
  ASSUME TypeInv, NEW h \in Threads,
         \/ Look(h) \/ Marked(h) \/ LookAgain(h) \/ StoreNext(h) \/ Disable(h)
         \/ StorePaused(h) \/ Delete(h) \/ Activate(h) \/ Renew(h) \/ Reschedule(h)
         \/ Disposed(h)
  PROVE  /\ thread' \in [Threads -> ThreadRecords] /\ Moved(h)
         /\ Look(h) => /\ At(h, "look") /\ UNCHANGED <<status, timers>>
                       /\ \/ status[My(h)] # "active" /\ Rested(h) /\ UNCHANGED running
                                                     /\ UNCHANGED unscheduled
                          \/ /\ status[My(h)] = "active" /\ My(h) \in Once /\ Sits(h, "mark")
                             /\ UNCHANGED <<running, unscheduled>>
                          \/ status[My(h)] = "active" /\ My(h) \notin Once /\ Executes(h, thread[h])
         /\ Marked(h) => /\ At(h, "mark") /\ SetTo(My(h), "disabled") /\ UNCHANGED timers
                         /\ Executes(h, thread[h])
         /\ LookAgain(h) => /\ At(h, "again")
                            /\ \/ status[My(h)] # "active" /\ Rested(h)
                               \/ My(h) \in Once /\ Sits(h, "disable")
                               \/ My(h) \notin Once /\ Sits(h, "next")
         /\ StoreNext(h) \/ Disable(h) \/ StorePaused(h) \/ Delete(h) \/ Disposed(h) => Rested(h)
         /\ Activate(h) => At(h, "activate") /\ (Sits(h, "reschedule") \/ Sits(h, "renew"))
         /\ Renew(h) => At(h, "renew") /\ Sits(h, "reschedule")
         /\ Reschedule(h) => /\ At(h, "reschedule") /\ UNCHANGED status
                             /\ \/ /\ status[My(h)] # "active" /\ Rested(h)
                                   /\ UNCHANGED <<timers, running, unscheduled>>
                                \/ status[My(h)] = "active" /\ Schedules(h, thread[h])
<1> DEFINE Good == thread' \in [Threads -> ThreadRecords] /\ Moved(h)
<1>t. TypeOK /\ thread[h] \in ThreadRecords
  BY DEF TypeInv, TypeOK
<1>r. Rest(h) \in {"boot", "over", "idle"} /\ Rest(h) \in Labels
  BY DEF Rest, Labels
<1>g. \A l \in Labels : Goto(h, l) => Good /\ IF l = Rest(h) THEN Rested(h) ELSE Sits(h, l)
  BY <1>t, GoEffect DEF Sits
<1>l. \A l \in {"mark", "disable", "next", "renew", "reschedule"} : Goto(h, l) => Good /\ Sits(h, l)
  <2>1. \A l \in {"mark", "disable", "next", "renew", "reschedule"} : l \in Labels /\ l # Rest(h)
    BY <1>r DEF Labels
  <2> QED
    BY <1>g, <2>1
<1>o. Goto(h, Rest(h)) => Good /\ Rested(h)
  BY <1>r, <1>g
<1>e. Execute(h, thread[h]) => Good /\ Executes(h, thread[h])
  BY <1>t, ExecuteEffect DEF Executes
<1>u. thread[h].at \in UserLabels => Rest(h) = "over"
  BY SchedulerAssumption DEF TypeInv, RunningOK, Rest
<1> HIDE DEF Good
<1>1. Look(h) => Good /\ At(h, "look") /\ UNCHANGED <<status, timers>>
                 /\ \/ status[My(h)] # "active" /\ Rested(h) /\ UNCHANGED running
                                                     /\ UNCHANGED unscheduled
                    \/ /\ status[My(h)] = "active" /\ My(h) \in Once /\ Sits(h, "mark")
                       /\ UNCHANGED <<running, unscheduled>>
                    \/ status[My(h)] = "active" /\ My(h) \notin Once /\ Executes(h, thread[h])
  BY <1>l, <1>o, <1>e DEF Look
<1>2. Marked(h) => Good /\ At(h, "mark") /\ SetTo(My(h), "disabled") /\ UNCHANGED timers
                   /\ Executes(h, thread[h])
  BY <1>e DEF Marked, Mark, Set, SetTo
<1>3. LookAgain(h) => Good /\ At(h, "again")
                      /\ \/ status[My(h)] # "active" /\ Rested(h)
                         \/ My(h) \in Once /\ Sits(h, "disable")
                         \/ My(h) \notin Once /\ Sits(h, "next")
  <2>1. LookAgain(h) => \/ status[My(h)] # "active" /\ Goto(h, Rest(h))
                        \/ My(h) \in Once /\ Goto(h, "disable")
                        \/ My(h) \notin Once /\ Goto(h, "next")
    BY DEF LookAgain
  <2> QED
    BY <2>1, <1>l, <1>o DEF LookAgain
<1>4. StoreNext(h) \/ Disable(h) => Good /\ Rested(h)
  BY <1>o DEF StoreNext, Disable
<1>5. StorePaused(h) \/ Delete(h) \/ Disposed(h) => Good /\ Rested(h)
  BY <1>o, <1>u DEF StorePaused, Delete, Disposed, UserLabels
<1>6. Activate(h) => Good /\ At(h, "activate") /\ (Sits(h, "reschedule") \/ Sits(h, "renew"))
  BY <1>l DEF Activate
<1>7. Renew(h) => Good /\ At(h, "renew") /\ Sits(h, "reschedule")
  BY <1>l DEF Renew
<1>8. Reschedule(h) => Good /\ At(h, "reschedule") /\ UNCHANGED status
                       /\ \/ /\ status[My(h)] # "active" /\ Rested(h)
                             /\ UNCHANGED <<timers, running, unscheduled>>
                          \/ status[My(h)] = "active" /\ Schedules(h, thread[h])
  <2>1. \A overdue : Schedule(h, thread[h], overdue) => Good /\ Schedules(h, thread[h])
    BY <1>t, ScheduleEffect DEF Good, Schedules
  <2> QED
    BY <1>o, <1>u, <2>1 DEF Reschedule, UserLabels
<1> QED
  BY <1>1, <1>2, <1>3, <1>4, <1>5, <1>6, <1>7, <1>8 DEF Good

\* The calls from outside, and the fired timer.
Starts(h, rec, l) ==
  /\ At(h, "idle") /\ thread' \in [Threads -> ThreadRecords] /\ Moved(h)
  /\ thread'[h] = [rec EXCEPT !.at = l]

LEMMA CallMoves ==
  ASSUME TypeInv, NEW u \in Users, NEW t \in Tasks
  PROVE  /\ Pause(u, t) => Starts(u, Watching(u, t, "pause"), "pausing")
         /\ Cancel(u, t) => Starts(u, Watching(u, t, "cancel"), "deleting")
         /\ Resume(u, t) => Starts(u, Made("resume", t), "activate")
         /\ Create(u, t) => Schedules(u, Made("create", t))
         /\ Trigger(u, t) => Executes(u, Made("trigger", t))
<1>t. /\ TypeOK /\ u \in Threads /\ Rest(u) = "over"
      /\ {running[t]} \ {None} \subseteq Threads
  BY SchedulerAssumption DEF TypeInv, TypeOK, Rest, Threads
<1>1. /\ \A op \in Ways : Made(op, t) \in ThreadRecords
      /\ \A op \in Ways : Watching(u, t, op) \in ThreadRecords
  <2>1. \A op \in Ways : Made(op, t) \in ThreadRecords
    BY DEF Made, Idle, ThreadRecords, Labels
  <2> QED
    BY <1>t, <2>1 DEF Watching, ThreadRecords
<1>2. \A rec \in ThreadRecords, l \in {"pausing", "deleting", "activate"} :
        Go(u, rec, l) /\ At(u, "idle") => Starts(u, rec, l)
  <2>1. \A l \in {"pausing", "deleting", "activate"} : l \in Labels /\ l # "over"
    BY DEF Labels
  <2> QED
    BY <1>t, <2>1, GoEffect DEF Starts
<1>3. {"pause", "cancel", "resume", "create", "trigger"} \subseteq Ways
  BY DEF Ways
<1>4. Pause(u, t) => Starts(u, Watching(u, t, "pause"), "pausing")
  BY <1>1, <1>2, <1>3 DEF Pause, StopTask, May
<1>5. Cancel(u, t) => Starts(u, Watching(u, t, "cancel"), "deleting")
  BY <1>1, <1>2, <1>3 DEF Cancel, StopTask, May
<1>6. Resume(u, t) => Starts(u, Made("resume", t), "activate")
  BY <1>1, <1>2, <1>3 DEF Resume, May
<1>7. Create(u, t) => Schedules(u, Made("create", t))
  BY <1>t, <1>1, <1>3, ScheduleEffect DEF Create
<1>8. Trigger(u, t) => Executes(u, Made("trigger", t))
  BY <1>t, <1>1, <1>3, ExecuteEffect DEF Trigger
<1> QED
  BY <1>4, <1>5, <1>6, <1>7, <1>8

LEMMA FireMoves ==
  ASSUME TypeInv, NEW t \in Tasks, Fire(t)
  PROVE  \E h \in Timers : Starts(h, [Idle EXCEPT !.how = "fire", !.task = t], "look")
<1> DEFINE rec == [Idle EXCEPT !.how = "fire", !.task = t]
           h == CHOOSE g \in Timers : At(g, "idle")
<1>1. h \in Timers /\ At(h, "idle")
  BY DEF Fire
<1>2. h \in Threads /\ h \notin Users /\ Rest(h) \in {"boot", "idle"}
  BY <1>1, SchedulerAssumption DEF Threads, Rest
<1>3. rec \in ThreadRecords /\ "look" \in Labels /\ "look" # Rest(h)
  BY <1>2 DEF Idle, ThreadRecords, Labels, Ways
<1>4. Go(h, rec, "look")
  BY DEF Fire
<1> HIDE DEF rec, h
<1>5. Starts(h, rec, "look")
  BY <1>1, <1>2, <1>3, <1>4, GoEffect DEF TypeInv, Starts
<1> QED
  BY <1>1, <1>5 DEF rec

LEMMA DisposeMoves ==
  ASSUME TypeInv, NEW u \in Users, Dispose(u)
  PROVE  /\ At(u, "idle") /\ thread' \in [Threads -> ThreadRecords] /\ Moved(u)
         /\ At(u, "disposing")' /\ My(u)' = None /\ thread'[u].tries = 0
         /\ thread'[u].how = "dispose"
<1> DEFINE under == {running[t] : t \in {x \in Tasks : Running(x)}}
           rec == [Idle EXCEPT !.how = "dispose", !.on = under]
<1>1. under \subseteq Threads
  BY DEF TypeInv, TypeOK, Running
<1>2. rec \in ThreadRecords
  BY <1>1 DEF Idle, ThreadRecords, Labels, Ways
<1>3. u \in Threads /\ Rest(u) = "over" /\ "disposing" \in Labels
  BY SchedulerAssumption DEF Threads, Rest, Labels
<1>4. Go(u, rec, "disposing") /\ At(u, "idle")
  BY DEF Dispose, May
<1>5. rec.task = None /\ rec.tries = 0 /\ rec.how = "dispose"
  BY DEF Idle
<1> HIDE DEF rec, under
<1>6. /\ thread' \in [Threads -> ThreadRecords] /\ Moved(u)
      /\ thread'[u] = [rec EXCEPT !.at = "disposing"]
  BY <1>2, <1>3, <1>4, GoEffect DEF TypeInv
<1> QED
  BY <1>2, <1>4, <1>5, <1>6 DEF ThreadRecords

LEMMA BootMoves ==
  ASSUME TypeInv
  PROVE  /\ Restore => /\ thread' \in [Threads -> ThreadRecords] /\ Moved(Boot)
                       /\ At(Boot, "idle") /\ Sits(Boot, "boot")
         /\ RestoreNext => \/ /\ todo = {} /\ UNCHANGED <<timers, running, todo, late, unscheduled>>
                             /\ thread' \in [Threads -> ThreadRecords] /\ Moved(Boot)
                             /\ thread'[Boot] = [Idle EXCEPT !.at = "over"]
                          \/ \E t \in todo : todo' = todo \ {t} /\ Schedules(Boot, Made("restore", t))
<1>t. /\ TypeOK /\ Boot \in Threads /\ thread \in [Threads -> ThreadRecords]
      /\ \A t \in Tasks : Made("restore", t) \in ThreadRecords
      /\ [Idle EXCEPT !.at = "over"] \in ThreadRecords /\ todo \subseteq Tasks
  BY DEF TypeInv, TypeOK, Threads, Made, Idle, ThreadRecords, Ways, Labels
<1>1. [thread[Boot] EXCEPT !.at = "boot"] \in ThreadRecords
  BY <1>t DEF ThreadRecords, Labels
<1>2. Restore => /\ thread' \in [Threads -> ThreadRecords] /\ Moved(Boot)
                 /\ At(Boot, "idle") /\ Sits(Boot, "boot")
  BY <1>t, <1>1 DEF Restore, Moved, Sits
<1>3. ASSUME RestoreNext, todo = {}
      PROVE  /\ UNCHANGED <<timers, running, todo, late, unscheduled>>
             /\ thread' \in [Threads -> ThreadRecords] /\ Moved(Boot)
             /\ thread'[Boot] = [Idle EXCEPT !.at = "over"]
  BY <1>t, <1>3 DEF RestoreNext, Moved
<1>4. \A t \in todo : \A o : Schedule(Boot, Made("restore", t), o) => Schedules(Boot, Made("restore", t))
  BY <1>t, ScheduleEffect
<1>5. ASSUME RestoreNext, todo # {}
      PROVE  \E t \in todo : todo' = todo \ {t} /\ Schedules(Boot, Made("restore", t))
  BY <1>4, <1>5 DEF RestoreNext
<1> QED
  BY <1>2, <1>3, <1>5

Free(h) ==
  \/ Look(h) \/ Marked(h) \/ LookAgain(h) \/ StoreNext(h) \/ Disable(h)
  \/ StorePaused(h) \/ Delete(h) \/ Activate(h) \/ Renew(h) \/ Reschedule(h)
  \/ Disposed(h)

LEMMA StepCases ==
  ASSUME [Next]_vars
  PROVE  /\ scene' = scene
         /\ \/ UNCHANGED vars
            \/ \E h \in Threads : Working(h) \/ Close(h) \/ Free(h)
            \/ \E t \in Tasks : Fire(t) \/ Tick(t)
            \/ \E u \in Users : Dispose(u) \/ \E t \in Tasks : Call(u, t)
            \/ Restore \/ RestoreNext \/ Crash
BY DEF Next, vars, Progress, Working, Free

DataOK ==
  /\ status \in [Tasks -> {"new", "active", "paused", "disabled", "gone"}]
  /\ past \cup timers \cup suppress \cup excused \cup unscheduled
       \subseteq scene \cap Tasks
  /\ todo \subseteq scene \cap Tasks /\ late \subseteq todo
  /\ disposing \in {"no", "on", "done"}
  /\ holder \in [{Key} -> Threads \cup {None}]
  /\ wanted \in [{Key} -> SUBSET Threads]
  /\ fires \in 0..MaxFires /\ crashed \in BOOLEAN
  /\ fired \in [Tasks -> Nat]

LEMMA TypeParts ==
  TypeOK /\ RunningOK <=>
    /\ scene \in Scenes /\ running \in [Tasks -> Threads \cup {None}]
    /\ ThreadsOK /\ DataOK /\ RunningOK
BY DEF TypeOK, ThreadsOK, DataOK, RunningOK, RecOK

\* What scheduling a task does to the sets of tasks.
LEMMA ScheduleData ==
  ASSUME NEW h \in Threads, NEW rec,
         Schedules(h, rec) \/ (Executes(h, rec) /\ timers' = timers),
         rec.task \in scene \cap Tasks, DataOK
  PROVE  timers' \cup unscheduled' \subseteq scene \cap Tasks
BY DEF Schedules, Executes, Refused, Registers, DataOK

LEMMA WorkTypes ==
  ASSUME TypeInv, scene' = scene, NEW h \in Threads, Working(h)
  PROVE  TypeInv'
<1>1. Works(h)
  BY WorkEffect DEF TypeInv
<1>0. /\ running \in [Tasks -> Threads \cup {None}] /\ ThreadsOK /\ DataOK /\ RunningOK
      /\ scene \in Scenes
  BY TypeParts DEF TypeInv
<1>2. My(h) \in Tasks /\ thread[h].at \notin Taskless \cup UserLabels
  BY <1>0, <1>1 DEF Works, Executing, RunningOK, Taskless, UserLabels
<1>3. \A g \in Threads : RecOK(g, thread[g])'
  <2> SUFFICES ASSUME NEW g \in Threads PROVE RecOK(g, thread[g])'
    OBVIOUS
  <2>1. CASE g # h
    BY <1>0, <1>1, <2>1 DEF Works, Moved, ThreadsOK, RecOK
  <2>2. CASE g = h
    <3>1. thread'[h] \in ThreadRecords /\ thread'[h].at \notin UserLabels
      BY <1>1 DEF Works, Executing, UserLabels
    <3>2. thread'[h].task = thread[h].task /\ thread[h].task # None
      BY <1>1, <1>2, SchedulerAssumption DEF Works
    <3>3. thread[h].tries \in Nat /\ Retry[thread[h].task] \in Nat
          /\ thread[h].tries <= Retry[thread[h].task]
      BY <1>0, <1>2, <3>2, SchedulerAssumption DEF ThreadsOK, RecOK, ThreadRecords
    <3>4. thread'[h].tries <= Retry[thread[h].task]
      BY <1>1, <3>3 DEF Works, MayRetry
    <3>5. thread[h].task \in scene
      BY <1>0, <3>2 DEF ThreadsOK, RecOK
    <3> QED
      BY <1>2, <2>2, <3>1, <3>2, <3>4, <3>5 DEF RecOK
  <2> QED
    BY <2>1, <2>2
<1>4. \A g \in Threads : (Executing(g) <=> Executing(g)') /\ My(g)' = My(g)
  BY <1>1 DEF Works, Moved, Executing
<1>5. ThreadsOK'
  BY <1>0, <1>1, <1>3, <1>4 DEF ThreadsOK, Works
<1>6. RunningOK'
  <2>1. UNCHANGED <<running, status>>
    BY <1>1 DEF Works, Quietly
  <2>2. \A g \in Threads : /\ thread'[g].at \notin Taskless => My(g)' \in Tasks
                           /\ thread'[g].at \in UserLabels => g \in Users
    BY <1>3 DEF RecOK
  <2> QED
    BY <1>0, <1>4, <2>1, <2>2 DEF RunningOK
<1>7. DataOK'
  <2>1. UNCHANGED <<status, past, timers, suppress, excused, unscheduled, todo, late,
                    disposing, fires, crashed>>
    BY <1>1 DEF Works, Quietly
  <2>2. fired' \in [Tasks -> Nat]
    BY <1>0, <1>1 DEF Works, DataOK
  <2>3. \/ UNCHANGED <<holder, wanted>>
        \/ Lease!Take(h, Key) \/ Lease!Ask(h, Key) \/ Lease!Withdraw(h, Key)
        \/ Lease!Leave(Key) \/ Lease!PassOn(Key)
    BY DEF Working, Recorded, Enter, Wait, GiveUp, Lookup, Attempt, TimeLimit, Interrupt, Answer,
       Fail, GiveBack
  <2>4. holder' \in [{Key} -> Threads \cup {None}] /\ wanted' \in [{Key} -> SUBSET Threads]
    BY <1>0, <2>3 DEF DataOK, Lease!Take, Lease!Ask, Lease!Withdraw, Lease!Leave, Lease!PassOn
  <2> QED
    BY <1>0, <2>1, <2>2, <2>4 DEF DataOK
<1> QED
  BY <1>0, <1>1, <1>5, <1>6, <1>7, TypeParts DEF Works, Quietly, TypeInv, TypeOK, ThreadsOK, DataOK, RecOK

LEMMA CloseTypes ==
  ASSUME TypeInv, scene' = scene, NEW h \in Threads, Close(h)
  PROVE  TypeInv'
<1>0. /\ running \in [Tasks -> Threads \cup {None}] /\ ThreadsOK /\ DataOK /\ RunningOK
      /\ scene \in Scenes
  BY TypeParts DEF TypeInv
<1>1. Closes(h)
  BY CloseEffect DEF TypeInv
<1>2. My(h) \in Tasks /\ Executing(h)
  BY <1>0, <1>1 DEF Closes, Executing, RunningOK, Taskless
<1>3. \A g \in Threads \ {h} :
        /\ thread'[g].at = thread[g].at /\ My(g)' = My(g) /\ thread'[g].tries = thread[g].tries
        /\ (Executing(g) <=> Executing(g)')
  BY <1>0, <1>1 DEF Closes, ThreadsOK, ThreadRecords, Executing
<1>4. RecOK(h, thread[h])'
  <2>1. thread'[h] \in ThreadRecords
    BY <1>1 DEF Closes
  <2>2. CASE Rested(h)
    BY <2>1, <2>2, SchedulerAssumption DEF RecOK, Rested, Idle, Rest, Taskless, UserLabels
  <2>3. CASE /\ thread'[h] = [thread[h] EXCEPT !.tries = 0, !.at = NextOf(h)]
             /\ NextOf(h) \in {"again", "next"}
    <3>1. /\ thread'[h].tries = 0 /\ thread'[h].at \in {"again", "next"}
          /\ thread'[h].task = thread[h].task
      BY <1>0, <2>3 DEF ThreadsOK, ThreadRecords
    <3>2. thread[h].task \in scene /\ thread[h].task # None /\ Retry[thread[h].task] \in Nat
      BY <1>0, <1>2, SchedulerAssumption DEF ThreadsOK, RecOK
    <3> QED
      BY <1>2, <2>1, <3>1, <3>2 DEF RecOK, UserLabels
  <2> QED
    BY <1>1, <2>2, <2>3 DEF Closes
<1>5. \A g \in Threads : RecOK(g, thread[g])'
  <2> SUFFICES ASSUME NEW g \in Threads, g # h PROVE RecOK(g, thread[g])'
    BY <1>4
  <2> QED
    BY <1>0, <1>1, <1>3 DEF Closes, ThreadsOK, RecOK
<1>6. ThreadsOK'
  BY <1>0, <1>1, <1>3, <1>5 DEF ThreadsOK, Closes
<1>7. running' \in [Tasks -> Threads \cup {None}]
  BY <1>0, <1>1 DEF Closes
<1>8. RunningOK'
  <2>1. \A t \in Tasks : running'[t] # None => running[t] = running'[t] /\ running'[t] # h
    BY <1>0, <1>1, <1>2 DEF Closes, RunningOK
  <2>2. \A t \in Tasks : running'[t] # None =>
          (Executing(running[t]) /\ My(running[t]) = t)'
    <3> SUFFICES ASSUME NEW t \in Tasks, running'[t] # None
                 PROVE  (Executing(running[t]) /\ My(running[t]) = t)'
      OBVIOUS
    <3>1. PICK g \in Threads \ {h} : running[t] = g /\ running'[t] = g
      BY <1>0, <2>1
    <3>2. Executing(g)' /\ My(g)' = t
      BY <1>0, <1>3, <2>1, <3>1 DEF RunningOK
    <3> QED
      BY <3>1, <3>2
  <2>3. status' = status
    BY <1>1 DEF Closes
  <2> QED
    BY <1>0, <1>5, <2>2, <2>3 DEF RunningOK, RecOK
<1>9. DataOK'
  <2>1. /\ UNCHANGED <<status, past, timers, excused, unscheduled, todo, late, disposing,
                      fires, crashed, fired>>
        /\ suppress' \subseteq suppress
    BY <1>1 DEF Closes
  <2>2. \/ UNCHANGED <<holder, wanted>>
        \/ Lease!Leave(Key) \/ Lease!PassOn(Key)
    BY DEF Close, GiveBack
  <2>3. holder' \in [{Key} -> Threads \cup {None}] /\ wanted' \in [{Key} -> SUBSET Threads]
    BY <1>0, <2>2 DEF DataOK, Lease!Leave, Lease!PassOn
  <2> QED
    BY <1>0, <2>1, <2>3 DEF DataOK
<1> QED
  BY <1>0, <1>6, <1>7, <1>8, <1>9, TypeParts DEF TypeInv, TypeOK, ThreadsOK, DataOK, RecOK

\* Records that calls begin with, or rest with.
LEMMA RecFacts ==
  ASSUME TypeInv, NEW h \in Threads
  PROVE  /\ Rested(h) => RecOK(h, thread'[h])
         /\ \A rec, l : /\ RecOK(h, rec) /\ l \in Labels /\ (l \in UserLabels => h \in Users)
                         /\ rec.task \in Tasks
                       => RecOK(h, [rec EXCEPT !.at = l])
         /\ \A op \in Ways, t \in Tasks \cap scene : RecOK(h, Made(op, t)) /\ Made(op, t).task = t
         /\ [Idle EXCEPT !.at = "over"] \in ThreadRecords
         /\ RecOK(h, [Idle EXCEPT !.at = "over"])
<1>1. \A l \in {"boot", "over", "idle"} : RecOK(h, [Idle EXCEPT !.at = l])
  BY DEF RecOK, Idle, ThreadRecords, Ways, Labels, Taskless, UserLabels
<1>2. Rest(h) \in {"boot", "over", "idle"}
  BY DEF Rest
<1>3. \A rec, l : /\ RecOK(h, rec) /\ l \in Labels /\ (l \in UserLabels => h \in Users)
                  /\ rec.task \in Tasks
               => RecOK(h, [rec EXCEPT !.at = l])
  BY DEF RecOK, ThreadRecords
<1>4. \A op \in Ways, t \in Tasks \cap scene : RecOK(h, Made(op, t)) /\ Made(op, t).task = t
  <2> TAKE op \in Ways, t \in Tasks \cap scene
  <2>1. t # None /\ Retry[t] \in Nat
    BY SchedulerAssumption
  <2>2. /\ Made(op, t).at = "idle" /\ Made(op, t).task = t /\ Made(op, t).tries = 0
    BY DEF Made, Idle
  <2>3. Made(op, t) \in ThreadRecords
    BY DEF Made, Idle, ThreadRecords, Labels
  <2> QED
    BY <2>1, <2>2, <2>3 DEF RecOK, Taskless, UserLabels
<1> QED
  BY <1>1, <1>2, <1>3, <1>4 DEF Rested, RecOK

\* What executing and scheduling leave is what FreeStep needs.
LEMMA ExecutesFits ==
  ASSUME TypeInv, NEW h \in Threads, NEW rec, RecOK(h, rec), rec.task \in Tasks,
         Executes(h, rec)
  PROVE  /\ RecOK(h, thread'[h])
         /\ running' = running \/ \E k : RecOK(h, k) /\ Registers(h, k)
<1>1. {"again", "record"} \subseteq Labels \ UserLabels
  BY DEF Labels, UserLabels
<1> QED
  BY <1>1, RecFacts DEF Executes, Refused, Registers

LEMMA SchedulesFits ==
  ASSUME TypeInv, NEW h \in Threads, NEW rec, RecOK(h, rec), rec.task \in Tasks,
         Schedules(h, rec)
  PROVE  /\ RecOK(h, thread'[h])
         /\ running' = running \/ \E k : RecOK(h, k) /\ Registers(h, k)
<1>1. {"next", "mark", "disable"} \subseteq Labels \ UserLabels
  BY DEF Labels, UserLabels
<1> QED
  BY <1>1, RecFacts, ExecutesFits DEF Schedules

LEMMA FreeTypes ==
  ASSUME TypeInv, scene' = scene, NEW h \in Threads, Free(h)
  PROVE  TypeInv'
<1>0. /\ running \in [Tasks -> Threads \cup {None}] /\ ThreadsOK /\ DataOK /\ RunningOK
      /\ scene \in Scenes
  BY TypeParts DEF TypeInv
<1>r. RecOK(h, thread[h])
  BY <1>0 DEF ThreadsOK
<1>u. {"mark", "disable", "next"} \subseteq Labels \ UserLabels /\ UserLabels \subseteq Labels
  BY DEF Labels, UserLabels
<1>n. ~Executing(h)
  BY DEF Free, Look, Marked, LookAgain, StoreNext, Disable, StorePaused, Delete, Activate, Renew,
     Reschedule, Disposed, Executing
<1>k. At(h, "disposing") \/ My(h) \in Tasks \cap scene
  <2>1. At(h, "disposing") \/ thread[h].at \notin Taskless
    BY DEF Free, Look, Marked, LookAgain, StoreNext, Disable, StorePaused, Delete, Activate, Renew,
       Reschedule, Disposed, Taskless
  <2> QED
    BY <1>r, <2>1, SchedulerAssumption DEF RecOK
<1>1. thread' \in [Threads -> ThreadRecords] /\ Moved(h)
  BY Moves DEF Free
<1>2. \A t \in Tasks : t \notin scene => status'[t] = status[t]
  BY <1>0, <1>k, Moves DEF Free, Look, SetTo, LookAgain, StoreNext, Disable, StorePaused, Delete,
     Activate, Renew, Set, Marked, Mark, Reschedule, Disposed, DataOK
<1>3. aborted' = aborted
  BY DEF Free, Look, Marked, LookAgain, StoreNext, Disable, StorePaused, Delete, Activate, Renew,
     Reschedule, Disposed
<1>4. /\ RecOK(h, thread'[h])
      /\ \/ running' = running
         \/ running' = [t \in Tasks |-> None]
         \/ \E rec : RecOK(h, rec) /\ Registers(h, rec)
  <2>1. \A l \in {"mark", "disable", "next", "reschedule", "renew"} :
          /\ Sits(h, l) /\ My(h) \in Tasks
          /\ l \in {"reschedule", "renew"} => thread[h].at \in UserLabels
          => RecOK(h, thread'[h])
    BY <1>r, <1>u, RecFacts DEF Sits, RecOK, UserLabels
  <2>2. CASE Look(h)
    BY <1>r, <1>k, <2>1, <2>2, Moves, RecFacts, ExecutesFits DEF Look
  <2>3. CASE Marked(h)
    BY <1>r, <1>k, <2>3, Moves, ExecutesFits DEF Marked
  <2>4. CASE LookAgain(h)
    BY <1>k, <2>1, <2>4, Moves, RecFacts DEF LookAgain
  <2>5. CASE StoreNext(h) \/ Disable(h) \/ StorePaused(h) \/ Delete(h) \/ Disposed(h)
    BY <2>5, Moves, RecFacts DEF StoreNext, Disable, StorePaused, Delete, Disposed
  <2>6. CASE Activate(h) \/ Renew(h)
    BY <1>k, <2>1, <2>6, Moves DEF Activate, Renew, UserLabels
  <2>7. CASE Reschedule(h)
    BY <1>r, <1>k, <2>7, Moves, RecFacts, SchedulesFits DEF Reschedule
  <2> QED
    BY <2>2, <2>3, <2>4, <2>5, <2>6, <2>7 DEF Free
<1>5. ThreadsOK' /\ RunningOK' /\ running' \in [Tasks -> Threads \cup {None}]
  BY <1>1, <1>2, <1>3, <1>4, <1>n, FreeStep
<1>6. DataOK'
  <2>1. timers' \cup unscheduled' \subseteq scene \cap Tasks
    <3>1. CASE Look(h) \/ Marked(h) \/ Reschedule(h)
      BY <1>0, <1>k, <3>1, Moves, ScheduleData DEF Look, Marked, Reschedule, DataOK
    <3>2. CASE StoreNext(h)
      BY <1>0, <1>k, <3>2 DEF StoreNext, SetTimer, DataOK
    <3>3. CASE ~(Look(h) \/ Marked(h) \/ Reschedule(h) \/ StoreNext(h))
      BY <1>0, <3>3 DEF Free, LookAgain, Disable, StorePaused, Delete, Activate, Renew, Disposed,
         DataOK
    <3> QED
      BY <3>1, <3>2, <3>3
  <2>2. /\ past' \subseteq past /\ suppress' \subseteq suppress
        /\ UNCHANGED <<excused, todo, late, holder, wanted, fires, crashed, fired>>
        /\ disposing' \in {"no", "on", "done"}
    BY <1>0 DEF Free, Look, Marked, LookAgain, StoreNext, Disable, StorePaused, Delete, Activate, Renew,
       Reschedule, Disposed, DataOK
  <2>3. status' \in [Tasks -> {"new", "active", "paused", "disabled", "gone"}]
    BY <1>0 DEF Free, Look, Marked, Mark, LookAgain, StoreNext, Disable, StorePaused, Delete,
       Activate, Renew, Reschedule, Disposed, Set, DataOK
  <2> QED
    BY <1>0, <2>1, <2>2, <2>3 DEF DataOK
<1> QED
  BY <1>0, <1>5, <1>6, TypeParts DEF TypeInv, TypeOK, ThreadsOK, DataOK, RecOK

LEMMA CallTypes ==
  ASSUME TypeInv, scene' = scene, NEW u \in Users, NEW t \in Tasks, Call(u, t)
  PROVE  TypeInv'
<1>0. /\ running \in [Tasks -> Threads \cup {None}] /\ ThreadsOK /\ DataOK /\ RunningOK
      /\ scene \in Scenes
  BY TypeParts DEF TypeInv
<1>h. u \in Threads
  BY DEF Threads
<1>k. t \in scene
  BY <1>0 DEF RunningOK, Call, Pause, Cancel, Resume, Create, Trigger, Exists
<1>m. \A op \in Ways : RecOK(u, Made(op, t)) /\ Made(op, t).task = t
  BY <1>h, <1>k, RecFacts
<1>w. {"pause", "cancel", "resume", "create", "trigger"} \subseteq Ways
  BY DEF Ways
<1>l. {"pausing", "deleting", "activate"} \subseteq Labels
  BY DEF Labels
<1>n. At(u, "idle") /\ ~Executing(u)
  BY DEF Call, Pause, Cancel, Resume, Create, Trigger, May, Executing
<1>1. /\ thread' \in [Threads -> ThreadRecords] /\ Moved(u) /\ RecOK(u, thread'[u])
      /\ \/ running' = running
         \/ \E rec : RecOK(u, rec) /\ Registers(u, rec)
  <2>1. CASE Pause(u, t) \/ Cancel(u, t)
    <3>1. \A op \in Ways : RecOK(u, Watching(u, t, op)) /\ Watching(u, t, op).task = t
      <4> TAKE op \in Ways
      <4>1. Made(op, t) \in ThreadRecords /\ {running[t]} \ {None} \subseteq Threads
        BY <1>0, <1>m DEF RecOK
      <4>2. /\ Watching(u, t, op) \in ThreadRecords /\ Watching(u, t, op).at = Made(op, t).at
            /\ Watching(u, t, op).task = Made(op, t).task
            /\ Watching(u, t, op).tries = Made(op, t).tries
        BY <4>1 DEF Watching, ThreadRecords
      <4> QED
        BY <1>m, <4>2 DEF RecOK
    <3>2. running' = running
      BY <2>1 DEF Pause, Cancel, StopTask
    <3>3. \E rec, l : /\ Starts(u, rec, l) /\ RecOK(u, rec) /\ rec.task \in Tasks
                      /\ l \in {"pausing", "deleting"}
      BY <1>w, <2>1, <3>1, CallMoves
    <3>4. PICK k, l : /\ Starts(u, k, l) /\ RecOK(u, k) /\ k.task \in Tasks
                        /\ l \in {"pausing", "deleting"}
      BY <3>3
    <3>5. RecOK(u, [k EXCEPT !.at = l])
      BY <1>h, <1>l, <3>4, RecFacts
    <3>6. /\ thread' \in [Threads -> ThreadRecords] /\ Moved(u)
          /\ thread'[u] = [k EXCEPT !.at = l]
      BY <3>4 DEF Starts
    <3>7. RecOK(u, thread'[u])
      BY <3>5, <3>6 DEF RecOK
    <3> QED
      BY <3>2, <3>6, <3>7
  <2>2. CASE Resume(u, t)
    <3>1. Starts(u, Made("resume", t), "activate") /\ running' = running
      BY <2>2, CallMoves DEF Resume
    <3>2. RecOK(u, Made("resume", t)) /\ Made("resume", t).task = t
      BY <1>m, <1>w
    <3>3. RecOK(u, [Made("resume", t) EXCEPT !.at = "activate"])
      BY <1>h, <1>l, <3>2, RecFacts
    <3> QED
      BY <3>1, <3>3 DEF Starts, RecOK
  <2>3. CASE Create(u, t)
    BY <1>h, <1>w, <1>m, <2>3, CallMoves, SchedulesFits DEF Schedules
  <2>4. CASE Trigger(u, t)
    BY <1>h, <1>w, <1>m, <2>4, CallMoves, ExecutesFits DEF Executes
  <2> QED
    BY <2>1, <2>2, <2>3, <2>4 DEF Call
<1>2. aborted' \subseteq aborted \cup ({running[x] : x \in Tasks} \ {None})
  BY SchedulerAssumption DEF Call, Pause, Cancel, StopTask, Resume, Create, Trigger, Running
<1>3. \A x \in Tasks : x \notin scene => status'[x] = status[x]
  BY <1>0, <1>k DEF Call, Pause, Cancel, StopTask, Resume, Create, Trigger, DataOK
<1>4. ThreadsOK' /\ RunningOK' /\ running' \in [Tasks -> Threads \cup {None}]
  BY <1>h, <1>n, <1>1, <1>2, <1>3, FreeStep
<1>5. DataOK'
  <2>1. CASE Pause(u, t) \/ Cancel(u, t)
    BY <1>0, <1>k, <2>1 DEF Pause, Cancel, StopTask, DataOK
  <2>2. CASE Resume(u, t)
    BY <1>0, <1>k, <2>2 DEF Resume, DataOK
  <2>3. CASE Create(u, t)
    <3>1. timers' \cup unscheduled' \subseteq scene \cap Tasks
      BY <1>0, <1>h, <1>k, <1>m, <1>w, <2>3, CallMoves, ScheduleData
    <3>2. status' \in [Tasks -> {"new", "active", "paused", "disabled", "gone"}]
          /\ past' \subseteq scene \cap Tasks
      BY <1>0, <1>k, <2>3 DEF Create, DataOK
    <3> QED
      BY <1>0, <2>3, <3>1, <3>2 DEF Create, DataOK
  <2>4. CASE Trigger(u, t)
    <3>1. timers' \cup unscheduled' \subseteq scene \cap Tasks
      BY <1>0, <1>h, <1>k, <1>m, <1>w, <2>4, CallMoves, ScheduleData DEF Trigger
    <3> QED
      BY <1>0, <2>4, <3>1 DEF Trigger, DataOK
  <2> QED
    BY <2>1, <2>2, <2>3, <2>4 DEF Call
<1> QED
  BY <1>0, <1>4, <1>5, TypeParts DEF TypeInv, TypeOK, ThreadsOK, DataOK, RecOK

LEMMA OtherTypes ==
  ASSUME TypeInv, scene' = scene,
         \/ \E t \in Tasks : Fire(t) \/ Tick(t)
         \/ \E u \in Users : Dispose(u)
         \/ Restore \/ RestoreNext \/ Crash
  PROVE  TypeInv'
<1>0. /\ running \in [Tasks -> Threads \cup {None}] /\ ThreadsOK /\ DataOK /\ RunningOK
      /\ scene \in Scenes
  BY TypeParts DEF TypeInv
<1> DEFINE Parts == ThreadsOK' /\ RunningOK' /\ running' \in [Tasks -> Threads \cup {None}]
<1>q. Parts /\ DataOK' => TypeInv'
  BY <1>0, TypeParts DEF TypeInv, TypeOK, ThreadsOK, DataOK, RecOK
<1> HIDE DEF Parts
<1>1. ASSUME NEW t \in Tasks, Tick(t) PROVE TypeInv'
  <2>1. Parts
    BY <1>0, <1>1 DEF Parts, Tick, ThreadsOK, RunningOK, RecOK, Executing
  <2>2. t \in scene
    BY <1>0, <1>1 DEF Tick, RunningOK, Exists
  <2>3. DataOK'
    BY <1>0, <1>1, <2>2 DEF Tick, DataOK
  <2> QED
    BY <1>q, <2>1, <2>3
<1>2. ASSUME NEW t \in Tasks, Fire(t) PROVE TypeInv'
  <2>1. PICK h \in Timers : Starts(h, [Idle EXCEPT !.how = "fire", !.task = t], "look")
    BY <1>2, FireMoves
  <2>2. h \in Threads /\ t \in scene /\ t # None /\ Retry[t] \in Nat
    BY <1>0, <1>2, SchedulerAssumption DEF Threads, Fire, DataOK
  <2>3. RecOK(h, thread'[h])
    <3>1. /\ thread'[h] \in ThreadRecords /\ thread'[h].at = "look" /\ thread'[h].task = t
          /\ thread'[h].tries = 0
      BY <2>1, <2>2 DEF Starts, Idle
    <3> QED
      BY <2>2, <3>1 DEF RecOK, UserLabels
  <2>4. UNCHANGED <<running, aborted, status>>
    BY <1>2 DEF Fire
  <2>5. Parts
    BY <2>1, <2>2, <2>3, <2>4, FreeStep DEF Parts, Starts, Executing
  <2>6. DataOK'
    <3>1. fires' \in 0..MaxFires
      <4>1. MaxFires \in Nat /\ fires \in 0..MaxFires /\ fires < MaxFires /\ fires' = fires + 1
        BY <1>0, <1>2, SchedulerAssumption DEF Fire, DataOK
      <4> QED
        BY <4>1
    <3>2. /\ past' \cup timers' \subseteq scene \cap Tasks /\ late' \subseteq todo
          /\ UNCHANGED <<status, suppress, excused, unscheduled, todo, disposing, holder, wanted,
                        crashed, fired>>
      BY <1>0, <1>2, <2>2 DEF Fire, DataOK
    <3> QED
      BY <1>0, <3>1, <3>2 DEF DataOK
  <2> QED
    BY <1>q, <2>5, <2>6
<1>3. ASSUME NEW u \in Users, Dispose(u) PROVE TypeInv'
  <2>1. u \in Threads
    BY DEF Threads
  <2>2. RecOK(u, thread'[u])
    BY <1>3, <2>1, DisposeMoves DEF RecOK, Taskless
  <2>3. /\ UNCHANGED <<running, status>>
        /\ aborted' \subseteq aborted \cup ({running[t] : t \in Tasks} \ {None})
    BY <1>3 DEF Dispose, Running
  <2>4. Parts
    BY <1>3, <2>1, <2>2, <2>3, FreeStep, DisposeMoves DEF Parts, Executing
  <2>5. suppress' \subseteq scene \cap Tasks
    <3>1. \A t \in Tasks : Running(t) => t \in scene
      BY <1>0, SchedulerAssumption DEF RunningOK, ThreadsOK, RecOK, Running
    <3> QED
      BY <1>0, <1>3, <3>1 DEF Dispose, DataOK
  <2>6. DataOK'
    BY <1>0, <1>3, <2>5 DEF Dispose, DataOK
  <2> QED
    BY <1>q, <2>4, <2>6
<1>4. CASE Restore
  <2>1. Boot \in Threads /\ RecOK(Boot, thread'[Boot])
    <3>1. Boot \in Threads /\ RecOK(Boot, thread[Boot]) /\ "boot" \in Labels
      BY <1>0 DEF Threads, ThreadsOK, Labels
    <3> QED
      BY <1>4, <3>1, BootMoves DEF RecOK, Sits, ThreadRecords, Taskless, UserLabels
  <2>2. UNCHANGED <<running, status, aborted>>
    BY <1>4 DEF Restore
  <2>3. Parts
    BY <1>4, <2>1, <2>2, FreeStep, BootMoves DEF Parts, Executing
  <2>4. excused' \subseteq scene \cap Tasks
    <3>1. \A h \in Threads : My(h) \in (scene \cap Tasks) \cup {None}
      BY <1>0 DEF ThreadsOK, RecOK, ThreadRecords
    <3> QED
      BY <1>0, <1>4, <3>1 DEF Restore, DataOK
  <2>5. todo' \subseteq scene \cap Tasks /\ late' \subseteq todo'
    BY <1>0, <1>4 DEF Restore, RunningOK
  <2>6. DataOK'
    BY <1>0, <1>4, <2>4, <2>5 DEF Restore, DataOK
  <2> QED
    BY <1>q, <2>3, <2>6
<1>5. CASE RestoreNext
  <2>1. Boot \in Threads /\ "restore" \in Ways /\ ~Executing(Boot)
    BY <1>5 DEF Threads, Ways, RestoreNext, Executing
  <2>2. UNCHANGED <<status, aborted, past, suppress, disposing, holder, wanted, fires, crashed,
                    fired, excused>>
    BY <1>5 DEF RestoreNext
  <2>3. late' \subseteq todo' /\ todo' \subseteq todo
    BY <1>0, <1>5 DEF RestoreNext, DataOK
  <2>4. CASE thread'[Boot] = [Idle EXCEPT !.at = "over"] /\ UNCHANGED <<timers, running, unscheduled>>
             /\ thread' \in [Threads -> ThreadRecords] /\ Moved(Boot)
    <3>1. Parts
      BY <2>1, <2>2, <2>4, RecFacts, FreeStep DEF Parts
    <3>2. DataOK'
      BY <1>0, <2>2, <2>3, <2>4 DEF DataOK
    <3> QED
      BY <1>q, <3>1, <3>2
  <2>5. ASSUME NEW t \in todo, Schedules(Boot, Made("restore", t))
        PROVE  TypeInv'
    <3>1. t \in scene \cap Tasks /\ RecOK(Boot, Made("restore", t)) /\ Made("restore", t).task = t
      BY <1>0, <2>1, RecFacts DEF DataOK
    <3>2. RecOK(Boot, thread'[Boot])
          /\ (running' = running \/ \E k : RecOK(Boot, k) /\ Registers(Boot, k))
      BY <2>1, <2>5, <3>1, SchedulesFits
    <3>3. Parts
      BY <2>1, <2>2, <2>5, <3>2, FreeStep DEF Parts, Schedules
    <3>4. timers' \cup unscheduled' \subseteq scene \cap Tasks
      BY <1>0, <2>1, <2>5, <3>1, ScheduleData
    <3>5. DataOK'
      BY <1>0, <2>2, <2>3, <3>4 DEF DataOK
    <3> QED
      BY <1>q, <3>3, <3>5
  <2> QED
    BY <1>5, <2>4, <2>5, BootMoves
<1>6. CASE Crash
  <2>1. \A h \in Threads : thread'[h] = [Idle EXCEPT !.at = "over"] \/ thread'[h] = Idle
    BY <1>6 DEF Crash
  <2>2. \A h \in Threads : RecOK(h, Idle) /\ RecOK(h, [Idle EXCEPT !.at = "over"])
    BY DEF RecOK, Idle, ThreadRecords, Labels, Ways, Taskless, UserLabels
  <2>3. thread' \in [Threads -> ThreadRecords]
    <3>1. \A h \in Threads : thread'[h] \in ThreadRecords
      BY <2>1, <2>2 DEF RecOK
    <3> QED
      BY <1>6, <3>1 DEF Crash
  <2>4. running' = [t \in Tasks |-> None] /\ aborted' = {} /\ status' = status
    BY <1>6 DEF Crash
  <2>5. ThreadsOK' /\ RunningOK'
    BY <1>0, <2>1, <2>2, <2>3, <2>4 DEF ThreadsOK, RunningOK, RecOK
  <2>6. past' \subseteq scene \cap Tasks
    BY <1>0, <1>6 DEF Crash, DataOK, RunningOK, Exists
  <2>7. DataOK'
    BY <1>0, <1>6, <2>6 DEF Crash, DataOK
  <2> QED
    BY <1>q, <2>4, <2>5, <2>7 DEF Parts
<1> QED
  BY <1>1, <1>2, <1>3, <1>4, <1>5, <1>6

LEMMA TypeStep == TypeInv /\ [Next]_vars => TypeInv'
<1> SUFFICES ASSUME TypeInv, [Next]_vars PROVE TypeInv'
  OBVIOUS
<1>1. CASE UNCHANGED vars
  BY <1>1 DEF vars, TypeInv, TypeOK, RunningOK, Executing
<1> QED
  BY <1>1, StepCases, WorkTypes, CloseTypes, FreeTypes, CallTypes, OtherTypes

-----------------------------------------------------------------------------
(* What a call is after executeTask or scheduleTask.                        *)

LEMMA AfterExecutes ==
  ASSUME NEW h \in Threads, NEW rec \in ThreadRecords, Executes(h, rec)
  PROVE  /\ unscheduled \subseteq unscheduled'
         /\ \/ /\ thread'[h].at \in {"again", "record"}
               /\ thread'[h].how = rec.how /\ My(h)' = rec.task
               /\ At(h, "again")' => rec.how = "fire"
            \/ thread'[h].at \in {"boot", "over", "idle"} /\ Rested(h)
         /\ rec.how \in {"restore", "create", "resume"} =>
              At(h, "record")' \/ rec.task \in unscheduled'
         /\ rec.how = "fire" => ~Rested(h) \/ Suppressed(My(h))
<1>r. Rest(h) \in {"boot", "over", "idle"}
  BY DEF Rest
<1>1. \A l \in Labels : [rec EXCEPT !.at = l].at = l /\ [rec EXCEPT !.at = l].how = rec.how
                       /\ [rec EXCEPT !.at = l].task = rec.task
  BY DEF ThreadRecords
<1>2. {"again", "record"} \subseteq Labels
  BY DEF Labels
<1>3. Rested(h) => thread'[h].at = Rest(h)
  BY DEF Rested, Idle
<1>4. CASE Refused(h, rec)
  <2>1. CASE thread'[h] = [rec EXCEPT !.at = "again"] /\ rec.how = "fire" /\ unscheduled' = unscheduled
    BY <1>r, <1>1, <1>2, <1>3, <2>1
  <2>2. CASE /\ Rested(h)
             /\ \/ rec.how = "fire" /\ unscheduled' = unscheduled /\ Suppressed(My(h))
                \/ rec.how = "trigger" /\ unscheduled' = unscheduled
                \/ rec.how # "fire" /\ unscheduled' = unscheduled \cup {rec.task}
    BY <1>r, <1>3, <2>2
  <2> QED
    BY <1>4, <2>1, <2>2 DEF Refused
<1>5. CASE Registers(h, rec)
  BY <1>r, <1>1, <1>2, <1>3, <1>5 DEF Registers
<1> QED
  BY <1>4, <1>5 DEF Executes

LEMMA AfterSchedules ==
  ASSUME NEW h \in Threads, NEW rec \in ThreadRecords, Schedules(h, rec)
  PROVE  /\ timers \subseteq timers' /\ unscheduled \subseteq unscheduled'
         /\ timers' \subseteq timers \cup {rec.task}
         /\ \/ /\ thread'[h].at \in {"again", "record", "next", "mark", "disable"}
               /\ thread'[h].how = rec.how /\ My(h)' = rec.task /\ timers' = timers
            \/ thread'[h].at \in {"boot", "over", "idle"} /\ Rested(h)
         /\ At(h, "next")' => rec.task \notin Once
         /\ At(h, "record")' => rec.task \notin Once
         /\ rec.how \in {"restore", "create", "resume"} =>
              \/ rec.task \in timers' \cup unscheduled'
              \/ thread'[h].at \in {"next", "mark", "disable", "record"} /\ ~Rested(h)
<1>r. Rest(h) \in {"boot", "over", "idle"}
  BY DEF Rest
<1>3. Rested(h) => thread'[h].at = Rest(h)
  BY DEF Rested, Idle
<1>1. CASE timers' = timers \cup {rec.task} /\ Rested(h) /\ unscheduled' = unscheduled
  BY <1>r, <1>1, <1>3
<1>2. CASE rec.task \notin Once /\ timers' = timers /\ Executes(h, rec)
  BY <1>r, <1>2, <1>3, AfterExecutes
<1>4. ASSUME timers' = timers, unscheduled' = unscheduled, NEW l \in {"next", "mark", "disable"},
             thread'[h] = [rec EXCEPT !.at = l], l = "next" <=> rec.task \notin Once
      PROVE  /\ thread'[h].at = l /\ thread'[h].how = rec.how /\ My(h)' = rec.task /\ ~Rested(h)
             /\ At(h, "next")' => rec.task \notin Once
             /\ ~At(h, "record")'
  <2>1. thread'[h].at = l /\ thread'[h].how = rec.how /\ My(h)' = rec.task
    BY <1>4 DEF ThreadRecords
  <2> QED
    BY <1>r, <1>3, <1>4, <2>1
<1> QED
  BY <1>1, <1>2, <1>4 DEF Schedules

-----------------------------------------------------------------------------
(* One chance.                                                             *)

\* A step that gives t no chance, and makes no active task of it.
Calm(t) ==
  /\ fired'[t] = fired[t]
  /\ t \in timers' => t \in timers
  /\ t \in todo' => t \in todo
  /\ status'[t] = status[t] \/ status'[t] \notin {"new", "active"}

LEMMA Harmless ==
  ASSUME NEW t \in Tasks, Single(t), Calm(t),
         \A h \in Threads : /\ Chance(h, t)' => Chance(h, t)
                            /\ Due(h, t)' => Due(h, t) \/ status'[t] # "active"
  PROVE  Single(t)'
BY DEF Single, Calm

LEMMA HarmlessMove ==
  ASSUME NEW t \in Tasks, Single(t), Calm(t), NEW h \in Threads, Moved(h),
         Chance(h, t)' => Chance(h, t),
         Due(h, t)' => Due(h, t) \/ status'[t] # "active"
  PROVE  Single(t)'
<1>1. \A g \in Threads \ {h} : (Chance(g, t)' => Chance(g, t)) /\ (Due(g, t)' => Due(g, t))
  BY DEF Moved, Chance, Due, Unasked
<1> QED
  BY <1>1, Harmless

\* The one chance that t had becomes the call of h, or a timer.
LEMMA ChancePassed ==
  ASSUME NEW t \in Tasks, NEW h \in Threads, Moved(h), Single(t),
         status[t] = "new" \/ t \in timers \/ t \in todo,
         fired' = fired, ~Due(h, t)', status'[t] # "new", t \notin todo',
         Chance(h, t)' => t \notin timers'
  PROVE  Single(t)'
<1>1. \A g \in Threads \ {h} : ~Chance(g, t)' /\ ~Due(g, t)'
  BY DEF Single, Moved, Chance, Due, Unasked
<1> QED
  BY <1>1 DEF Single

LEMMA OtherCalls ==
  ASSUME CallsOK, excused \subseteq excused', NEW h \in Threads, Moved(h), CallOK(h)'
  PROVE  CallsOK'
BY DEF CallsOK, CallOK, Moved

LEMMA ExcusedGrows ==
  ASSUME TypeInv, [Next]_vars
  PROVE  excused \subseteq excused'
<1>1. CASE \E h \in Threads : Working(h) \/ Close(h) \/ Free(h)
  BY <1>1 DEF Working, Free, Recorded, Enter, Wait, GiveUp, Lookup, Attempt, TimeLimit, Interrupt,
     Answer, Quietly, Close, Look, Marked, LookAgain, StoreNext, Disable, StorePaused, Delete,
     Activate, Renew, Reschedule, Disposed
<1>2. CASE \E t \in Tasks : Fire(t) \/ Tick(t)
  BY <1>2 DEF Fire, Tick
<1>3. CASE \E u \in Users : Dispose(u) \/ \E t \in Tasks : Call(u, t)
  BY <1>3 DEF Dispose, Call, Pause, Cancel, StopTask, Resume, Create, Trigger
<1>4. CASE Restore \/ RestoreNext \/ Crash
  BY <1>4, SchedulerAssumption DEF Restore, RestoreNext, Crash, TypeInv, TypeOK
<1> QED
  BY <1>1, <1>2, <1>3, <1>4, StepCases DEF vars

\* What is proved of each step.
Keeps == CallsOK' /\ \A t \in Once : t \notin excused' /\ Single(t) => Single(t)'

LEMMA WorkOnce ==
  ASSUME TypeInv, CallsOK, excused \subseteq excused', NEW h \in Threads, Working(h)
  PROVE  Keeps
<1>1. Works(h)
  BY WorkEffect DEF TypeInv
<1>2. CallOK(h)'
  BY <1>1 DEF Works, CallOK, CallsOK, Executing
<1>3. ASSUME NEW t \in Once, Single(t) PROVE Single(t)'
  <2>1. /\ t \in Tasks /\ UNCHANGED <<timers, todo, status>> /\ My(h)' = My(h) /\ Moved(h)
        /\ Unasked(h)' <=> Unasked(h)
    BY <1>1, SchedulerAssumption DEF Works, Quietly, Unasked
  <2>2. Chance(h, t)' => Due(h, t)
    BY <1>1, <2>1 DEF Works, Chance, Due, Decided, Unbegun
  <2>3. CASE fired'[t] = fired[t]
    <3>1. Calm(t)
      BY <2>1, <2>3 DEF Calm
    <3>2. (Chance(h, t)' => Chance(h, t)) /\ (Due(h, t)' => Due(h, t))
      BY <2>2 DEF Due
    <3> QED
      BY <1>3, <2>1, <3>1, <3>2, HarmlessMove
  <2>4. CASE fired'[t] # fired[t]
    <3>1. /\ My(h) = t /\ At(h, "begin") /\ At(h, "work")' /\ Unasked(h)
          /\ fired'[t] = fired[t] + 1
      BY <1>1, <2>1, <2>4 DEF Works, TypeInv, TypeOK
    <3>2. Chance(h, t) /\ Due(h, t)
      BY <3>1 DEF Chance, Due, Unbegun, Decided
    <3>3. fired[t] = 0 /\ status[t] # "active" /\ status[t] # "new" /\ t \notin timers /\ t \notin todo
      BY <1>3, <3>2 DEF Single
    <3>4. \A g \in Threads : ~Chance(g, t)'
      <4>1. ~Chance(h, t)'
        BY <3>1 DEF Chance, Unbegun
      <4>2. \A g \in Threads \ {h} : Chance(g, t)' => Chance(g, t)
        BY <2>1 DEF Moved, Chance, Unasked
      <4> QED
        BY <1>3, <3>2, <4>1, <4>2 DEF Single
    <3>5. fired'[t] = 1
      BY <3>1, <3>3
    <3> QED
      BY <2>1, <3>3, <3>4, <3>5 DEF Single, Due
  <2> QED
    BY <2>3, <2>4
<1> QED
  BY <1>1, <1>2, <1>3, OtherCalls DEF Keeps, Works

LEMMA CloseOnce ==
  ASSUME TypeInv, CallsOK, excused \subseteq excused', NEW h \in Threads, Close(h)
  PROVE  Keeps
<1>1. Closes(h)
  BY CloseEffect DEF TypeInv
<1>t. thread \in [Threads -> ThreadRecords]
  BY DEF TypeInv, TypeOK
<1>2. \A g \in Threads \ {h} : /\ thread'[g].at = thread[g].at /\ My(g)' = My(g)
                              /\ thread'[g].how = thread[g].how
  BY <1>t, <1>1 DEF Closes, ThreadRecords
<1>3. CASE Rested(h)
  <2>1. thread'[h].at \in {"boot", "over", "idle"} /\ thread'[h].how = "none"
    BY <1>3 DEF Rested, Idle, Rest
  <2>2. CallsOK'
    BY <1>2, <2>1 DEF CallsOK, CallOK
  <2>3. \A t \in Once : Single(t) => Single(t)'
    <3> SUFFICES ASSUME NEW t \in Once, Single(t) PROVE Single(t)'
      OBVIOUS
    <3>1. t \in Tasks /\ Calm(t)
      BY <1>1, SchedulerAssumption DEF Closes, Calm
    <3>2. \A g \in Threads : (Chance(g, t)' => Chance(g, t)) /\ (Due(g, t)' => Due(g, t))
      BY <1>2, <2>1 DEF Chance, Due, Unasked, Unbegun
    <3> QED
      BY <3>1, <3>2, Harmless
  <2> QED
    BY <2>2, <2>3 DEF Keeps
<1>4. CASE /\ thread'[h] = [thread[h] EXCEPT !.tries = 0, !.at = NextOf(h)]
           /\ NextOf(h) \in {"again", "next"}
  <2>1. /\ thread'[h].at = NextOf(h) /\ thread'[h].how = thread[h].how /\ My(h)' = My(h)
    BY <1>t, <1>4 DEF ThreadRecords
  <2>2. NextOf(h) = "next" => My(h) \notin Once
    BY DEF NextOf, AfterFire, Rest
  <2>3. CallsOK'
    <3>1. CallOK(h)'
      BY <1>4, <2>1, <2>2 DEF CallsOK, CallOK
    <3> QED
      BY <1>2, <3>1 DEF CallsOK, CallOK
  <2>4. \A t \in Once : Single(t) => Single(t)'
    <3> SUFFICES ASSUME NEW t \in Once, Single(t) PROVE Single(t)'
      OBVIOUS
    <3>1. t \in Tasks /\ Calm(t)
      BY <1>1, SchedulerAssumption DEF Closes, Calm
    <3>2. \A g \in Threads : (Chance(g, t)' => Chance(g, t)) /\ (Due(g, t)' => Due(g, t))
      BY <1>2, <1>4, <2>1 DEF Chance, Due, Unasked, Unbegun
    <3> QED
      BY <3>1, <3>2, Harmless
  <2> QED
    BY <2>3, <2>4 DEF Keeps
<1> QED
  BY <1>1, <1>3, <1>4 DEF Closes

LEMMA FreeOnce ==
  ASSUME TypeInv, CallsOK, excused \subseteq excused', NEW h \in Threads, Free(h)
  PROVE  Keeps
<1>t. /\ thread[h] \in ThreadRecords /\ CallOK(h) /\ Moved(h) /\ Once \subseteq Tasks
      /\ status \in [Tasks -> {"new", "active", "paused", "disabled", "gone"}]
  BY SchedulerAssumption, Moves DEF TypeInv, TypeOK, CallsOK, Free
<1>r. Rested(h) => thread'[h].at \in {"boot", "over", "idle"} /\ thread'[h].how = "none"
  BY DEF Rested, Idle, Rest
<1>s. \A l \in Labels : Sits(h, l) =>
        thread'[h].at = l /\ thread'[h].how = thread[h].how /\ My(h)' = My(h)
  BY <1>t DEF Sits, ThreadRecords
<1>l. {"mark", "disable", "next", "reschedule", "renew"} \subseteq Labels
  BY DEF Labels
<1>f. UNCHANGED <<fired, todo>>
  BY DEF Free, Look, Marked, LookAgain, StoreNext, Disable, StorePaused, Delete, Activate, Renew,
     Reschedule, Disposed
<1> DEFINE Good(t) == /\ Calm(t) /\ (Chance(h, t)' => Chance(h, t))
                      /\ (Due(h, t)' => Due(h, t) \/ status'[t] # "active")
           Unbeginning == thread'[h].at \notin Unbegun
<1>q. CallOK(h)' /\ (\A t \in Once : t \notin excused /\ Single(t) => Good(t)) => Keeps
  BY <1>t, HarmlessMove, OtherCalls DEF Keeps
<1>n. \A t : Unbeginning /\ Calm(t) => Good(t)
  BY DEF Chance, Due
<1> HIDE DEF Good
<1>1. CASE Look(h)
  <2>1. At(h, "look") /\ UNCHANGED <<status, timers>>
    BY <1>1, Moves
  <2>2. \A t \in Once : Calm(t)
    BY <1>f, <2>1 DEF Calm
  <2>3. CASE Rested(h)
    BY <1>q, <1>r, <1>n, <2>2, <2>3 DEF CallOK, Unbegun
  <2>4. CASE Sits(h, "mark")
    <3>1. /\ thread'[h].at = "mark" /\ thread'[h].how = thread[h].how /\ My(h)' = My(h)
      BY <1>l, <1>s, <2>4
    <3>2. CallOK(h)'
      BY <1>t, <2>1, <3>1 DEF CallOK
    <3>3. \A t \in Once : (Chance(h, t)' => Chance(h, t)) /\ ~Due(h, t)'
      BY <2>1, <3>1 DEF Chance, Due, Unasked, Unbegun, Decided
    <3> QED
      BY <1>q, <2>2, <3>2, <3>3 DEF Good
  <2>5. CASE My(h) \notin Once /\ Executes(h, thread[h])
    <3>1. \/ thread'[h].at \in {"again", "record"} /\ thread'[h].how = thread[h].how /\ My(h)' = My(h)
          \/ Rested(h)
      BY <1>t, <2>5, AfterExecutes
    <3>2. CallOK(h)'
      BY <1>t, <1>r, <2>1, <3>1 DEF CallOK
    <3>3. \A t \in Once : ~Chance(h, t)' /\ ~Due(h, t)'
      BY <1>r, <2>5, <3>1 DEF Chance, Due, Unbegun
    <3> QED
      BY <1>q, <2>2, <3>2, <3>3 DEF Good
  <2> QED
    BY <1>1, <2>3, <2>4, <2>5, Moves
<1>2. CASE Marked(h)
  <2>1. /\ At(h, "mark") /\ SetTo(My(h), "disabled") /\ UNCHANGED timers
        /\ Executes(h, thread[h])
    BY <1>2, Moves
  <2>2. \A t \in Once : Calm(t) /\ (My(h) = t => status'[t] # "active")
    BY <1>t, <1>f, <2>1 DEF Calm, SetTo, Exists
  <2>3. \/ thread'[h].at \in {"again", "record"} /\ thread'[h].how = thread[h].how /\ My(h)' = My(h)
        \/ Rested(h)
    BY <1>t, <2>1, AfterExecutes
  <2>4. CallOK(h)'
    BY <1>t, <1>r, <2>1, <2>3 DEF CallOK
  <2>5. \A t \in Once : (Chance(h, t)' => Chance(h, t)) /\ (Due(h, t)' => status'[t] # "active")
    BY <1>r, <2>1, <2>2, <2>3 DEF Chance, Due, Unasked, Unbegun
  <2> QED
    BY <1>q, <2>2, <2>4, <2>5 DEF Good
<1>3. CASE LookAgain(h)
  <2>1. At(h, "again") /\ UNCHANGED <<status, timers>>
    BY <1>3 DEF LookAgain
  <2>2. \A t \in Once : Calm(t)
    BY <1>f, <2>1 DEF Calm
  <2>3. /\ thread'[h].at \notin Unbegun
        /\ CallOK(h)'
    BY <1>t, <1>l, <1>r, <1>s, <1>3, Moves DEF CallOK, Unbegun
  <2> QED
    BY <1>n, <1>q, <2>2, <2>3
<1>4. CASE StoreNext(h) \/ Disable(h) \/ StorePaused(h) \/ Delete(h) \/ Disposed(h)
  <2>1. Rested(h)
    BY <1>4, Moves
  <2>2. CallOK(h)' /\ thread'[h].at \notin Unbegun
    BY <1>r, <2>1 DEF CallOK, Unbegun
  <2>3. ASSUME NEW t \in Once PROVE Calm(t)
    <3>1. t \in timers' => t \in timers
      BY <1>t, <1>4 DEF StoreNext, SetTimer, Disable, StorePaused, Delete, Disposed, CallOK
    <3>2. status'[t] = status[t] \/ status'[t] \notin {"new", "active"}
      BY <1>t, <1>4 DEF StoreNext, Disable, StorePaused, Delete, Disposed, Set
    <3> QED
      BY <1>f, <3>1, <3>2 DEF Calm
  <2> QED
    BY <1>n, <1>q, <2>2, <2>3
<1>5. CASE Activate(h) \/ Renew(h)
  <2>1. /\ thread[h].how = "resume" /\ My(h) \in excused
    BY <1>t, <1>5, Moves DEF CallOK
  <2>2. /\ thread'[h].at \in {"reschedule", "renew"} /\ thread'[h].how = thread[h].how
        /\ My(h)' = My(h)
    BY <1>l, <1>s, <1>5, Moves
  <2>3. CallOK(h)' /\ thread'[h].at \notin Unbegun
    BY <2>1, <2>2 DEF CallOK, Unbegun
  <2>4. \A t \in Once : t \notin excused => Calm(t)
    BY <1>t, <1>f, <1>5, <2>1 DEF Calm, Activate, Renew, Set
  <2> QED
    BY <1>n, <1>q, <2>3, <2>4
<1>6. CASE Reschedule(h)
  <2>1. /\ thread[h].how = "resume" /\ My(h) \in excused /\ UNCHANGED status
    BY <1>t, <1>6, Moves DEF CallOK
  <2>2. \/ Rested(h) /\ timers' = timers
        \/ Schedules(h, thread[h])
    BY <1>6, Moves
  <2>3. /\ timers' \subseteq timers \cup {My(h)}
        /\ \/ Rested(h)
           \/ /\ thread'[h].at \in {"again", "record", "next", "mark", "disable"}
              /\ thread'[h].how = thread[h].how /\ My(h)' = My(h)
        /\ At(h, "next")' => My(h) \notin Once
    BY <1>t, <1>r, <2>2, AfterSchedules
  <2>4. CallOK(h)'
    BY <1>r, <2>1, <2>3 DEF CallOK
  <2>5. \A t \in Once : t \notin excused => Calm(t) /\ ~Chance(h, t)' /\ ~Due(h, t)'
    BY <1>f, <1>r, <2>1, <2>3 DEF Calm, Chance, Due, Unbegun
  <2> QED
    BY <1>q, <2>4, <2>5 DEF Good
<1> QED
  BY <1>1, <1>2, <1>3, <1>4, <1>5, <1>6 DEF Free

\* A task that is scheduled for the first time has had its one chance till then.
LEMMA FirstSchedule ==
  ASSUME NEW h \in Threads, NEW rec \in ThreadRecords, Schedules(h, rec),
         NEW t \in Tasks, rec.task = t, Single(t),
         status[t] = "new" \/ t \in todo, t \in Once,
         fired' = fired, status'[t] # "new", t \notin todo'
  PROVE  Single(t)'
<1>1. /\ timers' \subseteq timers \cup {t} /\ ~At(h, "record")'
      /\ \/ /\ thread'[h].at \in {"again", "record", "next", "mark", "disable"}
            /\ timers' = timers
         \/ thread'[h].at \in {"boot", "over", "idle"}
      /\ Moved(h)
  BY AfterSchedules DEF Schedules
<1>2. t \notin timers
  BY DEF Single
<1>3. ~Due(h, t)' /\ (Chance(h, t)' => t \notin timers')
  BY <1>1, <1>2 DEF Due, Chance, Decided, Unbegun
<1> QED
  BY <1>1, <1>3, ChancePassed

LEMMA CallOnce ==
  ASSUME TypeInv, CallsOK, excused \subseteq excused', NEW u \in Users, NEW x \in Tasks,
         Call(u, x)
  PROVE  Keeps
<1>t. /\ u \in Threads /\ Once \subseteq Tasks /\ u # Boot
      /\ status \in [Tasks -> {"new", "active", "paused", "disabled", "gone"}]
      /\ At(u, "idle")
  BY SchedulerAssumption DEF Threads, TypeInv, TypeOK, Call, Pause, Cancel, Resume, Create,
     Trigger, May
<1>r. Rested(u) => thread'[u].at \in {"boot", "over", "idle"} /\ thread'[u].how = "none"
  BY DEF Rested, Idle, Rest
<1>f. UNCHANGED <<fired, todo>>
  BY DEF Call, Pause, Cancel, StopTask, Resume, Create, Trigger
<1>w. {"pause", "cancel", "resume", "create", "trigger"} \subseteq Ways
  BY DEF Ways
<1>m. \A op \in Ways : /\ Made(op, x) \in ThreadRecords /\ Made(op, x).task = x
                      /\ Made(op, x).how = op
  BY DEF Made, Idle, ThreadRecords, Labels
<1>q. ASSUME CallOK(u)', Moved(u),
             \A t \in Once : Calm(t) /\ ~Chance(u, t)'
      PROVE  Keeps
  <2>1. \A t \in Once : ~Due(u, t)'
    BY <1>q DEF Due
  <2> QED
    BY <1>q, <1>t, <2>1, HarmlessMove, OtherCalls DEF Keeps
<1>1. CASE Pause(u, x) \/ Cancel(u, x)
  <2>1. /\ Moved(u) /\ thread'[u].at \in {"pausing", "deleting"}
        /\ thread'[u].how \in {"pause", "cancel"}
    <3>1. {running[x]} \ {None} \subseteq Threads
      BY DEF TypeInv, TypeOK
    <3>2. \A op \in {"pause", "cancel"} : /\ Watching(u, x, op) \in ThreadRecords
                                         /\ Watching(u, x, op).how = op
      BY <1>m, <1>w, <3>1 DEF Watching, ThreadRecords
    <3>3. {"pausing", "deleting"} \subseteq Labels
      BY DEF Labels
    <3> QED
      BY <1>1, <3>2, <3>3, CallMoves DEF Starts, ThreadRecords
  <2>2. CallOK(u)' /\ \A t \in Once : ~Chance(u, t)'
    BY <2>1 DEF CallOK, Chance, Unbegun
  <2>3. timers' \subseteq timers /\ status' = status
    BY <1>1 DEF Pause, Cancel, StopTask
  <2> QED
    BY <1>f, <1>q, <2>1, <2>2, <2>3 DEF Calm
<1>2. CASE Resume(u, x)
  <2>1. Moved(u) /\ thread'[u].at = "activate" /\ thread'[u].how = "resume" /\ My(u)' = x
    <3>1. Starts(u, Made("resume", x), "activate") /\ "activate" \in Labels
      BY <1>2, CallMoves DEF Labels
    <3> QED
      BY <1>m, <1>w, <3>1 DEF Starts, ThreadRecords
  <2>2. x \in excused' /\ UNCHANGED <<timers, status>>
    BY <1>2 DEF Resume
  <2>3. CallOK(u)' /\ \A t \in Once : ~Chance(u, t)'
    BY <2>1, <2>2 DEF CallOK, Chance, Unbegun
  <2> QED
    BY <1>f, <1>q, <2>1, <2>2, <2>3 DEF Calm
<1>3. CASE Create(u, x)
  <2>1. /\ Schedules(u, Made("create", x)) /\ status[x] = "new" /\ excused' = excused
        /\ status' = [status EXCEPT ![x] = "active"]
    BY <1>3, CallMoves DEF Create
  <2>2. /\ timers' \subseteq timers \cup {x} /\ Moved(u)
        /\ \/ /\ thread'[u].at \in {"again", "record", "next", "mark", "disable"}
              /\ thread'[u].how = "create" /\ My(u)' = x
           \/ Rested(u)
        /\ At(u, "next")' => x \notin Once
    <3> DEFINE rec == Made("create", x)
    <3>1. rec \in ThreadRecords /\ rec.task = x /\ rec.how = "create" /\ Schedules(u, rec)
      BY <1>m, <1>w, <2>1
    <3> HIDE DEF rec
    <3> QED
      BY <1>t, <3>1, <1>r, AfterSchedules DEF Schedules
  <2>3. CallOK(u)'
    BY <1>r, <2>2 DEF CallOK
  <2>4. CallsOK'
    BY <1>t, <2>2, <2>3, OtherCalls
  <2>5. ASSUME NEW t \in Once, Single(t) PROVE Single(t)'
    <3>1. CASE t = x
      <4>1. status'[t] = "active" /\ t \notin todo'
        BY <1>t, <1>f, <2>1, <2>5, <3>1 DEF Single
      <4> DEFINE rec == Made("create", x)
      <4>2. rec \in ThreadRecords /\ rec.task = x /\ Schedules(u, rec)
        BY <1>m, <1>w, <2>1
      <4> HIDE DEF rec
      <4> QED
        BY <1>t, <1>f, <2>1, <2>5, <3>1, <4>1, <4>2, FirstSchedule
    <3>2. CASE t # x
      <4>1. Calm(t) /\ ~Chance(u, t)' /\ ~Due(u, t)'
        BY <1>t, <1>f, <1>r, <2>1, <2>2, <3>2 DEF Calm, Chance, Due, Unbegun
      <4> QED
        BY <1>t, <2>2, <2>5, <4>1, HarmlessMove
    <3> QED
      BY <3>1, <3>2
  <2> QED
    BY <2>4, <2>5 DEF Keeps
<1>4. CASE Trigger(u, x)
  <2>1. Executes(u, Made("trigger", x)) /\ UNCHANGED <<timers, status>>
    BY <1>4, CallMoves DEF Trigger
  <2>2. /\ Moved(u)
        /\ \/ thread'[u].at \in {"again", "record"} /\ thread'[u].how = "trigger"
           \/ Rested(u)
    <3> DEFINE rec == Made("trigger", x)
    <3>1. rec \in ThreadRecords /\ rec.how = "trigger" /\ Executes(u, rec)
      BY <1>m, <1>w, <2>1
    <3> HIDE DEF rec
    <3> QED
      BY <1>t, <3>1, AfterExecutes DEF Executes
  <2>3. CallOK(u)' /\ \A t \in Once : ~Chance(u, t)'
    BY <1>r, <2>2 DEF CallOK, Chance, Unasked, Unbegun
  <2> QED
    BY <1>f, <1>q, <2>1, <2>2, <2>3 DEF Calm
<1> QED
  BY <1>1, <1>2, <1>3, <1>4 DEF Call

LEMMA FireOnce ==
  ASSUME TypeInv, CallsOK, excused \subseteq excused', NEW x \in Tasks, Fire(x)
  PROVE  Keeps
<1>1. PICK h \in Timers : Starts(h, [Idle EXCEPT !.how = "fire", !.task = x], "look")
  BY FireMoves
<1>2. /\ h \in Threads /\ Moved(h) /\ thread'[h].at = "look" /\ thread'[h].how = "fire"
      /\ My(h)' = x
  BY <1>1 DEF Threads, Starts, Idle
<1>3. UNCHANGED <<fired, todo, status>> /\ x \in timers /\ timers' = timers \ {x}
  BY DEF Fire
<1>4. CallsOK'
  <2>1. CallOK(h)'
    BY <1>2 DEF CallOK
  <2> QED
    BY <1>2, <2>1, OtherCalls
<1>5. ASSUME NEW t \in Once, Single(t) PROVE Single(t)'
  <2>1. t \in Tasks /\ ~Due(h, t)'
    BY <1>2, SchedulerAssumption DEF Due, Decided
  <2>2. CASE t = x
    BY <1>2, <1>3, <1>5, <2>1, <2>2, ChancePassed DEF Single
  <2>3. CASE t # x
    <3>1. Calm(t) /\ ~Chance(h, t)'
      BY <1>2, <1>3, <2>3 DEF Calm, Chance
    <3> QED
      BY <1>2, <1>5, <2>1, <3>1, HarmlessMove
  <2> QED
    BY <2>2, <2>3
<1> QED
  BY <1>4, <1>5 DEF Keeps

LEMMA OtherOnce ==
  ASSUME TypeInv, CallsOK, excused \subseteq excused',
         \/ \E t \in Tasks : Tick(t)
         \/ \E u \in Users : Dispose(u)
         \/ Restore \/ RestoreNext \/ Crash
  PROVE  Keeps
<1>t. /\ Boot \in Threads /\ Once \subseteq Tasks /\ None \notin Tasks
      /\ thread \in [Threads -> ThreadRecords]
  BY SchedulerAssumption DEF TypeInv, TypeOK, Threads
<1>1. ASSUME NEW t \in Tasks, Tick(t) PROVE Keeps
  <2>1. UNCHANGED <<thread, timers, todo, status, fired>>
    BY <1>1 DEF Tick
  <2> QED
    BY <2>1 DEF Keeps, CallsOK, CallOK, Single, Chance, Due, Unasked
<1>2. ASSUME NEW u \in Users, Dispose(u) PROVE Keeps
  <2>1. /\ u \in Threads /\ Moved(u) /\ thread'[u].at = "disposing" /\ thread'[u].how = "dispose"
        /\ timers' = {} /\ UNCHANGED <<todo, status, fired>>
    BY <1>2, DisposeMoves DEF Threads, Dispose
  <2>2. CallOK(u)' /\ \A t \in Once : Calm(t) /\ ~Chance(u, t)' /\ ~Due(u, t)'
    BY <2>1 DEF CallOK, Calm, Chance, Due, Unbegun
  <2> QED
    BY <1>t, <2>1, <2>2, HarmlessMove, OtherCalls DEF Keeps
<1>3. CASE Restore
  <2>1. /\ Moved(Boot) /\ thread'[Boot].at = "boot" /\ thread'[Boot].how = thread[Boot].how
        /\ My(Boot)' = My(Boot)
    BY <1>t, <1>3, BootMoves DEF Sits, ThreadRecords, Labels
  <2>2. /\ todo' = {t \in Tasks : status[t] = "active"} /\ UNCHANGED <<timers, status, fired>>
        /\ excused' = (excused \cup timers \cup {My(h) : h \in Threads}) \ {None}
    BY <1>3 DEF Restore
  <2>3. CallsOK'
    <3>1. CallOK(Boot)'
      BY <1>t, <2>1 DEF CallsOK, CallOK
    <3> QED
      BY <1>t, <2>1, <3>1, OtherCalls
  <2>4. ASSUME NEW t \in Once, t \notin excused', Single(t) PROVE Single(t)'
    <3>1. t \notin timers /\ \A h \in Threads : My(h) # t
      BY <1>t, <2>2, <2>4
    <3>2. \A h \in Threads : My(h)' # t
      BY <2>1, <3>1 DEF Moved
    <3>3. \A h \in Threads : ~Chance(h, t)' /\ ~Due(h, t)'
      BY <3>2 DEF Chance, Due
    <3>4. /\ t \notin timers' /\ (t \in todo' => status[t] = "active" /\ fired[t] = 0)
          /\ fired' = fired /\ status' = status
          /\ status[t] = "new" => fired[t] = 0 /\ t \notin todo'
      <4>1. fired[t] \in Nat
        BY <1>t DEF TypeInv, TypeOK
      <4>2. fired[t] # 0 => status[t] # "active"
        BY <2>4 DEF Single
      <4> QED
        BY <2>2, <2>4, <3>1, <4>1, <4>2 DEF Single
    <3> QED
      BY <2>4, <3>3, <3>4 DEF Single
  <2> QED
    BY <2>3, <2>4 DEF Keeps
<1>4. CASE RestoreNext
  <2>1. UNCHANGED <<status, fired>>
    BY <1>4 DEF RestoreNext
  <2>2. CASE /\ Moved(Boot) /\ thread'[Boot] = [Idle EXCEPT !.at = "over"]
             /\ UNCHANGED <<timers, todo>>
    <3>1. thread'[Boot].at = "over" /\ thread'[Boot].how = "none"
      BY <2>2 DEF Idle
    <3>2. CallOK(Boot)' /\ \A t \in Once : Calm(t) /\ ~Chance(Boot, t)' /\ ~Due(Boot, t)'
      BY <2>1, <2>2, <3>1 DEF CallOK, Calm, Chance, Due, Unbegun
    <3> QED
      BY <1>t, <2>2, <3>2, HarmlessMove, OtherCalls DEF Keeps
  <2>3. ASSUME NEW x \in todo, todo' = todo \ {x}, Schedules(Boot, Made("restore", x))
        PROVE  Keeps
    <3> DEFINE rec == Made("restore", x)
    <3>1. /\ rec \in ThreadRecords /\ rec.task = x /\ rec.how = "restore" /\ x \in Tasks
          /\ Schedules(Boot, rec)
      BY <2>3 DEF Made, Idle, ThreadRecords, Labels, Ways, TypeInv, TypeOK
    <3> HIDE DEF rec
    <3>2. /\ timers' \subseteq timers \cup {x} /\ Moved(Boot)
          /\ \/ /\ thread'[Boot].at \in {"again", "record", "next", "mark", "disable"}
                /\ thread'[Boot].how = "restore" /\ My(Boot)' = x
             \/ thread'[Boot].at \in {"boot", "over", "idle"} /\ Rested(Boot)
          /\ At(Boot, "next")' => x \notin Once
      BY <1>t, <3>1, AfterSchedules DEF Schedules
    <3>3. CallOK(Boot)'
      BY <3>2 DEF CallOK, Rested, Idle
    <3>4. CallsOK'
      BY <1>t, <3>2, <3>3, OtherCalls
    <3>5. ASSUME NEW t \in Once, Single(t) PROVE Single(t)'
      <4>1. CASE t = x
        <5>1. status[t] # "new" /\ t \notin todo'
          BY <2>3, <3>5, <4>1 DEF Single
        <5> QED
          BY <1>t, <2>1, <3>1, <3>5, <4>1, <5>1, FirstSchedule
      <4>2. CASE t # x
        <5>1. Calm(t) /\ ~Chance(Boot, t)' /\ ~Due(Boot, t)'
          BY <2>1, <2>3, <3>2, <4>2 DEF Calm, Chance, Due, Unbegun
        <5> QED
          BY <1>t, <3>2, <3>5, <5>1, HarmlessMove
      <4> QED
        BY <4>1, <4>2
    <3> QED
      BY <3>4, <3>5 DEF Keeps
  <2> QED
    BY <1>4, <2>2, <2>3, BootMoves
<1>5. CASE Crash
  <2>1. \A h \in Threads : /\ thread'[h].at \in {"over", "idle"} /\ thread'[h].how = "none"
    BY <1>5 DEF Crash, Idle
  <2>2. UNCHANGED <<status, fired>> /\ timers' = {} /\ todo' = {}
    BY <1>5 DEF Crash
  <2>3. CallsOK'
    BY <2>1 DEF CallsOK, CallOK
  <2>4. \A t \in Once : Calm(t) /\ \A h \in Threads : ~Chance(h, t)' /\ ~Due(h, t)'
    BY <2>1, <2>2 DEF Calm, Chance, Due, Unbegun
  <2> QED
    BY <1>t, <2>3, <2>4, Harmless DEF Keeps
<1> QED
  BY <1>1, <1>2, <1>3, <1>4, <1>5

LEMMA OnceStep == TypeInv /\ OnceInv /\ [Next]_vars => OnceInv'
<1> SUFFICES ASSUME TypeInv, OnceInv, [Next]_vars PROVE OnceInv'
  OBVIOUS
<1>1. excused \subseteq excused'
  BY ExcusedGrows
<1>2. CASE UNCHANGED vars
  BY <1>2 DEF vars, OnceInv, CallsOK, CallOK, Single, Chance, Due, Unasked
<1>3. CASE Keeps
  BY <1>1, <1>3 DEF OnceInv, Keeps
<1> QED
  BY <1>1, <1>2, <1>3, StepCases, WorkOnce, CloseOnce, FreeOnce, FireOnce, CallOnce, OtherOnce
       DEF OnceInv

-----------------------------------------------------------------------------
(* Nobody is forgotten.                                                    *)

LEMMA StillCovered ==
  ASSUME NEW h \in Threads, NEW t \in Tasks, Moved(h), Covered(t),
         t \in timers => Covered(t)',
         t \in unscheduled => t \in unscheduled',
         t \in todo => Covered(t)',
         disposing # "no" => disposing' # "no",
         ~At(h, "idle") \/ h # Boot,
         Covers(h, t) => Covered(t)'
  PROVE  Covered(t)'
<1>1. \A g \in Threads \ {h} : Covers(g, t) => Covers(g, t)'
  BY DEF Moved, Covers, Executing
<1>2. At(Boot, "idle") => At(Boot, "idle")'
  BY DEF Moved, Threads
<1> QED
  BY <1>1, <1>2 DEF Covered

LEMMA StillSuppressed ==
  ASSUME NEW h \in Threads, Moved(h), SuppressOK,
         disposing # "no" => disposing' # "no",
         \A t \in suppress' : \/ disposing' # "no"
                              \/ t \in suppress /\ ~Suppresses(h, t)
                              \/ h \in Users /\ Suppresses(h, t)'
  PROVE  SuppressOK'
<1>1. \A g \in Threads \ {h} : \A t : Suppresses(g, t) => Suppresses(g, t)'
  BY DEF Moved, Suppresses, Stops
<1> QED
  BY <1>1 DEF SuppressOK, Threads

\* Who finds its task suppressed leaves it to the one who stops it.
LEMMA StoppedIsCovered ==
  ASSUME TypeInv, SuppressOK, NEW h \in Threads, NEW t \in Tasks, Suppressed(t),
         disposing # "no" => disposing' # "no",
         \A u \in Users \ {h} : thread'[u].at = thread[u].at /\ My(u)' = My(u),
         thread[h].at \notin {"pausing", "deleting"}
  PROVE  Covered(t)'
<1>1. CASE disposing # "no"
  BY <1>1 DEF Covered
<1>2. CASE disposing = "no"
  <2>1. PICK u \in Users : Stops(u, t)
    BY <1>2 DEF Suppressed, SuppressOK, Suppresses
  <2>2. u \in Threads /\ u # h /\ Stops(u, t)'
    BY <2>1 DEF Threads, Stops
  <2> QED
    BY <2>2 DEF Covered, Covers, Stops
<1> QED
  BY <1>1, <1>2

LEMMA WorkCover ==
  ASSUME TypeInv, CoverInv, NEW h \in Threads, Working(h)
  PROVE  CoverInv'
<1>1. Works(h)
  BY WorkEffect DEF TypeInv
<1>2. /\ UNCHANGED <<status, timers, todo, unscheduled, disposing, suppress>>
      /\ Moved(h) /\ Executing(h) /\ Executing(h)' /\ My(h)' = My(h)
      /\ thread'[h].how = thread[h].how
  BY <1>1 DEF Works, Quietly
<1>3. ASSUME NEW t \in Tasks, Covered(t) PROVE Covered(t)'
  <2>1. Covers(h, t) => Covers(h, t)'
    BY <1>2 DEF Covers, Executing
  <2>2. ~At(h, "idle")
    BY <1>2 DEF Executing
  <2> QED
    BY <1>2, <1>3, <2>1, <2>2, StillCovered DEF Covered
<1>4. SuppressOK'
  <2>1. \A t : ~Suppresses(h, t)
    BY <1>2 DEF Suppresses, Stops, Executing
  <2> QED
    BY <1>2, <2>1, StillSuppressed DEF CoverInv
<1>5. At(Boot, "over")' => At(Boot, "over")
  BY <1>2 DEF Moved, Executing, Threads
<1> QED
  BY <1>2, <1>3, <1>4, <1>5 DEF CoverInv

LEMMA CloseCover ==
  ASSUME TypeInv, CoverInv, NEW h \in Threads, Close(h)
  PROVE  CoverInv'
<1>1. Closes(h)
  BY CloseEffect DEF TypeInv
<1>t. thread \in [Threads -> ThreadRecords] /\ Boot \in Threads /\ Boot \notin Users
      /\ Users \subseteq Threads
  BY SchedulerAssumption DEF TypeInv, TypeOK, Threads
<1>2. \A g \in Threads \ {h} : /\ thread'[g].at = thread[g].at /\ My(g)' = My(g)
                              /\ thread'[g].how = thread[g].how /\ thread'[g].on = thread[g].on \ {h}
  BY <1>t, <1>1 DEF Closes, ThreadRecords
<1>3. At(h, "close") /\ UNCHANGED <<status, timers, todo, unscheduled, disposing>>
      /\ suppress' = suppress \ Paused(h)
  BY <1>1 DEF Closes
<1>4. NextOf(h) \in {"again", "next"} => thread'[h].at = NextOf(h) /\ My(h)' = My(h)
  BY <1>t, <1>1 DEF Closes, ThreadRecords
<1>5. ASSUME NEW t \in Tasks, Covered(t) PROVE Covered(t)'
  <2>1. \A g \in Threads \ {h} : Covers(g, t) => Covers(g, t)'
    BY <1>2 DEF Covers, Executing
  <2>2. At(Boot, "idle") => At(Boot, "idle")'
    BY <1>t, <1>2, <1>3
  <2>3. CASE Covers(h, t)
    <3>1. /\ My(h) = t
          /\ \/ thread[h].how = "fire"
             \/ thread[h].how \in {"restore", "create", "resume"} /\ t \notin Once
      BY <1>3, <2>3 DEF Covers
    <3>2. CASE NextOf(h) \in {"again", "next"}
      BY <1>4, <3>1, <3>2 DEF Covered, Covers
    <3>3. CASE NextOf(h) \notin {"again", "next"}
      <4>1. Suppressed(t)
        BY <3>1, <3>3 DEF NextOf, AfterFire
      <4> QED
        BY <1>t, <1>2, <1>3, <4>1, StoppedIsCovered DEF CoverInv
    <3> QED
      BY <3>2, <3>3
  <2> QED
    BY <1>3, <1>5, <2>1, <2>2, <2>3 DEF Covered
<1>6. SuppressOK'
  <2> SUFFICES ASSUME NEW t \in suppress', disposing' = "no"
               PROVE  \E u \in Users : Suppresses(u, t)'
    BY DEF SuppressOK
  <2>1. PICK u \in Users : Suppresses(u, t)
    BY <1>3 DEF CoverInv, SuppressOK
  <2>2. u \in Threads \ {h}
    BY <1>t, <1>3, <2>1 DEF Suppresses, Stops
  <2>3. At(u, "pausing") => h \notin thread[u].on
    BY <1>3, <2>1 DEF Suppresses, Stops, Paused
  <2>4. Suppresses(u, t)'
    BY <1>2, <2>1, <2>2, <2>3 DEF Suppresses, Stops
  <2> QED
    BY <2>4
<1>7. At(Boot, "over")' => At(Boot, "over")
  <2>1. h = Boot => thread'[h].at # "over"
    <3>1. CASE Rested(h)
      BY <1>t, <3>1 DEF Rested, Idle, Rest
    <3>2. CASE NextOf(h) \in {"again", "next"}
      BY <1>4, <3>2
    <3> QED
      BY <1>1, <3>1, <3>2 DEF Closes
  <2> QED
    BY <1>t, <1>2, <2>1
<1> QED
  BY <1>3, <1>5, <1>6, <1>7 DEF CoverInv

LEMMA FreeCover ==
  ASSUME TypeInv, CallsOK, CoverInv, NEW h \in Threads, Free(h)
  PROVE  CoverInv'
<1>t. /\ thread[h] \in ThreadRecords /\ CallOK(h) /\ Moved(h) /\ SuppressOK
      /\ Boot \in Threads /\ Boot \notin Users
      /\ status \in [Tasks -> {"new", "active", "paused", "disabled", "gone"}]
  BY SchedulerAssumption, Moves DEF TypeInv, TypeOK, CallsOK, Free, CoverInv, Threads
<1>r. /\ Rested(h) => thread'[h].at = Rest(h) /\ Rest(h) \in {"boot", "over", "idle"}
      /\ Rest(Boot) = "boot"
  BY <1>t DEF Rested, Idle, Rest
<1>s. \A l \in Labels : Sits(h, l) =>
        thread'[h].at = l /\ thread'[h].how = thread[h].how /\ My(h)' = My(h)
  BY <1>t DEF Sits, ThreadRecords
<1>l. {"mark", "disable", "next", "reschedule", "renew"} \subseteq Labels
  BY DEF Labels
<1>n. ~At(h, "idle") /\ ~At(h, "over")
  BY DEF Free, Look, Marked, LookAgain, StoreNext, Disable, StorePaused, Delete, Activate, Renew,
     Reschedule, Disposed
<1>m. \A u \in Users \ {h} : thread'[u].at = thread[u].at /\ My(u)' = My(u)
  BY <1>t DEF Moved, Threads
<1>d. /\ disposing # "no" => disposing' # "no"
      /\ suppress' \subseteq suppress /\ todo' = todo
  BY DEF Free, Look, Marked, LookAgain, StoreNext, Disable, StorePaused, Delete, Activate, Renew,
     Reschedule, Disposed
<1>e. /\ Look(h) \/ Marked(h) => UNCHANGED <<timers, suppress, disposing>>
      /\ StoreNext(h) => timers' = timers \cup {My(h)} /\ unscheduled' = unscheduled
      /\ LookAgain(h) \/ Disable(h) \/ StorePaused(h) \/ Delete(h) \/ Activate(h) \/ Renew(h)
           \/ Disposed(h) => UNCHANGED <<timers, unscheduled>>
  BY DEF Look, Marked, LookAgain, StoreNext, SetTimer, Disable, StorePaused, Delete, Activate,
     Renew, Disposed
<1>1. timers \subseteq timers' /\ unscheduled \subseteq unscheduled'
  <2>1. CASE Look(h) \/ Marked(h)
    BY <1>t, <1>e, <2>1, Moves, AfterExecutes
  <2>2. CASE Reschedule(h)
    BY <1>t, <2>2, Moves, AfterSchedules
  <2> QED
    BY <1>e, <2>1, <2>2 DEF Free
<1> DEFINE Named == /\ thread'[h].at \in {"look", "mark", "again", "next", "disable", "renew",
                                          "reschedule"}
                    /\ My(h)' = My(h)
\* The task of h, when it is active.
<1>2. ASSUME NEW t \in Tasks, My(h) = t, status'[t] = "active",
             Covers(h, t) \/ Activate(h)
      PROVE  Covered(t)'
  <2>n. Named => Covered(t)'
    BY <1>2 DEF Covered, Covers
  <2>x. /\ At(h, "record")' /\ My(h)' = My(h)
        /\ thread'[h].how = "fire" \/ (thread'[h].how = "resume" /\ t \notin Once)
        => Covered(t)'
    BY <1>2 DEF Covered, Covers, Executing
  <2> HIDE DEF Named
  <2>1. CASE Look(h)
    <3>1. /\ status[t] = "active" /\ thread[h].how = "fire"
          /\ Sits(h, "mark") \/ Executes(h, thread[h])
      BY <1>t, <1>2, <2>1, Moves DEF CallOK
    <3>2. CASE Sits(h, "mark")
      BY <1>l, <1>s, <2>n, <3>2 DEF Named
    <3>3. CASE Executes(h, thread[h])
      <4>1. \/ /\ thread'[h].at \in {"again", "record"} /\ thread'[h].how = "fire"
               /\ My(h)' = My(h)
            \/ Suppressed(My(h))
        BY <1>t, <3>1, <3>3, AfterExecutes
      <4>2. CASE Suppressed(t)
        <5>1. thread[h].at \notin {"pausing", "deleting"}
          BY <2>1 DEF Look
        <5> QED
          BY <1>t, <1>m, <1>d, <4>2, <5>1, StoppedIsCovered
      <4> QED
        BY <1>2, <2>n, <2>x, <4>1, <4>2 DEF Named
    <3> QED
      BY <3>1, <3>2, <3>3
  <2>2. CASE Marked(h) \/ Disable(h) \/ StorePaused(h) \/ Delete(h)
    BY <1>t, <1>2, <2>2 DEF Marked, Mark, Disable, StorePaused, Delete, Set, Exists
  <2>3. CASE LookAgain(h)
    <3>1. status[t] = "active"
      BY <1>2, <2>3 DEF LookAgain
    <3> QED
      BY <1>l, <1>s, <1>2, <2>3, <2>n, <3>1, Moves DEF Named
  <2>4. CASE StoreNext(h)
    BY <1>2, <1>e, <2>4 DEF Covered
  <2>5. CASE Activate(h) \/ Renew(h)
    BY <1>l, <1>s, <2>5, <2>n, Moves DEF Named
  <2>6. CASE Reschedule(h)
    <3>1. Schedules(h, thread[h]) /\ thread[h].how = "resume"
      BY <1>t, <1>2, <2>6, Moves DEF CallOK
    <3>2. \/ t \in timers' \cup unscheduled'
          \/ /\ thread'[h].at \in {"next", "mark", "disable", "record"} /\ My(h)' = My(h)
             /\ thread'[h].how = "resume" /\ (At(h, "record")' => t \notin Once)
      BY <1>t, <1>r, <1>2, <3>1, AfterSchedules
    <3> QED
      BY <2>n, <2>x, <3>2 DEF Covered, Named
  <2>7. CASE Disposed(h)
    BY <1>2, <2>7 DEF Disposed, Covered
  <2> QED
    BY <2>1, <2>2, <2>3, <2>4, <2>5, <2>6, <2>7 DEF Free
<1>3. ASSUME NEW t \in Tasks, status'[t] = "active" PROVE Covered(t)'
  <2>1. CASE status[t] = "active"
    <3>1. Covered(t)
      BY <2>1 DEF CoverInv
    <3>2. Covers(h, t) => Covered(t)'
      BY <1>2, <1>3 DEF Covers
    <3>3. (t \in timers => Covered(t)') /\ (t \in unscheduled => t \in unscheduled')
          /\ (t \in todo => Covered(t)')
      BY <1>1, <1>d DEF Covered
    <3> QED
      BY <1>t, <1>n, <1>d, <3>1, <3>2, <3>3, StillCovered
  <2>2. CASE status[t] # "active"
    <3>1. Activate(h) /\ My(h) = t
      BY <1>t, <1>3, <2>2 DEF Free, Look, Marked, Mark, LookAgain, StoreNext, Disable, StorePaused,
         Delete, Activate, Renew, Reschedule, Disposed, Set
    <3> QED
      BY <1>2, <1>3, <3>1
  <2> QED
    BY <2>1, <2>2
<1>4. SuppressOK'
  <2>1. ASSUME NEW t \in suppress', disposing' = "no" PROVE ~Suppresses(h, t)
    <3>1. CASE StorePaused(h)
      BY <3>1 DEF StorePaused, Suppresses, Stops
    <3>2. CASE Delete(h)
      BY <2>1, <3>2 DEF Delete, Suppresses, Stops
    <3>3. CASE ~StorePaused(h) /\ ~Delete(h)
      BY <3>3 DEF Free, Look, Marked, LookAgain, StoreNext, Disable, Activate, Renew,
         Reschedule, Disposed, Suppresses, Stops
    <3> QED
      BY <3>1, <3>2, <3>3
  <2> QED
    BY <1>t, <1>d, <2>1, StillSuppressed
<1>5. At(Boot, "over")' => At(Boot, "over")
  <2>1. CASE h # Boot
    BY <1>t, <2>1 DEF Moved
  <2>2. CASE h = Boot
    <3>1. Rested(h) => thread'[h].at = "boot"
      BY <1>r, <2>2
    <3>2. \A l \in Labels : Sits(h, l) => thread'[h].at = l
      BY <1>s
    <3>3. Executes(h, thread[h]) \/ Schedules(h, thread[h]) =>
            \/ Rested(h)
            \/ thread'[h].at \in {"again", "record", "next", "mark", "disable"}
      BY <1>t, AfterExecutes, AfterSchedules
    <3> QED
      BY <1>l, <2>2, <3>1, <3>2, <3>3, Moves DEF Free
  <2> QED
    BY <2>1, <2>2
<1> QED
  BY <1>d, <1>3, <1>4, <1>5 DEF CoverInv

\* A call that has scheduled a task for the first time, or again.
LEMMA ScheduledIsCovered ==
  ASSUME NEW h \in Threads, NEW rec \in ThreadRecords, Schedules(h, rec),
         rec.how \in {"restore", "create", "resume"}
  PROVE  Covered(rec.task)'
<1>1. \/ rec.task \in timers' \cup unscheduled'
      \/ /\ thread'[h].at \in {"next", "mark", "disable", "record"} /\ My(h)' = rec.task
         /\ thread'[h].how = rec.how /\ (At(h, "record")' => rec.task \notin Once)
  BY AfterSchedules
<1> QED
  BY <1>1 DEF Covered, Covers, Executing

LEMMA CallCover ==
  ASSUME TypeInv, CoverInv, NEW u \in Users, NEW x \in Tasks, Call(u, x)
  PROVE  CoverInv'
<1>t. /\ u \in Threads /\ At(u, "idle") /\ u # Boot /\ SuppressOK /\ disposing' = disposing
      /\ todo' = todo /\ Boot \in Threads
  BY SchedulerAssumption DEF CoverInv, Threads, Call, Pause, Cancel, StopTask, Resume, Create,
     Trigger, May
<1>w. {"pause", "cancel", "resume", "create", "trigger"} \subseteq Ways
  BY DEF Ways
<1>m. \A op \in Ways : /\ Made(op, x) \in ThreadRecords /\ Made(op, x).task = x
                      /\ Made(op, x).how = op
  BY DEF Made, Idle, ThreadRecords, Labels
<1>c. \A t : ~Covers(u, t) /\ ~Suppresses(u, t)
  BY <1>t DEF Covers, Suppresses, Stops, Executing
<1>o. Moved(u) => (At(Boot, "over")' <=> At(Boot, "over"))
  BY <1>t DEF Moved
<1>q. ASSUME Moved(u), SuppressOK', unscheduled \subseteq unscheduled',
             \A t \in Tasks : t \in timers => Covered(t)',
             \A t \in Tasks : status'[t] = "active" => status[t] = "active" \/ Covered(t)'
      PROVE  CoverInv'
  <2>1. ASSUME NEW t \in Tasks, status[t] = "active" PROVE Covered(t)'
    <3>1. Covered(t) /\ (t \in todo => Covered(t)')
      BY <1>t, <2>1 DEF CoverInv, Covered
    <3> QED
      BY <1>q, <1>t, <1>c, <3>1, StillCovered
  <2> QED
    BY <1>q, <1>t, <1>o, <2>1 DEF CoverInv
<1>1. CASE Pause(u, x) \/ Cancel(u, x)
  <2>1. /\ Moved(u) /\ thread'[u].at \in {"pausing", "deleting"} /\ My(u)' = x
        /\ thread'[u].on = {running[x]} \ {None}
    <3>1. {running[x]} \ {None} \subseteq Threads
      BY DEF TypeInv, TypeOK
    <3>2. \A op \in {"pause", "cancel"} :
            /\ Watching(u, x, op) \in ThreadRecords /\ Watching(u, x, op).task = x
            /\ Watching(u, x, op).on = {running[x]} \ {None}
      BY <1>m, <1>w, <3>1 DEF Watching, ThreadRecords
    <3>3. {"pausing", "deleting"} \subseteq Labels
      BY DEF Labels
    <3> QED
      BY <1>1, <3>2, <3>3, CallMoves DEF Starts, ThreadRecords
  <2>2. Covered(x)'
    BY <1>t, <2>1 DEF Covered, Covers
  <2>3. /\ timers' = timers \ {x} /\ UNCHANGED <<status, unscheduled>>
        /\ suppress' = suppress \/ (running[x] # None /\ suppress' = suppress \cup {x})
    BY <1>1 DEF Pause, Cancel, StopTask, Running
  <2>4. running[x] # None => Suppresses(u, x)'
    BY <2>1 DEF Suppresses, Stops
  <2>5. SuppressOK'
    BY <1>t, <1>c, <2>1, <2>3, <2>4, StillSuppressed
  <2>6. \A t \in Tasks : t \in timers => Covered(t)'
    BY <2>2, <2>3 DEF Covered
  <2> QED
    BY <1>q, <2>1, <2>3, <2>5, <2>6
<1>2. CASE Resume(u, x)
  <2>1. Moved(u) /\ UNCHANGED <<status, timers, unscheduled, suppress>>
    BY <1>2, CallMoves DEF Starts, Resume
  <2>2. SuppressOK'
    BY <1>t, <1>c, <2>1, StillSuppressed
  <2> QED
    BY <1>q, <2>1, <2>2 DEF Covered
<1>3. CASE Create(u, x)
  <2>1. Schedules(u, Made("create", x)) /\ suppress' = suppress
        /\ status' = [status EXCEPT ![x] = "active"]
    BY <1>3, CallMoves DEF Create
  <2>2. Covered(x)' /\ Moved(u) /\ timers \subseteq timers' /\ unscheduled \subseteq unscheduled'
    <3> DEFINE rec == Made("create", x)
    <3>1. rec \in ThreadRecords /\ rec.task = x /\ rec.how = "create" /\ Schedules(u, rec)
      BY <1>m, <1>w, <2>1
    <3> HIDE DEF rec
    <3>2. Covered(rec.task)'
      BY <1>t, <3>1, ScheduledIsCovered
    <3>3. Moved(u) /\ timers \subseteq timers' /\ unscheduled \subseteq unscheduled'
      BY <1>t, <3>1, AfterSchedules DEF Schedules
    <3>4. rec.task = x
      BY <3>1
    <3> QED
      BY <1>m, <1>w, <3>2, <3>3, <3>4
  <2>3. SuppressOK'
    BY <1>t, <1>c, <2>1, <2>2, StillSuppressed
  <2>4. \A t \in Tasks : status'[t] = "active" => status[t] = "active" \/ t = x
    BY <2>1 DEF TypeInv, TypeOK
  <2> QED
    BY <1>q, <2>2, <2>3, <2>4 DEF Covered
<1>4. CASE Trigger(u, x)
  <2>1. Executes(u, Made("trigger", x)) /\ UNCHANGED <<timers, status, suppress>>
    BY <1>4, CallMoves DEF Trigger
  <2>2. Moved(u) /\ unscheduled \subseteq unscheduled'
    <3> DEFINE rec == Made("trigger", x)
    <3>1. rec \in ThreadRecords /\ Executes(u, rec)
      BY <1>m, <1>w, <2>1
    <3> HIDE DEF rec
    <3> QED
      BY <1>t, <3>1, AfterExecutes DEF Executes
  <2>3. SuppressOK'
    BY <1>t, <1>c, <2>1, <2>2, StillSuppressed
  <2> QED
    BY <1>q, <2>1, <2>2, <2>3 DEF Covered
<1> QED
  BY <1>1, <1>2, <1>3, <1>4 DEF Call

LEMMA OtherCover ==
  ASSUME TypeInv, CoverInv,
         \/ \E t \in Tasks : Fire(t) \/ Tick(t)
         \/ \E u \in Users : Dispose(u)
         \/ Restore \/ RestoreNext \/ Crash
  PROVE  CoverInv'
<1>t. /\ Boot \in Threads /\ Boot \notin Timers \cup Users /\ SuppressOK
      /\ Timers \cup Users \subseteq Threads /\ thread \in [Threads -> ThreadRecords]
      /\ todo \subseteq Tasks
  BY SchedulerAssumption DEF TypeInv, TypeOK, Threads, CoverInv
<1>1. ASSUME NEW x \in Tasks, Tick(x) PROVE CoverInv'
  <2>1. UNCHANGED <<thread, timers, unscheduled, todo, status, disposing, suppress>>
    BY <1>1 DEF Tick
  <2> QED
    BY <2>1 DEF CoverInv, Covered, Covers, SuppressOK, Suppresses, Stops, Executing
<1>2. ASSUME NEW x \in Tasks, Fire(x) PROVE CoverInv'
  <2>1. PICK h \in Timers : Starts(h, [Idle EXCEPT !.how = "fire", !.task = x], "look")
    BY <1>2, FireMoves
  <2>2. /\ h \in Threads /\ h # Boot /\ Moved(h) /\ At(h, "idle")
        /\ thread'[h].at = "look" /\ My(h)' = x
    BY <1>t, <2>1 DEF Starts, Idle
  <2>3. /\ timers' = timers \ {x}
        /\ UNCHANGED <<unscheduled, todo, status, disposing, suppress>>
    BY <1>2 DEF Fire
  <2>4. Covered(x)'
    BY <2>2 DEF Covered, Covers
  <2>5. \A t : ~Covers(h, t) /\ ~Suppresses(h, t)
    BY <2>2 DEF Covers, Suppresses, Stops, Executing
  <2>6. ASSUME NEW t \in Tasks, Covered(t) PROVE Covered(t)'
    <3>1. (t \in timers => Covered(t)') /\ (t \in todo => Covered(t)')
      BY <2>3, <2>4 DEF Covered
    <3> QED
      BY <2>2, <2>3, <2>5, <2>6, <3>1, StillCovered
  <2>7. SuppressOK'
    BY <1>t, <2>2, <2>3, <2>5, StillSuppressed
  <2> QED
    BY <1>t, <2>2, <2>3, <2>6, <2>7 DEF CoverInv, Moved
<1>3. ASSUME NEW u \in Users, Dispose(u) PROVE CoverInv'
  <2>1. disposing' = "on" /\ todo' = todo /\ (At(Boot, "over")' <=> At(Boot, "over"))
    BY <1>t, <1>3, DisposeMoves DEF Dispose, Moved
  <2> QED
    BY <2>1 DEF CoverInv, Covered, SuppressOK
<1>4. CASE Restore
  <2>1. /\ Moved(Boot) /\ At(Boot, "boot")'
        /\ todo' = {t \in Tasks : status[t] = "active"} /\ UNCHANGED <<status, suppress, disposing>>
    BY <1>t, <1>4, BootMoves DEF Sits, ThreadRecords, Labels, Restore
  <2>2. SuppressOK'
    <3>1. \A t : ~Suppresses(Boot, t)
      BY <1>4 DEF Restore, Suppresses, Stops
    <3> QED
      BY <1>t, <2>1, <3>1, StillSuppressed
  <2> QED
    BY <2>1, <2>2 DEF CoverInv, Covered
<1>5. CASE RestoreNext
  <2>1. At(Boot, "boot") /\ UNCHANGED <<status, suppress, disposing>>
    BY <1>5 DEF RestoreNext
  <2>2. \A t : ~Covers(Boot, t) /\ ~Suppresses(Boot, t)
    BY <2>1 DEF Covers, Suppresses, Stops, Executing
  <2>3. Moved(Boot) => SuppressOK'
    BY <1>t, <2>1, <2>2, StillSuppressed
  <2>4. CASE /\ Moved(Boot) /\ todo = {} /\ UNCHANGED <<timers, todo, unscheduled>>
    <3>1. \A t \in Tasks : Covered(t) => Covered(t)'
      BY <1>t, <2>1, <2>2, <2>4, StillCovered DEF Covered
    <3> QED
      BY <2>1, <2>3, <2>4, <3>1 DEF CoverInv
  <2>5. ASSUME NEW x \in todo, todo' = todo \ {x}, Schedules(Boot, Made("restore", x))
        PROVE  CoverInv'
    <3> DEFINE rec == Made("restore", x)
    <3>1. /\ rec \in ThreadRecords /\ rec.task = x /\ rec.how = "restore"
          /\ Schedules(Boot, rec)
      BY <1>t, <2>5 DEF Made, Idle, ThreadRecords, Labels, Ways
    <3> HIDE DEF rec
    <3>2. Covered(rec.task)'
      BY <1>t, <3>1, ScheduledIsCovered
    <3>3. /\ Moved(Boot) /\ timers \subseteq timers' /\ unscheduled \subseteq unscheduled'
          /\ ~At(Boot, "over")'
      <4>1. /\ timers \subseteq timers' /\ unscheduled \subseteq unscheduled'
            /\ \/ thread'[Boot].at \in {"again", "record", "next", "mark", "disable"}
               \/ Rested(Boot)
        BY <1>t, <3>1, AfterSchedules
      <4>2. Rested(Boot) => thread'[Boot].at = "boot"
        BY <1>t DEF Rested, Idle, Rest
      <4> QED
        BY <3>1, <4>1, <4>2 DEF Schedules
    <3>4. ASSUME NEW t \in Tasks, Covered(t) PROVE Covered(t)'
      <4>1. CASE t = x
        <5>1. rec.task = x
          BY <3>1
        <5> QED
          BY <3>2, <4>1, <5>1 DEF Covered, Covers, Executing
      <4>2. CASE t # x
        <5>1. (t \in timers => Covered(t)') /\ (t \in todo => Covered(t)')
          BY <2>5, <3>3, <4>2 DEF Covered
        <5> QED
          BY <1>t, <2>1, <2>2, <3>3, <3>4, <5>1, StillCovered
      <4> QED
        BY <4>1, <4>2
    <3> QED
      BY <2>1, <2>3, <3>3, <3>4 DEF CoverInv
  <2> QED
    BY <1>5, <2>4, <2>5, BootMoves
<1>6. CASE Crash
  <2>1. At(Boot, "idle")' /\ suppress' = {}
    BY <1>t, <1>6 DEF Crash, Idle
  <2> QED
    BY <2>1 DEF CoverInv, Covered, SuppressOK
<1> QED
  BY <1>1, <1>2, <1>3, <1>4, <1>5, <1>6

LEMMA CoverStep == TypeInv /\ OnceInv /\ CoverInv /\ [Next]_vars => CoverInv'
<1> SUFFICES ASSUME TypeInv, CallsOK, CoverInv, [Next]_vars PROVE CoverInv'
  BY DEF OnceInv
<1>1. CASE UNCHANGED vars
  BY <1>1 DEF vars, CoverInv, Covered, Covers, SuppressOK, Suppresses, Stops, Executing
<1> QED
  BY <1>1, StepCases, WorkCover, CloseCover, FreeCover, CallCover, OtherCover

-----------------------------------------------------------------------------
(* The theorems.                                                           *)

LEMMA InitInv == Init => TypeInv /\ OnceInv /\ CoverInv
<1> SUFFICES ASSUME Init PROVE TypeInv /\ OnceInv /\ CoverInv
  OBVIOUS
<1>t. /\ \A h \in Threads : thread[h] = Idle
      /\ Idle \in ThreadRecords /\ Boot \in Threads
  BY DEF Init, Idle, ThreadRecords, Labels, Ways, Threads
<1>i. Idle.at = "idle" /\ Idle.how = "none" /\ Idle.task = None /\ Idle.tries = 0
  BY DEF Idle
<1>1. TypeInv
  <2>1. /\ scene \in Scenes /\ running \in [Tasks -> Threads \cup {None}]
        /\ \A t \in Tasks : running[t] = None /\ (t \notin scene => status[t] = "new")
        /\ aborted = {}
    BY DEF Init
  <2>2. ThreadsOK
    <3>1. thread \in [Threads -> ThreadRecords]
      BY <1>t DEF Init
    <3> QED
      BY <1>t, <1>i, <2>1, <3>1 DEF ThreadsOK, RecOK, Taskless, UserLabels
  <2>3. RunningOK
    BY <1>t, <1>i, <2>1 DEF RunningOK, Taskless, UserLabels
  <2>4. DataOK
    <3>1. /\ holder \in [{Key} -> Threads \cup {None}] /\ wanted \in [{Key} -> SUBSET Threads]
      BY DEF Init, Lease!LeaseInit
    <3>2. fires \in 0..MaxFires /\ fired \in [Tasks -> Nat]
      BY SchedulerAssumption DEF Init
    <3> QED
      BY <3>1, <3>2 DEF Init, DataOK
  <2> QED
    BY <2>1, <2>2, <2>3, <2>4, TypeParts DEF TypeInv
<1>2. OnceInv
  <2>1. \A h \in Threads, t \in Tasks : ~Chance(h, t) /\ ~Due(h, t)
    BY <1>t, <1>i DEF Chance, Due, Unbegun
  <2>2. CallsOK
    BY <1>t, <1>i DEF CallsOK, CallOK
  <2>3. ASSUME NEW t \in Once PROVE Single(t)
    BY <2>1, SchedulerAssumption DEF Init, Single
  <2> QED
    BY <2>2, <2>3 DEF OnceInv
<1>3. CoverInv
  BY <1>t, <1>i DEF CoverInv, Covered, SuppressOK, Init
<1> QED
  BY <1>1, <1>2, <1>3

THEOREM SchedulerInv == Spec => [](TypeInv /\ OnceInv /\ CoverInv)
<1>1. TypeInv /\ OnceInv /\ CoverInv /\ [Next]_vars => (TypeInv /\ OnceInv /\ CoverInv)'
  BY TypeStep, OnceStep, CoverStep
<1> QED
  BY <1>1, InitInv, PTL DEF Spec

\* The types of the database, of the scheduler's memory and of its calls.
THEOREM SchedulerTypes == Spec => []TypeOK
<1>1. TypeInv => TypeOK
  BY DEF TypeInv
<1> QED
  BY <1>1, SchedulerInv, PTL

\* A one-shot task that nobody resumes is begun at most once by the scheduler,
\* across a crash and the restoration (markOnceTaskTriggered).
THEOREM BegunOnce == Spec => []OnceOnly
<1>1. OnceInv => OnceOnly
  BY DEF OnceInv, Single, OnceOnly
<1> QED
  BY <1>1, SchedulerInv, PTL

\* When nothing is under way, every active task has its timer, whatever was
\* paused, resumed, refused or crashed on the way, unless scheduling it failed.
THEOREM ActiveIsScheduled == Spec => []ActiveHasTimer
<1>1. TypeInv /\ CoverInv => ActiveHasTimer
  <2> SUFFICES ASSUME TypeInv, CoverInv, Quiet, NEW t \in Tasks, status[t] = "active"
               PROVE  t \in timers \cup unscheduled
    BY DEF ActiveHasTimer
  <2>1. Covered(t) /\ todo = {} /\ ~At(Boot, "idle") /\ disposing = "no"
    BY DEF CoverInv, Quiet
  <2>2. \A h \in Threads : ~Covers(h, t)
    BY DEF Quiet, Covers, Executing
  <2> QED
    BY <2>1, <2>2 DEF Covered
<1> QED
  BY <1>1, SchedulerInv, PTL
=============================================================================
