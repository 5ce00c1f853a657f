---------------------------- MODULE PipelineProofs ----------------------------
(***************************************************************************)
(* Proofs about the task queue and a pipeline's stage on it, for any tasks *)
(* and ids, any priorities, retries and signals, any concurrency and any   *)
(* length of the history: the queue accounts for each task, whoever uses   *)
(* it, and a handler has its row for itself.                               *)
(***************************************************************************)
EXTENDS Pipeline, TLAPS, FiniteSetTheorems, SequenceTheorems

-----------------------------------------------------------------------------
(* The inductive invariant.                                                *)

TaskInfo ==
  [exec : Execs, out : {"none", "ok", "error"},
   status : Final \cup {"pending", "running"},
   tries : Nat, known : BOOLEAN, settled : BOOLEAN,
   aborted : BOOLEAN, told : 0..2,
   promise : {"none", "open", "resolved", "rejected"}]

\* A cancellation after a failed attempt, of which nothing is promised.
Late(k) == k.aborted /\ k.tries > 0
Untold(k) == k.told = 0 /\ k.promise = "open"
Told(k) == k.told = 1 /\ k.status \in Final

\* What is known of a task by where it stands.
WhileQueued(k) ==
  k.exec = "queued" =>
    /\ k.tries = 0 /\ ~k.known /\ ~k.settled
    /\ IF k.status = "pending" THEN Untold(k)
       ELSE /\ k.status = "cancelled" /\ k.aborted
            /\ k.told = 1 /\ k.promise = "rejected"

WhileTried(k) ==
  /\ k.exec \in {"race", "ended", "delay"} =>
       k.status = "running" /\ Untold(k) /\ ~k.settled
  /\ k.exec = "race" => ~k.aborted
  /\ k.exec = "ended" => k.out \in {"ok", "error"}
  /\ k.exec = "delay" => k.tries > 0
  /\ k.exec = "lost" =>
       /\ k.status = "cancelled" /\ k.aborted /\ k.told = 1 /\ k.promise = "open"
       /\ k.settled = k.known
  /\ k.exec \in {"race", "ended", "lost"} /\ k.tries = 0 => k.known

WhileLeaving(k) ==
  k.exec = "leaving" =>
    /\ k.status # "pending" /\ k.out \in {"ok", "error"}
    /\ k.promise \in {"open", "rejected"}
    /\ k.promise = "rejected" => k.out = "error"
    /\ Late(k) \/ (Told(k) /\ (k.out = "ok" <=> k.status = "completed"))

WhenOver(k) ==
  k.exec = "over" =>
    /\ k.status # "pending" /\ k.promise \in {"rejected", "resolved"}
    /\ Late(k) \/ (Told(k) /\ (k.promise = "resolved" <=> k.status = "completed"))

Life(k) ==
  /\ k.exec = "none" => k = NewTask
  /\ WhileQueued(k) /\ WhileTried(k) /\ WhileLeaving(k) /\ WhenOver(k)

\* A task that must be found by its id; one whose record may be cleaned up.
Findable(k) ==
  k.promise = "open" /\ (k.tries = 0 \/ (k.exec = "delay" /\ k.tries = 1))
Cleanable(k) ==
  \/ k.exec \in {"leaving", "over"}
  \/ k.tries > 1
  \/ k.tries = 1 /\ k.exec # "delay"

InLine == {line[i] : i \in DOMAIN line}

\* The line holds queued tasks, each once; a queue that stops has none left.
LineOK ==
  /\ \A t \in InLine : Exec(t) = "queued"
  /\ \A i, j \in DOMAIN line : line[i] = line[j] => i = j
  /\ stop # "no" => \A t \in Tasks : Exec(t) # "queued"

\* A record is that of a task that was added, under the task's own id.
RecordsOK == \A i \in Ids : record[i] # None =>
  Id[record[i]] = i /\ Exec(record[i]) # "none"

QueueInv ==
  /\ TypeOK
  /\ \A t \in Tasks : Life(task[t])
  /\ LineOK
  /\ RecordsOK
  /\ \A t \in due : Cleanable(task[t])
  /\ OpenIsRecorded
  /\ StopIsFinal

\* A stage has no tasks open but those of its batch.
BatchOK ==
  client = "stage" =>
    /\ \A t \in Tasks : Open(t) => t \in batch
    /\ poll # "batch" => batch = {}

\* A row that nobody has claimed since is at no handler and at no rival.
RowsOK == \A i \in Rows : row[i] = "from" =>
  /\ i \notin rival
  /\ \A t \in Tasks : Id[t] = i => body[t] \notin {"handle", "apply"}

StageInv == QueueInv /\ StageTypeOK /\ BatchOK /\ RowsOK /\ HandlerOwnsRow

-----------------------------------------------------------------------------
(* What an operation makes of one task.                                    *)

\* How a task goes on: it keeps the order of its life, is not opened again, and
\* is neither to be found nor kept where it was not before.
GoesOn(k, l) ==
  /\ l \in TaskInfo /\ Life(l)
  /\ l.promise = "open" => k.promise = "open"
  /\ l.exec = "queued" => k.exec = "queued"
  /\ l.exec = "none" <=> k.exec = "none"
  /\ l.exec \in InPlace => k.exec \in InPlace \cup {"queued"}
  /\ Findable(l) => Findable(k)
  /\ Cleanable(k) => Cleanable(l)

LEMMA StaysSame ==
  ASSUME NEW k \in TaskInfo, Life(k)
  PROVE  GoesOn(k, k)
  BY DEF GoesOn, InPlace

\* What fields a terminal event and a cancellation change (emit, settleCancelled).
LEMMA TellFields ==
  ASSUME NEW k \in TaskInfo, k.told < 2, NEW s \in Final, NEW l, l = Tell(k, s)
  PROVE  /\ l \in TaskInfo
         /\ l.exec = k.exec /\ l.out = k.out /\ l.status = s
         /\ l.tries = k.tries /\ l.known = k.known /\ l.settled = k.settled
         /\ l.aborted = k.aborted /\ l.told = k.told + 1 /\ l.promise = k.promise
<1>1. k.told + 1 \in 0..2
  BY DEF TaskInfo
<1>2. l = [k EXCEPT !.status = s, !.told = k.told + 1]
  BY DEF Tell, TaskInfo
<1>3. QED
  BY <1>1, <1>2 DEF TaskInfo

LEMMA SettleFields ==
  ASSUME NEW k \in TaskInfo, k.told < 2, NEW l, l = SettleCancelled(k),
         ~(k.known /\ k.settled)
  PROVE  /\ l \in TaskInfo
         /\ l.exec = k.exec /\ l.out = k.out /\ l.status = "cancelled"
         /\ l.tries = k.tries /\ l.known = k.known /\ l.settled = k.known
         /\ l.aborted = TRUE /\ l.told = k.told + 1 /\ l.promise = k.promise
<1> DEFINE m == Tell(k, "cancelled")
<1>1. l = [m EXCEPT !.settled = k.known, !.aborted = TRUE]
  BY DEF SettleCancelled
<1>2. /\ m \in TaskInfo
      /\ m.exec = k.exec /\ m.out = k.out /\ m.status = "cancelled"
      /\ m.tries = k.tries /\ m.known = k.known /\ m.told = k.told + 1
      /\ m.promise = k.promise
  BY TellFields DEF Final
<1>3. k.known \in BOOLEAN
  BY DEF TaskInfo
<1> HIDE DEF m
<1>4. QED
  BY <1>1, <1>2, <1>3 DEF TaskInfo

\* The controller is aborted, of any task that was added (settleCancelled).
LEMMA AbortOK ==
  ASSUME NEW k \in TaskInfo, Life(k), k.exec # "none"
  PROVE  GoesOn(k, Abort(k))
<1> DEFINE l == Abort(k)
<1>1. CASE k.exec = "race"
  <2>1. k.told = 0 /\ k.promise = "open" /\ ~k.settled /\ k.status = "running"
    BY <1>1 DEF Life, WhileTried, Untold
  <2> DEFINE a == [k EXCEPT !.aborted = TRUE]
             c == SettleCancelled(a)
  <2>2. /\ a \in TaskInfo /\ a.told = 0 /\ ~a.settled /\ a.known = k.known
        /\ a.tries = k.tries /\ a.promise = "open"
    <3>1. a \in TaskInfo
      BY DEF TaskInfo
    <3>2. /\ a.told = k.told /\ a.settled = k.settled /\ a.known = k.known
          /\ a.tries = k.tries /\ a.promise = k.promise
      BY DEF TaskInfo
    <3>3. QED
      BY <2>1, <3>1, <3>2
  <2>3. l = [c EXCEPT !.exec = "lost"]
    BY <1>1 DEF Abort
  <2> HIDE DEF a
  <2>4. c = SettleCancelled(a)
    OBVIOUS
  <2> HIDE DEF c
  <2>5. a.told < 2 /\ ~(a.known /\ a.settled)
    BY <2>2
  <2>6. /\ c \in TaskInfo /\ c.status = "cancelled" /\ c.tries = a.tries
        /\ c.known = a.known /\ c.settled = a.known /\ c.aborted = TRUE
        /\ c.told = a.told + 1 /\ c.promise = a.promise
    BY <2>2, <2>4, <2>5, SettleFields
  <2>7. /\ c \in TaskInfo /\ c.status = "cancelled" /\ c.tries = k.tries
        /\ c.known = k.known /\ c.settled = k.known /\ c.aborted = TRUE
        /\ c.told = 1 /\ c.promise = "open"
    BY <2>2, <2>6
  <2> HIDE DEF l
  <2>8. /\ l \in TaskInfo /\ l.exec = "lost" /\ l.status = "cancelled"
        /\ l.tries = k.tries /\ l.known = k.known /\ l.settled = k.known
        /\ l.aborted = TRUE /\ l.told = 1 /\ l.promise = "open"
    BY <2>3, <2>7 DEF TaskInfo, Execs
  <2>9. Life(l)
    BY <1>1, <2>1, <2>8 DEF Life, WhileQueued, WhileTried, WhileLeaving, WhenOver
  <2>10. GoesOn(k, l)
    BY <1>1, <2>1, <2>8, <2>9 DEF GoesOn, Findable, Cleanable, InPlace
  <2>11. QED
    BY <2>10 DEF l
<1>2. CASE k.exec \in {"leaving", "over"}
  <2>1. l = k
    BY <1>2 DEF Abort
  <2>2. QED
    BY <2>1, StaysSame
<1>3. CASE k.exec \in {"queued", "ended", "lost", "delay"}
  <2>1. l = [k EXCEPT !.aborted = TRUE]
    BY <1>3 DEF Abort
  <2> HIDE DEF l
  <2>2. /\ l \in TaskInfo /\ l.exec = k.exec /\ l.out = k.out /\ l.status = k.status
        /\ l.tries = k.tries /\ l.known = k.known /\ l.settled = k.settled
        /\ l.aborted = TRUE /\ l.told = k.told /\ l.promise = k.promise
    BY <2>1 DEF TaskInfo
  <2>3. Life(l)
    BY <1>3, <2>2 DEF Life, WhileQueued, WhileTried, WhileLeaving, WhenOver, Untold
  <2>4. GoesOn(k, l)
    BY <2>2, <2>3 DEF GoesOn, Findable, Cleanable
  <2>5. QED
    BY <2>4 DEF l
<1>4. QED
  BY <1>1, <1>2, <1>3 DEF TaskInfo, Execs

\* A task that has not started is cancelled (cancelPendingTask), ...
LEMMA CancelPendingOK ==
  ASSUME NEW k \in TaskInfo, Life(k), k.exec = "queued", k.status = "pending"
  PROVE  /\ GoesOn(k, CancelPending(k))
         /\ ~Findable(CancelPending(k))
         /\ CancelPending(k).status = "cancelled" /\ CancelPending(k).told = 1
         /\ CancelPending(k).promise = "rejected" /\ CancelPending(k).aborted = TRUE
<1> DEFINE m == Tell(k, "cancelled")
           l == CancelPending(k)
<1>1. k.told = 0 /\ k.promise = "open" /\ k.tries = 0 /\ ~k.known /\ ~k.settled
  BY DEF Life, WhileQueued, Untold
<1>2. /\ m \in TaskInfo /\ m.exec = "queued" /\ m.out = k.out /\ m.status = "cancelled"
      /\ m.tries = 0 /\ ~m.known /\ ~m.settled /\ m.told = 1
  BY <1>1, TellFields DEF Final
<1>3. l = [m EXCEPT !.promise = "rejected", !.aborted = TRUE]
  BY DEF CancelPending, Reject
<1> HIDE DEF m, l
<1>4. /\ l \in TaskInfo /\ l.exec = "queued" /\ l.status = "cancelled"
      /\ l.tries = 0 /\ ~l.known /\ ~l.settled /\ l.told = 1
      /\ l.promise = "rejected" /\ l.aborted = TRUE
  BY <1>2, <1>3 DEF TaskInfo
<1>5. Life(l)
  BY <1>4 DEF Life, WhileQueued, WhileTried, WhileLeaving, WhenOver
<1>6. GoesOn(k, l) /\ ~Findable(l)
  BY <1>1, <1>4, <1>5 DEF GoesOn, Findable, Cleanable, InPlace
<1>7. QED
  BY <1>4, <1>6 DEF l

\* ... or dropped with the line it waits in (clear, stop).  One that keeps silent
\* was cancelled before.
LEMMA DropOK ==
  ASSUME NEW k \in TaskInfo, Life(k), NEW r \in BOOLEAN,
         r => k.exec = "queued" /\ k.status = "pending",
         k.exec = "queued" /\ k.status = "pending" => r
  PROVE  /\ GoesOn(k, Drop(k, r)) /\ Drop(k, r).exec # "queued"
         /\ r => ~Findable(Drop(k, r))
<1> DEFINE l == Drop(k, r)
<1>1. CASE k.exec # "queued"
  <2>1. l = k
    BY <1>1 DEF Drop
  <2>2. QED
    BY <1>1, <2>1, StaysSame
<1>2. CASE k.exec = "queued" /\ ~r
  <2>1. l = [k EXCEPT !.exec = "over"]
    BY <1>2 DEF Drop
  <2>2. /\ k.status = "cancelled" /\ k.aborted /\ k.told = 1
        /\ k.promise = "rejected" /\ k.tries = 0
    BY <1>2 DEF Life, WhileQueued
  <2> HIDE DEF l
  <2>3. /\ l \in TaskInfo /\ l.exec = "over" /\ l.status = "cancelled"
        /\ l.tries = 0 /\ l.aborted /\ l.told = 1 /\ l.promise = "rejected"
    BY <2>1, <2>2 DEF TaskInfo, Execs
  <2>4. Life(l)
    BY <2>3 DEF Life, WhileQueued, WhileTried, WhileLeaving, WhenOver, Told, Final
  <2>5. GoesOn(k, l) /\ l.exec # "queued"
    BY <1>2, <2>3, <2>4 DEF GoesOn, Findable, Cleanable, InPlace
  <2>6. QED
    BY <1>2, <2>5 DEF l
<1>3. CASE k.exec = "queued" /\ r
  <2> DEFINE m == Tell(k, "cancelled")
             d == Reject(k)
  <2>1. k.told = 0 /\ k.promise = "open" /\ k.tries = 0
    BY <1>3 DEF Life, WhileQueued, Untold
  <2>2. /\ m \in TaskInfo /\ m.exec = "queued" /\ m.status = "cancelled"
        /\ m.tries = 0 /\ m.told = 1
    BY <1>3, <2>1, TellFields DEF Final
  <2>3. d = [m EXCEPT !.promise = "rejected"]
    BY DEF Reject
  <2> HIDE DEF m
  <2>4. /\ d \in TaskInfo /\ d.exec = "queued" /\ d.status = "cancelled"
        /\ d.tries = 0 /\ d.told = 1 /\ d.promise = "rejected"
    BY <2>2, <2>3 DEF TaskInfo
  <2>5. l = [d EXCEPT !.exec = "over"]
    BY <1>3, <2>4 DEF Drop
  <2> HIDE DEF d, l
  <2>6. /\ l \in TaskInfo /\ l.exec = "over" /\ l.status = "cancelled"
        /\ l.tries = 0 /\ l.told = 1 /\ l.promise = "rejected"
    BY <2>4, <2>5 DEF TaskInfo, Execs
  <2>7. Life(l)
    BY <2>6 DEF Life, WhileQueued, WhileTried, WhileLeaving, WhenOver, Told, Final
  <2>8. GoesOn(k, l) /\ l.exec # "queued" /\ ~Findable(l)
    BY <1>3, <2>6, <2>7 DEF GoesOn, Findable, Cleanable, InPlace
  <2>9. QED
    BY <2>8 DEF l
<1>4. QED
  BY <1>1, <1>2, <1>3

\* The beginning of an attempt (attempt); one that was cancelled in the line has
\* had its answer.
LEMMA BeginOK ==
  ASSUME NEW t \in Tasks, task[t] \in TaskInfo, Life(task[t]),
         task[t].exec \in {"queued", "delay"},
         task[t].exec = "queued" /\ task[t].status = "pending" => record[Id[t]] = t
  PROVE  /\ GoesOn(task[t], Begin(t)) /\ Begin(t).exec \in {"race", "leaving"}
         /\ task[t].aborted => ~Findable(Begin(t))
         /\ task[t].exec = "delay" => Cleanable(Begin(t))
<1> DEFINE k == task[t]
           l == Begin(t)
<1>1. CASE ~k.aborted
  <2>1. l = [k EXCEPT !.exec = "race", !.status = "running",
                      !.known = (record[Id[t]] = t)]
    BY <1>1 DEF Begin
  <2>2. /\ k.told = 0 /\ k.promise = "open" /\ ~k.settled
        /\ k.exec = "queued" => k.tries = 0 /\ record[Id[t]] = t
        /\ k.exec = "delay" => k.tries > 0
    BY <1>1 DEF Life, WhileQueued, WhileTried, Untold
  <2> HIDE DEF l
  <2>3. l \in TaskInfo
    BY <2>1 DEF TaskInfo, Execs
  <2>4. /\ l.exec = "race" /\ l.status = "running" /\ l.known = (record[Id[t]] = t)
        /\ l.tries = k.tries /\ l.told = k.told /\ l.promise = k.promise
        /\ l.settled = k.settled /\ l.aborted = k.aborted
    BY <2>1 DEF TaskInfo
  <2>5. Life(l)
    <3>1. k.tries = 0 => record[Id[t]] = t
      BY <2>2
    <3>2. l.tries = 0 => l.known
      BY <2>4, <3>1, Zenon
    <3>3. l.told = 0 /\ l.promise = "open" /\ ~l.settled /\ ~l.aborted
      BY <1>1, <2>2, <2>4
    <3>4. QED
      BY <2>4, <3>2, <3>3
      DEF Life, WhileQueued, WhileTried, WhileLeaving, WhenOver, Untold
  <2>6. GoesOn(k, l) /\ (k.exec = "delay" => Cleanable(l))
    BY <2>2, <2>3, <2>4, <2>5 DEF GoesOn, Findable, Cleanable, InPlace, TaskInfo
  <2>7. QED
    BY <1>1, <2>4, <2>6 DEF l
<1>2. CASE k.aborted
  <2> DEFINE m == IF StillListed(t) THEN CancelPending(k) ELSE k
  <2>1. l = [m EXCEPT !.exec = "leaving", !.out = "error"]
    BY <1>2 DEF Begin
  <2>2. /\ m \in TaskInfo /\ m.aborted /\ m.tries = k.tries
        /\ k.exec = "queued" =>
             m.status = "cancelled" /\ m.told = 1 /\ m.promise = "rejected"
        /\ k.exec = "delay" => m.status = "running" /\ m.promise = "open"
    <3>1. CASE k.exec = "queued" /\ k.status = "pending"
      <4>1. m = CancelPending(k)
        BY <3>1 DEF StillListed
      <4>2. /\ GoesOn(k, m) /\ m.status = "cancelled" /\ m.told = 1
            /\ m.promise = "rejected" /\ m.aborted = TRUE
        BY <3>1, <4>1, CancelPendingOK
      <4> HIDE DEF m
      <4>3. m.tries = k.tries
        <5>1. k.tries = 0 /\ k.status = "pending" /\ k.exec = "queued"
          BY <3>1 DEF Life, WhileQueued
        <5>2. Tell(k, "cancelled").tries = k.tries /\ Tell(k, "cancelled") \in TaskInfo
          BY <3>1, TellFields DEF Life, WhileQueued, Untold, Final
        <5>3. m = [Tell(k, "cancelled") EXCEPT !.promise = "rejected", !.aborted = TRUE]
          BY <4>1 DEF CancelPending, Reject
        <5>4. QED
          BY <5>2, <5>3 DEF TaskInfo
      <4>4. QED
        BY <3>1, <4>2, <4>3 DEF GoesOn
    <3>2. CASE k.exec = "queued" /\ k.status # "pending"
      BY <1>2, <3>2 DEF StillListed, Life, WhileQueued
    <3>3. CASE k.exec = "delay"
      BY <1>2, <3>3 DEF StillListed, Life, WhileTried, Untold
    <3>4. QED
      BY <3>1, <3>2, <3>3
  <2> HIDE DEF m, l
  <2>3. /\ l \in TaskInfo /\ l.exec = "leaving" /\ l.out = "error" /\ l.aborted
        /\ l.status = m.status /\ l.promise = m.promise /\ l.told = m.told
        /\ l.tries = k.tries
    BY <2>1, <2>2 DEF TaskInfo, Execs
  <2>4. k.exec = "delay" => k.tries > 0
    BY DEF Life, WhileTried
  <2>5. Life(l)
    BY <2>2, <2>3, <2>4
    DEF Life, WhileQueued, WhileTried, WhileLeaving, WhenOver, Late, Told, Final
  <2>6. GoesOn(k, l) /\ ~Findable(l) /\ Cleanable(l)
    <3>1. k.exec = "delay" => k.promise = "open"
      BY DEF Life, WhileTried, Untold
    <3>2. QED
      BY <2>2, <2>3, <2>4, <2>5, <3>1 DEF GoesOn, Findable, Cleanable, InPlace
  <2>7. QED
    BY <2>3, <2>6 DEF l
<1>3. QED
  BY <1>1, <1>2

\* The function ends the race (Return), or its time limit does.
LEMMA EndedOK ==
  ASSUME NEW k \in TaskInfo, Life(k), k.exec = "race", NEW o \in {"ok", "error"},
         NEW l, l = [k EXCEPT !.exec = "ended", !.out = o]
  PROVE  GoesOn(k, l)
<1>1. /\ l \in TaskInfo /\ l.exec = "ended" /\ l.out = o /\ l.status = k.status
      /\ l.tries = k.tries /\ l.known = k.known /\ l.settled = k.settled
      /\ l.told = k.told /\ l.promise = k.promise
  BY DEF TaskInfo, Execs
<1>2. Life(l)
  BY <1>1 DEF Life, WhileQueued, WhileTried, WhileLeaving, WhenOver, Untold
<1>3. QED
  BY <1>1, <1>2 DEF GoesOn, Findable, Cleanable, InPlace

LEMMA TimeoutOK ==
  ASSUME NEW k \in TaskInfo, Life(k), k.exec = "race",
         NEW l, l = [SettleCancelled(k) EXCEPT !.exec = "lost"]
  PROVE  GoesOn(k, l)
<1> DEFINE c == SettleCancelled(k)
<1>1. k.told = 0 /\ k.promise = "open" /\ ~k.settled
  BY DEF Life, WhileTried, Untold
<1>2. c = SettleCancelled(k)
  OBVIOUS
<1>3. k.told < 2 /\ ~(k.known /\ k.settled)
  BY <1>1
<1> HIDE DEF c
<1>4. /\ c \in TaskInfo /\ c.status = "cancelled" /\ c.tries = k.tries
      /\ c.known = k.known /\ c.settled = k.known /\ c.aborted = TRUE
      /\ c.told = k.told + 1 /\ c.promise = k.promise
  BY <1>2, <1>3, SettleFields
<1>5. /\ l \in TaskInfo /\ l.exec = "lost" /\ l.status = "cancelled"
      /\ l.tries = k.tries /\ l.known = k.known /\ l.settled = k.known
      /\ l.aborted = TRUE /\ l.told = k.told + 1 /\ l.promise = k.promise
  BY <1>2, <1>4 DEF TaskInfo, Execs
<1>6. Life(l)
  BY <1>1, <1>5 DEF Life, WhileQueued, WhileTried, WhileLeaving, WhenOver
<1>7. QED
  BY <1>1, <1>5, <1>6 DEF GoesOn, Findable, Cleanable, InPlace

\* The end of an attempt: cancelled, retried, or over with its own result.
LEMMA AfterOK ==
  ASSUME NEW t \in Tasks, NEW k \in TaskInfo, Life(k), k.exec \in {"ended", "lost"}
  PROVE  /\ GoesOn(k, After(k, t)) /\ After(k, t).exec # "queued"
         /\ ~Retried(k, t) => Cleanable(After(k, t))
<1> DEFINE l == After(k, t)
<1>1. CASE k.exec = "lost" /\ k.known
  <2>1. /\ k.aborted /\ k.settled /\ k.status = "cancelled" /\ k.told = 1
        /\ k.promise = "open"
    BY <1>1 DEF Life, WhileTried
  <2>2. l = [k EXCEPT !.exec = "leaving", !.out = "error"]
    BY <1>1, <2>1 DEF After, SettleCancelled
  <2> HIDE DEF l
  <2>3. /\ l \in TaskInfo /\ l.exec = "leaving" /\ l.out = "error" /\ l.aborted
        /\ l.status = k.status /\ l.told = k.told /\ l.promise = k.promise
        /\ l.tries = k.tries
    BY <2>1, <2>2 DEF TaskInfo, Execs
  <2>4. Life(l)
    BY <2>1, <2>3 DEF Life, WhileQueued, WhileTried, WhileLeaving, WhenOver, Told, Final
  <2>5. GoesOn(k, l) /\ l.exec # "queued" /\ Cleanable(l)
    BY <1>1, <2>1, <2>3, <2>4 DEF GoesOn, Findable, Cleanable, InPlace
  <2>6. QED
    BY <2>5 DEF l
<1>2. CASE k.aborted /\ (k.exec = "ended" \/ ~k.known)
  <2> DEFINE c == SettleCancelled(k)
  <2>1. /\ k.told < 2 /\ ~(k.known /\ k.settled) /\ k.promise = "open"
        /\ k.exec = "ended" => k.told = 0
        /\ k.exec = "lost" => k.tries > 0
    <3>1. CASE k.exec = "ended"
      BY <3>1 DEF Life, WhileTried, Untold
    <3>2. CASE k.exec = "lost"
      <4>1. ~k.known /\ k.tries # 0 /\ k.told = 1 /\ k.promise = "open"
        BY <1>2, <3>2 DEF Life, WhileTried
      <4>2. QED
        BY <3>2, <4>1 DEF TaskInfo
    <3>3. QED
      BY <3>1, <3>2
  <2>2. c = SettleCancelled(k)
    OBVIOUS
  <2>3. l = [c EXCEPT !.exec = "leaving", !.out = "error"]
    BY <1>2 DEF After
  <2> HIDE DEF c, l
  <2>4. /\ c \in TaskInfo /\ c.status = "cancelled" /\ c.tries = k.tries
        /\ c.aborted = TRUE /\ c.told = k.told + 1 /\ c.promise = k.promise
    BY <2>1, <2>2, SettleFields
  <2>5. /\ l \in TaskInfo /\ l.exec = "leaving" /\ l.out = "error" /\ l.aborted
        /\ l.status = "cancelled" /\ l.told = k.told + 1 /\ l.promise = "open"
        /\ l.tries = k.tries
    BY <2>1, <2>3, <2>4 DEF TaskInfo, Execs
  <2>6. Life(l)
    BY <2>1, <2>5
    DEF Life, WhileQueued, WhileTried, WhileLeaving, WhenOver, Late, Told, Final
  <2>7. GoesOn(k, l) /\ l.exec # "queued" /\ Cleanable(l)
    BY <2>1, <2>5, <2>6 DEF GoesOn, Findable, Cleanable, InPlace
  <2>8. QED
    BY <2>7 DEF l
<1>3. CASE ~k.aborted /\ Retried(k, t)
  <2>1. l = [k EXCEPT !.exec = "delay", !.tries = k.tries + 1]
    BY <1>3 DEF After, TaskInfo
  <2>2. /\ k.exec = "ended" /\ k.status = "running" /\ k.told = 0
        /\ k.promise = "open" /\ ~k.settled /\ k.tries \in Nat
    BY <1>3 DEF Life, WhileTried, Untold, TaskInfo
  <2> DEFINE n == k.tries + 1
  <2> HIDE DEF l
  <2>3. /\ l \in TaskInfo /\ l.exec = "delay" /\ l.status = k.status
        /\ l.tries = k.tries + 1 /\ l.told = k.told /\ l.promise = k.promise
        /\ l.settled = k.settled
    <3>1. n \in Nat /\ l = [k EXCEPT !.exec = "delay", !.tries = n]
      BY <2>1, <2>2
    <3> HIDE DEF n
    <3>2. /\ l \in TaskInfo /\ l.exec = "delay" /\ l.status = k.status
          /\ l.tries = n /\ l.told = k.told /\ l.promise = k.promise
          /\ l.settled = k.settled
      BY <3>1 DEF TaskInfo, Execs
    <3>3. QED
      BY <3>2 DEF n
  <2>4. Life(l)
    BY <2>2, <2>3 DEF Life, WhileQueued, WhileTried, WhileLeaving, WhenOver, Untold
  <2>5. GoesOn(k, l) /\ l.exec # "queued"
    BY <2>2, <2>3, <2>4 DEF GoesOn, Findable, Cleanable, InPlace
  <2>6. QED
    BY <1>3, <2>5 DEF l
<1>4. CASE ~k.aborted /\ ~Retried(k, t)
  <2> DEFINE s == IF k.out = "ok" THEN "completed" ELSE "failed"
             m == Tell(k, s)
  <2>1. /\ k.exec = "ended" /\ k.told = 0 /\ k.promise = "open"
        /\ k.out \in {"ok", "error"} /\ k.tries \in Nat
    BY <1>4 DEF Life, WhileTried, Untold, TaskInfo
  <2>2. s \in Final /\ (k.out = "ok" <=> s = "completed")
    BY DEF Final
  <2>3. l = [m EXCEPT !.settled = TRUE, !.exec = "leaving"]
    BY <1>4, Zenon DEF After
  <2>4. m = Tell(k, s)
    OBVIOUS
  <2> HIDE DEF m, l, s
  <2>5. /\ m \in TaskInfo /\ m.status = s /\ m.told = 1 /\ m.out = k.out
        /\ m.promise = k.promise /\ m.tries = k.tries
    BY <2>1, <2>2, <2>4, TellFields
  <2>6. /\ l \in TaskInfo /\ l.exec = "leaving" /\ l.status = s /\ l.told = 1
        /\ l.out = k.out /\ l.promise = k.promise /\ l.tries = k.tries
    BY <2>3, <2>5 DEF TaskInfo, Execs
  <2>7. Life(l)
    BY <2>1, <2>2, <2>6
    DEF Life, WhileQueued, WhileTried, WhileLeaving, WhenOver, Told, Final
  <2>8. GoesOn(k, l) /\ l.exec # "queued" /\ Cleanable(l)
    BY <2>1, <2>6, <2>7 DEF GoesOn, Findable, Cleanable, InPlace
  <2>9. QED
    BY <2>8 DEF l
<1>5. k.exec = "lost" => k.aborted
  BY DEF Life, WhileTried
<1>6. QED
  BY <1>1, <1>2, <1>3, <1>4, <1>5 DEF Retried

\* p-queue is done with the task, and its promise is settled.
LEMMA LeaveOK ==
  ASSUME NEW k \in TaskInfo, Life(k), k.exec = "leaving",
         NEW p, p = IF k.promise # "open" THEN k.promise
                    ELSE IF k.out = "ok" THEN "resolved" ELSE "rejected",
         NEW l, l = [k EXCEPT !.exec = "over", !.out = "none", !.known = FALSE,
                              !.settled = FALSE, !.promise = p]
  PROVE  GoesOn(k, l)
<1>1. /\ k.status # "pending" /\ k.out \in {"ok", "error"}
      /\ k.promise \in {"open", "rejected"}
      /\ k.promise = "rejected" => k.out = "error"
      /\ Late(k) \/ (Told(k) /\ (k.out = "ok" <=> k.status = "completed"))
  BY DEF Life, WhileLeaving
<1>2. p \in {"resolved", "rejected"} /\ (p = "resolved" <=> k.out = "ok")
  BY <1>1
<1>3. /\ l \in TaskInfo /\ l.exec = "over" /\ l.status = k.status /\ l.promise = p
      /\ l.tries = k.tries /\ l.told = k.told
  BY <1>2 DEF TaskInfo, Execs
<1>4. l.aborted = k.aborted
  BY DEF TaskInfo
<1>5. Late(l) \/ (Told(l) /\ (l.promise = "resolved" <=> l.status = "completed"))
  <2>1. CASE Late(k)
    BY <1>3, <1>4, <2>1 DEF Late
  <2>2. CASE Told(k) /\ (k.out = "ok" <=> k.status = "completed")
    BY <1>2, <1>3, <2>2 DEF Told
  <2>3. QED
    BY <1>1, <2>1, <2>2
<1>6. Life(l)
  BY <1>1, <1>2, <1>3, <1>5 DEF Life, WhileQueued, WhileTried, WhileLeaving, WhenOver
<1>7. QED
  BY <1>2, <1>3, <1>6 DEF GoesOn, Findable, Cleanable, InPlace

-----------------------------------------------------------------------------
(* What a step makes of the queue.                                         *)

LEMMA TypeParts ==
  TypeOK <=> /\ task \in [Tasks -> TaskInfo]
             /\ body \in [Tasks -> Bodies]
             /\ line \in Seq(Tasks)
             /\ record \in [Ids -> Tasks \cup {None}]
             /\ due \subseteq Tasks /\ awaited \subseteq Tasks /\ todo \subseteq Ids
             /\ paused \in BOOLEAN
             /\ stop \in {"no", "cancelling", "waiting", "done"}
  BY DEF TypeOK, TaskInfo

LEMMA TypePartsNext ==
  TypeOK' <=> /\ task' \in [Tasks -> TaskInfo]
              /\ body' \in [Tasks -> Bodies]
              /\ line' \in Seq(Tasks)
              /\ record' \in [Ids -> Tasks \cup {None}]
              /\ due' \subseteq Tasks /\ awaited' \subseteq Tasks /\ todo' \subseteq Ids
              /\ paused' \in BOOLEAN
              /\ stop' \in {"no", "cancelling", "waiting", "done"}
  BY DEF TypeOK, TaskInfo

\* What the invariant says in the words of Findable.
LEMMA Found ==
  ASSUME QueueInv
  PROVE  /\ \A t \in Tasks : stop # "done" /\ Findable(task[t]) => record[Id[t]] = t
         /\ \A t \in Tasks : task[t] \in TaskInfo /\ Life(task[t])
         /\ \A t \in Tasks : Exec(t) = "queued" /\ Pending(t) => record[Id[t]] = t
<1>1. \A t \in Tasks : stop # "done" /\ Findable(task[t]) => record[Id[t]] = t
  BY DEF QueueInv, OpenIsRecorded, Findable, Open, Exec
<1>2. \A t \in Tasks : task[t] \in TaskInfo /\ Life(task[t])
  BY TypeParts DEF QueueInv
<1>3. ASSUME NEW t \in Tasks, Exec(t) = "queued", Pending(t)
      PROVE  record[Id[t]] = t
  <2>1. stop = "no"
    BY <1>3 DEF QueueInv, LineOK
  <2>2. Findable(task[t])
    BY <1>2, <1>3 DEF Life, WhileQueued, Untold, Findable, Exec, Pending
  <2>3. QED
    BY <1>1, <2>1, <2>2
<1>4. QED
  BY <1>1, <1>2, <1>3

\* The tasks go on; no record is written, and none is lost that must be found.
StepOK ==
  /\ TypeOK'
  /\ \A t \in Tasks : GoesOn(task[t], task'[t])
  /\ LineOK'
  /\ \A i \in Ids : record'[i] \in {record[i], None}
  /\ \A t \in Tasks :
       record[Id[t]] = t /\ Findable(task'[t]) /\ stop' # "done" => record'[Id[t]] = t
  /\ \A t \in due' : t \in due \/ Cleanable(task'[t])
  /\ stop = "done" => stop' = "done"
  /\ stop # "done" /\ stop' = "done" => StopIsFinal'

\* What comes of such a step: the invariant, and that no task is opened by it.
QueueGoesOn == QueueInv' /\ \A t \in Tasks : GoesOn(task[t], task'[t])

LEMMA StepKeeps ==
  ASSUME QueueInv, StepOK
  PROVE  QueueGoesOn
<1> USE TaskAssumption
<1>1. \A t \in Tasks : Life(task'[t])
  BY DEF StepOK, GoesOn
<1>2. RecordsOK'
  <2> SUFFICES ASSUME NEW i \in Ids, record'[i] # None
               PROVE  Id[record'[i]] = i /\ task'[record'[i]].exec # "none"
    BY DEF RecordsOK, Exec
  <2>1. record'[i] = record[i] /\ record[i] \in Tasks
    BY DEF StepOK, QueueInv, TypeOK
  <2>2. Id[record[i]] = i /\ task[record[i]].exec # "none"
    BY <2>1 DEF QueueInv, RecordsOK, Exec
  <2>3. QED
    BY <2>1, <2>2 DEF StepOK, GoesOn
<1>3. \A t \in due' : Cleanable(task'[t])
  <2>1. \A t \in due : Cleanable(task'[t])
    BY TypeParts DEF QueueInv, StepOK, GoesOn
  <2>2. QED
    BY <2>1 DEF StepOK
<1>4. OpenIsRecorded'
  <2> SUFFICES ASSUME NEW t \in Tasks, Findable(task'[t]), stop' # "done"
               PROVE  record'[Id[t]] = t
    BY DEF OpenIsRecorded, Findable, Open, Exec
  <2>1. Findable(task[t]) /\ stop # "done"
    BY DEF StepOK, GoesOn
  <2>2. QED
    BY <2>1, Found DEF StepOK
<1>5. StopIsFinal'
  <2> SUFFICES ASSUME stop = "done", NEW t \in Tasks
               PROVE  task'[t].promise # "open" /\ task'[t].exec \notin InPlace
    BY DEF StepOK, StopIsFinal, Open, Running, Exec
  <2>1. task[t].promise # "open" /\ task[t].exec \notin InPlace
    BY DEF QueueInv, StopIsFinal, Open, Running, Exec
  <2>2. task[t].exec # "queued"
    BY DEF QueueInv, LineOK, Exec
  <2>3. QED
    BY <2>1, <2>2 DEF StepOK, GoesOn
<1>6. QED
  BY <1>1, <1>2, <1>3, <1>4, <1>5 DEF QueueGoesOn, QueueInv, StepOK

\* One task goes on, the others stay as they are.
LEMMA OneGoesOn ==
  ASSUME QueueInv, NEW t \in Tasks, NEW l, GoesOn(task[t], l),
         task' = [task EXCEPT ![t] = l]
  PROVE  /\ task' \in [Tasks -> TaskInfo]
         /\ task'[t] = l /\ \A u \in Tasks \ {t} : task'[u] = task[u]
         /\ \A u \in Tasks : GoesOn(task[u], task'[u])
<1>1. task \in [Tasks -> TaskInfo] /\ \A u \in Tasks : Life(task[u])
  BY TypeParts DEF QueueInv
<1>2. l \in TaskInfo
  BY DEF GoesOn
<1>3. \A u \in Tasks \ {t} : GoesOn(task[u], task[u])
  BY <1>1, StaysSame
<1>4. QED
  BY <1>1, <1>2, <1>3

\* Nobody goes on: the task infos stay.
LEMMA NobodyGoesOn ==
  ASSUME QueueInv, task' = task
  PROVE  task' \in [Tasks -> TaskInfo] /\ \A u \in Tasks : GoesOn(task[u], task'[u])
  BY TypeParts, StaysSame DEF QueueInv

\* The line stays in order as long as what waits in it is queued.
LEMMA LineStays ==
  ASSUME QueueInv, line' = line, stop' = stop \/ stop = "cancelling" \/ stop' = "done",
         stop = "no" => stop' = "no",
         \A u \in Tasks : GoesOn(task[u], task'[u]),
         \A u \in Tasks : task[u].exec = "queued" => task'[u].exec = "queued"
  PROVE  LineOK'
<1>1. InLine' = InLine /\ InLine \subseteq Tasks
  BY DEF QueueInv, TypeOK, InLine
<1>2. QED
  BY <1>1 DEF QueueInv, LineOK, Exec, GoesOn

\* The beginning of an attempt, in the words of StepOK (attempt).
LEMMA AttemptOK ==
  ASSUME QueueInv, NEW t \in Tasks, Exec(t) \in {"queued", "delay"}, Attempt(t)
  PROVE  /\ task' \in [Tasks -> TaskInfo]
         /\ \A u \in Tasks \ {t} : task'[u] = task[u]
         /\ \A u \in Tasks : GoesOn(task[u], task'[u])
         /\ task'[t].exec \in {"race", "leaving"}
         /\ Exec(t) = "delay" => Cleanable(task'[t])
         /\ body' \in [Tasks -> Bodies]
         /\ record' \in [Ids -> Tasks \cup {None}]
         /\ \A i \in Ids : record'[i] \in {record[i], None}
         /\ \A u \in Tasks :
              record[Id[u]] = u /\ Findable(task'[u]) => record'[Id[u]] = u
<1> USE TaskAssumption
<1>1. task[t] \in TaskInfo /\ Life(task[t])
  BY Found
<1>2. task[t].exec = "queued" /\ task[t].status = "pending" => record[Id[t]] = t
  BY Found DEF Exec, Pending
<1> DEFINE l == Begin(t)
<1>3. /\ GoesOn(task[t], l) /\ l.exec \in {"race", "leaving"}
      /\ task[t].aborted => ~Findable(l)
      /\ task[t].exec = "delay" => Cleanable(l)
  BY <1>1, <1>2, BeginOK DEF Exec
<1>4. task' = [task EXCEPT ![t] = l]
  BY DEF Attempt
<1> HIDE DEF l
<1>5. /\ task' \in [Tasks -> TaskInfo]
      /\ task'[t] = l /\ \A u \in Tasks \ {t} : task'[u] = task[u]
      /\ \A u \in Tasks : GoesOn(task[u], task'[u])
  BY <1>3, <1>4, OneGoesOn
<1>6. body' \in [Tasks -> Bodies]
  BY DEF Attempt, QueueInv, TypeOK, Bodies
<1>7. record \in [Ids -> Tasks \cup {None}]
  BY DEF QueueInv, TypeOK
<1>8. CASE task[t].aborted /\ StillListed(t)
  <2>1. record' = [i \in Ids |-> IF record[i] \in {t} THEN None ELSE record[i]]
    BY <1>8 DEF Attempt, Forget
  <2>2. /\ record' \in [Ids -> Tasks \cup {None}]
        /\ \A i \in Ids : record'[i] \in {record[i], None}
        /\ \A u \in Tasks \ {t} : record[Id[u]] = u => record'[Id[u]] = u
    BY <1>7, <2>1
  <2>3. ~Findable(task'[t])
    BY <1>3, <1>5, <1>8
  <2>4. QED
    BY <1>3, <1>5, <1>6, <2>2, <2>3 DEF Exec
<1>9. CASE ~(task[t].aborted /\ StillListed(t))
  <2>1. record' = record
    BY <1>9 DEF Attempt
  <2>2. QED
    BY <1>3, <1>5, <1>6, <1>7, <2>1 DEF Exec
<1>10. QED
  BY <1>8, <1>9

-----------------------------------------------------------------------------
(* The steps of the queue.                                                 *)

LEMMA OnceInLine ==
  ASSUME QueueInv, NEW x \in DOMAIN line, NEW y \in DOMAIN line, line[x] = line[y]
  PROVE  x = y
  BY DEF QueueInv, LineOK

\* p-queue starts the first of its line.
LEMMA StartKeeps ==
  ASSUME QueueInv, NEW t \in Tasks, Start(t)
  PROVE  QueueGoesOn
<1> USE TaskAssumption
<1>1. /\ line \in Seq(Tasks) /\ line # <<>> /\ t = Head(line) /\ line' = Tail(line)
      /\ Attempt(t) /\ UNCHANGED <<due, paused, stop, todo, awaited>>
  BY DEF Start, Startable, QueueInv, TypeOK, stopVars
<1>2. Len(line) \in Nat \ {0} /\ t = line[1] /\ DOMAIN line = 1..Len(line)
  BY <1>1
<1>3. /\ line' \in Seq(Tasks) /\ DOMAIN line' = 1..(Len(line) - 1)
      /\ \A i \in 1..(Len(line) - 1) : line'[i] = line[i + 1]
  BY <1>1, <1>2
<1>4. Exec(t) = "queued"
  BY <1>2 DEF QueueInv, LineOK, InLine
<1>5. /\ task' \in [Tasks -> TaskInfo]
      /\ \A u \in Tasks \ {t} : task'[u] = task[u]
      /\ \A u \in Tasks : GoesOn(task[u], task'[u])
      /\ body' \in [Tasks -> Bodies]
      /\ record' \in [Ids -> Tasks \cup {None}]
      /\ \A i \in Ids : record'[i] \in {record[i], None}
      /\ \A u \in Tasks :
           record[Id[u]] = u /\ Findable(task'[u]) => record'[Id[u]] = u
  BY <1>1, <1>4, AttemptOK
<1>6. LineOK'
  <2>1. \A i \in DOMAIN line' : line'[i] \in Tasks \ {t} /\ Exec(line'[i]) = "queued"
    <3> SUFFICES ASSUME NEW i \in 1..(Len(line) - 1)
                 PROVE  line'[i] \in Tasks \ {t} /\ Exec(line'[i]) = "queued"
      BY <1>3
    <3>1. i + 1 \in DOMAIN line /\ 1 \in DOMAIN line /\ i + 1 # 1
      BY <1>2
    <3>2. line[i + 1] # line[1] /\ line[i + 1] \in InLine /\ line[i + 1] \in Tasks
      BY <1>1, <3>1 DEF QueueInv, LineOK, InLine
    <3>3. QED
      BY <1>2, <1>3, <3>2 DEF QueueInv, LineOK
  <2>2. \A u \in InLine' : Exec(u)' = "queued"
    BY <1>5, <2>1 DEF InLine, Exec
  <2>3. ASSUME NEW i \in DOMAIN line', NEW j \in DOMAIN line', line'[i] = line'[j]
        PROVE  i = j
    <3>1. i \in 1..(Len(line) - 1) /\ j \in 1..(Len(line) - 1)
      BY <1>3
    <3>2. line'[i] = line[i + 1] /\ line'[j] = line[j + 1]
      BY <1>3, <3>1
    <3>3. i + 1 \in DOMAIN line /\ j + 1 \in DOMAIN line
      BY <1>2, <3>1
    <3>4. line[i + 1] = line[j + 1]
      BY <2>3, <3>2
    <3>5. i + 1 = j + 1
      BY <3>3, <3>4, OnceInLine
    <3>6. QED
      BY <3>1, <3>5
  <2>4. stop' # "no" => \A u \in Tasks : Exec(u)' # "queued"
    BY <1>1, <1>5 DEF QueueInv, LineOK, GoesOn, Exec
  <2>5. QED
    BY <2>2, <2>3, <2>4 DEF LineOK
<1>7. TypeOK'
  BY <1>1, <1>3, <1>5, TypePartsNext DEF QueueInv, TypeOK
<1>8. StepOK
  BY <1>1, <1>5, <1>6, <1>7 DEF StepOK
<1>9. QED
  BY <1>8, StepKeeps

\* A step that leaves the line and the records alone.
LEMMA QuietStepKeeps ==
  ASSUME QueueInv, UNCHANGED <<line, record, stop, todo, awaited>>,
         task' \in [Tasks -> TaskInfo], body' \in [Tasks -> Bodies],
         paused' \in BOOLEAN, due' \subseteq Tasks,
         \A u \in Tasks : GoesOn(task[u], task'[u]),
         \A u \in Tasks : task[u].exec = "queued" => task'[u].exec = "queued",
         \A u \in due' : u \in due \/ Cleanable(task'[u])
  PROVE  QueueGoesOn
<1>1. LineOK'
  BY LineStays
<1>2. TypeOK'
  BY TypePartsNext DEF QueueInv, TypeOK
<1>3. StepOK
  BY <1>1, <1>2 DEF StepOK
<1>4. QED
  BY <1>3, StepKeeps

\* The function of a task returns or throws, in its attempt or late.
LEMMA ReturnKeeps ==
  ASSUME QueueInv, NEW t \in Tasks, NEW o \in {"ok", "error"}, Return(t, o),
         UNCHANGED <<line, record, due, paused, stop, todo, awaited>>
  PROVE  QueueGoesOn
<1>1. body' \in [Tasks -> Bodies] /\ due' \subseteq Tasks /\ paused' \in BOOLEAN
  BY DEF Return, QueueInv, TypeOK, Bodies
<1>2. CASE Exec(t) = "race"
  <2> DEFINE l == [task[t] EXCEPT !.exec = "ended", !.out = o]
  <2>1. task' = [task EXCEPT ![t] = l]
    BY <1>2 DEF Return
  <2>2. task[t] \in TaskInfo /\ Life(task[t]) /\ task[t].exec = "race"
    BY <1>2, Found DEF Exec
  <2>3. GoesOn(task[t], l)
    BY <2>2, EndedOK
  <2> HIDE DEF l
  <2>4. /\ task' \in [Tasks -> TaskInfo]
        /\ \A u \in Tasks \ {t} : task'[u] = task[u]
        /\ \A u \in Tasks : GoesOn(task[u], task'[u])
    BY <2>1, <2>3, OneGoesOn
  <2>5. QED
    BY <1>1, <2>2, <2>4, QuietStepKeeps
<1>3. CASE Exec(t) # "race"
  <2>1. task' = task
    BY <1>3 DEF Return
  <2>2. QED
    BY <1>1, <2>1, NobodyGoesOn, QuietStepKeeps
<1>4. QED
  BY <1>2, <1>3

LEMMA RunBodyKeeps ==
  ASSUME QueueInv, NEW t \in Tasks, RunBody(t)
  PROVE  QueueGoesOn
  BY ReturnKeeps DEF RunBody, stopVars

LEMMA TimeoutKeeps ==
  ASSUME QueueInv, NEW t \in Tasks, Timeout(t)
  PROVE  QueueGoesOn
<1> DEFINE l == [SettleCancelled(task[t]) EXCEPT !.exec = "lost"]
<1>1. task' = [task EXCEPT ![t] = l]
  BY DEF Timeout
<1>2. task[t] \in TaskInfo /\ Life(task[t]) /\ task[t].exec = "race"
  BY Found DEF Timeout, Exec
<1>3. GoesOn(task[t], l)
  BY <1>2, TimeoutOK
<1> HIDE DEF l
<1>4. /\ task' \in [Tasks -> TaskInfo]
      /\ \A u \in Tasks \ {t} : task'[u] = task[u]
      /\ \A u \in Tasks : GoesOn(task[u], task'[u])
  BY <1>1, <1>3, OneGoesOn
<1>5. QED
  BY <1>2, <1>4, QuietStepKeeps DEF Timeout, stopVars, QueueInv, TypeOK

\* The attempt is over, or a retry is due; its clean-up comes later.
LEMMA EndAttemptKeeps ==
  ASSUME QueueInv, NEW t \in Tasks, EndAttempt(t)
  PROVE  QueueGoesOn
<1> DEFINE l == After(task[t], t)
<1>1. task' = [task EXCEPT ![t] = l]
  BY DEF EndAttempt
<1>2. task[t] \in TaskInfo /\ Life(task[t]) /\ task[t].exec \in {"ended", "lost"}
  BY Found DEF EndAttempt, Exec
<1>3. GoesOn(task[t], l) /\ (~Retried(task[t], t) => Cleanable(l))
  BY <1>2, AfterOK
<1> HIDE DEF l
<1>4. /\ task' \in [Tasks -> TaskInfo]
      /\ task'[t] = l /\ \A u \in Tasks \ {t} : task'[u] = task[u]
      /\ \A u \in Tasks : GoesOn(task[u], task'[u])
  BY <1>1, <1>3, OneGoesOn
<1>5. /\ due' \subseteq Tasks
      /\ \A u \in due' : u \in due \/ Cleanable(task'[u])
  BY <1>3, <1>4 DEF EndAttempt, QueueInv, TypeOK
<1>6. QED
  BY <1>2, <1>4, <1>5, QuietStepKeeps DEF EndAttempt, stopVars, QueueInv, TypeOK

\* The retry begins; from now on the record of the task may be cleaned up.
LEMMA EndDelayKeeps ==
  ASSUME QueueInv, NEW t \in Tasks, EndDelay(t)
  PROVE  QueueGoesOn
<1>1. /\ Exec(t) = "delay" /\ Attempt(t) /\ due' = due \cup {t}
      /\ UNCHANGED <<line, paused, stop, todo, awaited>>
  BY DEF EndDelay, stopVars
<1>2. /\ task' \in [Tasks -> TaskInfo]
      /\ \A u \in Tasks \ {t} : task'[u] = task[u]
      /\ \A u \in Tasks : GoesOn(task[u], task'[u])
      /\ Cleanable(task'[t])
      /\ body' \in [Tasks -> Bodies]
      /\ record' \in [Ids -> Tasks \cup {None}]
      /\ \A i \in Ids : record'[i] \in {record[i], None}
      /\ \A u \in Tasks :
           record[Id[u]] = u /\ Findable(task'[u]) => record'[Id[u]] = u
  BY <1>1, AttemptOK
<1>3. LineOK'
  BY <1>1, <1>2, LineStays DEF Exec
<1>4. TypeOK'
  BY <1>1, <1>2, TypePartsNext DEF QueueInv, TypeOK
<1>5. \A u \in due' : u \in due \/ Cleanable(task'[u])
  BY <1>1, <1>2
<1>6. StepOK
  BY <1>1, <1>2, <1>3, <1>4, <1>5 DEF StepOK
<1>7. QED
  BY <1>6, StepKeeps

LEMMA LeaveKeeps ==
  ASSUME QueueInv, NEW t \in Tasks, Leave(t)
  PROVE  QueueGoesOn
<1> DEFINE k == task[t]
           p == IF k.promise # "open" THEN k.promise
                ELSE IF k.out = "ok" THEN "resolved" ELSE "rejected"
           l == [k EXCEPT !.exec = "over", !.out = "none", !.known = FALSE,
                          !.settled = FALSE, !.promise = p]
<1>1. k \in TaskInfo /\ Life(k) /\ k.exec = "leaving"
  BY Found DEF Leave, Exec
<1>2. task' = [task EXCEPT ![t] = l]
  BY <1>1 DEF Leave, TaskInfo
<1>3. GoesOn(k, l)
  BY <1>1, LeaveOK
<1> HIDE DEF l
<1>4. /\ task' \in [Tasks -> TaskInfo]
      /\ \A u \in Tasks \ {t} : task'[u] = task[u]
      /\ \A u \in Tasks : GoesOn(task[u], task'[u])
  BY <1>2, <1>3, OneGoesOn
<1>5. QED
  BY <1>1, <1>4, QuietStepKeeps DEF Leave, stopVars, QueueInv, TypeOK

\* A timer that forgets finished tasks finds none that must be found: by then
\* every promise callback has run.
LEMMA TimersForgetFinished ==
  ASSUME QueueInv, Turn, NEW t \in Tasks, Findable(task[t])
  PROVE  ~Cleanable(task[t]) /\ task[t].status \notin Final
<1>1. /\ task[t] \in TaskInfo /\ Life(task[t])
      /\ task[t].exec \notin {"ended", "lost", "leaving"}
  BY Found DEF Turn, Exec
<1>2. /\ task[t].exec \in {"none", "queued", "race", "delay", "over"}
      /\ task[t].tries \in Nat
  BY <1>1 DEF TaskInfo, Execs
<1>3. task[t].promise = "open"
  BY DEF Findable
<1>4. task[t].exec # "over"
  BY <1>1, <1>3 DEF Life, WhenOver
<1>5. task[t].status \notin Final
  BY <1>1, <1>2, <1>3, <1>4
  DEF Life, WhileQueued, WhileTried, NewTask, Final
<1>6. ~Cleanable(task[t])
  BY <1>1, <1>2, <1>4 DEF Findable, Cleanable
<1>7. QED
  BY <1>5, <1>6

\* A step that only forgets records.
LEMMA ForgettingKeeps ==
  ASSUME QueueInv, UNCHANGED <<task, body, line, paused, stop, todo, awaited>>,
         due' \subseteq due, record' \in [Ids -> Tasks \cup {None}],
         \A i \in Ids : record'[i] \in {record[i], None},
         \A u \in Tasks :
           record[Id[u]] = u /\ Findable(task[u]) => record'[Id[u]] = u
  PROVE  QueueGoesOn
<1>1. task' \in [Tasks -> TaskInfo] /\ \A u \in Tasks : GoesOn(task[u], task'[u])
  BY NobodyGoesOn
<1>2. LineOK'
  BY <1>1, LineStays
<1>3. TypeOK'
  BY <1>1, TypePartsNext DEF QueueInv, TypeOK
<1>4. StepOK
  BY <1>1, <1>2, <1>3 DEF StepOK
<1>5. QED
  BY <1>4, StepKeeps

LEMMA CleanUpKeeps ==
  ASSUME QueueInv, NEW t \in Tasks, CleanUp(t)
  PROVE  QueueGoesOn
<1> USE TaskAssumption
<1>1. /\ Turn /\ t \in due /\ due' = due \ {t}
      /\ record' = IF record[Id[t]] = t THEN [record EXCEPT ![Id[t]] = None] ELSE record
      /\ UNCHANGED <<task, body, line, paused, stop, todo, awaited>>
  BY DEF CleanUp, OwnRecord, stopVars
<1>2. record \in [Ids -> Tasks \cup {None}] /\ Cleanable(task[t])
  BY <1>1 DEF QueueInv, TypeOK
<1>3. ~Findable(task[t])
  BY <1>1, <1>2, TimersForgetFinished
<1>4. /\ record' \in [Ids -> Tasks \cup {None}]
      /\ \A i \in Ids : record'[i] \in {record[i], None}
      /\ \A u \in Tasks \ {t} : record[Id[u]] = u => record'[Id[u]] = u
  BY <1>1, <1>2
<1>5. QED
  BY <1>1, <1>3, <1>4, ForgettingKeeps

LEMMA TrimKeeps ==
  ASSUME QueueInv, Trim
  PROVE  QueueGoesOn
<1> USE TaskAssumption
<1>1. PICK old \in SUBSET {t \in Recorded : task[t].status \in Final} : Forget(old)
  BY DEF Trim
<1>2. Turn /\ UNCHANGED <<task, body, line, due, paused, stop, todo, awaited>>
  BY DEF Trim, stopVars
<1>3. record' = [i \in Ids |-> IF record[i] \in old THEN None ELSE record[i]]
  BY <1>1 DEF Forget
<1>4. record \in [Ids -> Tasks \cup {None}]
  BY DEF QueueInv, TypeOK
<1>5. \A u \in Tasks : Findable(task[u]) => u \notin old
  BY <1>1, <1>2, TimersForgetFinished
<1>6. QED
  BY <1>2, <1>3, <1>4, <1>5, ForgettingKeeps

-----------------------------------------------------------------------------
(* The calls of its user.                                                  *)

\* A task in the line that is cancelled keeps its place there.
LEMMA CancelledInLine ==
  ASSUME NEW k \in TaskInfo, Life(k), k.exec = "queued"
  PROVE  /\ Abort(k).exec = "queued"
         /\ k.status = "pending" => CancelPending(k).exec = "queued"
<1>1. Abort(k).exec = "queued"
  BY DEF Abort, TaskInfo
<1>2. ASSUME k.status = "pending"
      PROVE  CancelPending(k).exec = "queued"
  <2> DEFINE m == Tell(k, "cancelled")
             l == CancelPending(k)
  <2>1. k.told < 2
    BY <1>2 DEF Life, WhileQueued, Untold
  <2>2. m \in TaskInfo /\ m.exec = "queued"
    BY <2>1, TellFields DEF Final
  <2>3. l = [m EXCEPT !.promise = "rejected", !.aborted = TRUE]
    BY DEF CancelPending, Reject
  <2> HIDE DEF m, l
  <2>4. l.exec = "queued"
    BY <2>2, <2>3 DEF TaskInfo
  <2>5. QED
    BY <2>4 DEF l
<1>3. QED
  BY <1>1, <1>2

\* A task that has not started waits in the line.
LEMMA PendingIsQueued ==
  ASSUME NEW k \in TaskInfo, Life(k), k.exec # "none", k.status = "pending"
  PROVE  k.exec = "queued"
  BY DEF Life, WhileQueued, WhileTried, WhileLeaving, WhenOver, TaskInfo, Execs

\* cancelTask and cancelAll on a record, in the words of StepOK.
LEMMA CancelRecordOK ==
  ASSUME QueueInv, NEW i \in Ids, record[i] # None, CancelRecord(record[i])
  PROVE  /\ task' \in [Tasks -> TaskInfo]
         /\ \A u \in Tasks : GoesOn(task[u], task'[u])
         /\ \A u \in Tasks : task[u].exec = "queued" => task'[u].exec = "queued"
         /\ record' \in [Ids -> Tasks \cup {None}]
         /\ \A j \in Ids : record'[j] \in {record[j], None}
         /\ \A u \in Tasks :
              record[Id[u]] = u /\ Findable(task'[u]) => record'[Id[u]] = u
<1> USE TaskAssumption
<1> DEFINE t == record[i]
           k == task[t]
           l == IF Pending(t) THEN CancelPending(k) ELSE Abort(k)
<1>1. record \in [Ids -> Tasks \cup {None}] /\ t \in Tasks
  BY DEF QueueInv, TypeOK
<1>2. k \in TaskInfo /\ Life(k) /\ k.exec # "none"
  BY <1>1, Found DEF QueueInv, RecordsOK, Exec
<1>3. k.status = "pending" => k.exec = "queued"
  BY <1>2, PendingIsQueued
<1>4. task' = [task EXCEPT ![t] = l]
  BY DEF CancelRecord
<1>5. GoesOn(k, l) /\ (Pending(t) => ~Findable(l))
  BY <1>2, <1>3, AbortOK, CancelPendingOK DEF Pending
<1>6. k.exec = "queued" => l.exec = "queued"
  BY <1>2, CancelledInLine DEF Pending
<1> HIDE DEF l
<1>7. /\ task' \in [Tasks -> TaskInfo]
      /\ task'[t] = l /\ \A u \in Tasks \ {t} : task'[u] = task[u]
      /\ \A u \in Tasks : GoesOn(task[u], task'[u])
  BY <1>1, <1>4, <1>5, OneGoesOn
<1> HIDE DEF t, k
<1>8. CASE Pending(t)
  <2>1. record' = [j \in Ids |-> IF record[j] \in {t} THEN None ELSE record[j]]
    BY <1>8 DEF CancelRecord, Forget, t
  <2>2. /\ record' \in [Ids -> Tasks \cup {None}]
        /\ \A j \in Ids : record'[j] \in {record[j], None}
        /\ \A u \in Tasks \ {t} : record[Id[u]] = u => record'[Id[u]] = u
    BY <1>1, <2>1
  <2>3. QED
    BY <1>5, <1>6, <1>7, <1>8, <2>2 DEF k
<1>9. CASE ~Pending(t)
  <2>1. record' = record
    BY <1>9 DEF CancelRecord, t
  <2>2. QED
    BY <1>1, <1>6, <1>7, <2>1 DEF k
<1>10. QED
  BY <1>8, <1>9

LEMMA CancelTaskKeeps ==
  ASSUME QueueInv, NEW i \in Ids, CancelTask(i)
  PROVE  QueueGoesOn
<1>1. /\ record[i] # None /\ CancelRecord(record[i])
      /\ UNCHANGED <<body, line, due, paused, stop, todo, awaited>>
  BY DEF CancelTask, stopVars
<1>2. /\ task' \in [Tasks -> TaskInfo]
      /\ \A u \in Tasks : GoesOn(task[u], task'[u])
      /\ \A u \in Tasks : task[u].exec = "queued" => task'[u].exec = "queued"
      /\ record' \in [Ids -> Tasks \cup {None}]
      /\ \A j \in Ids : record'[j] \in {record[j], None}
      /\ \A u \in Tasks :
           record[Id[u]] = u /\ Findable(task'[u]) => record'[Id[u]] = u
  BY <1>1, CancelRecordOK
<1>3. LineOK'
  BY <1>1, <1>2, LineStays
<1>4. TypeOK'
  BY <1>1, <1>2, TypePartsNext DEF QueueInv, TypeOK
<1>5. StepOK
  BY <1>1, <1>2, <1>3, <1>4 DEF StepOK
<1>6. QED
  BY <1>5, StepKeeps

LEMMA SignalKeeps ==
  ASSUME QueueInv, NEW t \in Tasks, Signal(t)
  PROVE  QueueGoesOn
<1> DEFINE l == Abort(task[t])
<1>1. task' = [task EXCEPT ![t] = l]
  BY DEF Signal
<1>2. task[t] \in TaskInfo /\ Life(task[t]) /\ task[t].exec # "none"
  BY Found DEF Signal, Exec, InPlace
<1>3. GoesOn(task[t], l) /\ (task[t].exec = "queued" => l.exec = "queued")
  BY <1>2, AbortOK, CancelledInLine
<1> HIDE DEF l
<1>4. /\ task' \in [Tasks -> TaskInfo]
      /\ task'[t] = l /\ \A u \in Tasks \ {t} : task'[u] = task[u]
      /\ \A u \in Tasks : GoesOn(task[u], task'[u])
  BY <1>1, <1>3, OneGoesOn
<1>5. QED
  BY <1>3, <1>4, QuietStepKeeps DEF Signal, stopVars, QueueInv, TypeOK

LEMMA PauseResumeKeep ==
  ASSUME QueueInv, Pause \/ Resume
  PROVE  QueueGoesOn
<1>1. UNCHANGED <<task, body, line, record, due, stop, todo, awaited>>
  BY DEF Pause, Resume, stopVars
<1>2. paused' \in BOOLEAN
  BY DEF Pause, Resume
<1>3. QED
  BY <1>1, <1>2, NobodyGoesOn, QuietStepKeeps DEF QueueInv, TypeOK

\* clear() and stop() empty the line: nobody is queued any more.
LEMMA EmptyLine ==
  ASSUME line' = <<>>, \A u \in Tasks : task'[u].exec # "queued"
  PROVE  LineOK'
<1>1. DOMAIN line' = {}
  OBVIOUS
<1>2. InLine' = {}
  BY <1>1 DEF InLine
<1>3. QED
  BY <1>1, <1>2 DEF LineOK, Exec

LEMMA ClearKeeps ==
  ASSUME QueueInv, Clear
  PROVE  QueueGoesOn
<1> USE TaskAssumption
<1>1. /\ line' = <<>>
      /\ record' = [i \in Ids |-> IF record[i] \in PendingRecords
                                  THEN None ELSE record[i]]
      /\ UNCHANGED <<body, due, paused, stop, todo, awaited>>
  BY DEF Clear, Forget, stopVars
<1> DEFINE l(t) == IF t \in Recorded /\ task[t].status = "running"
                   THEN Abort(task[t])
                   ELSE Drop(task[t], t \in PendingRecords)
<1>2. task' = [t \in Tasks |-> l(t)]
  BY DEF Clear
<1>3. ASSUME NEW t \in Tasks
      PROVE  /\ GoesOn(task[t], l(t)) /\ l(t).exec # "queued"
             /\ t \in PendingRecords => ~Findable(l(t))
  <2>1. task[t] \in TaskInfo /\ Life(task[t])
    BY Found
  <2>2. CASE t \in Recorded /\ task[t].status = "running"
    <3>1. task[t].exec \notin {"none", "queued"}
      BY <2>1, <2>2 DEF Life, NewTask, WhileQueued
    <3>2. GoesOn(task[t], Abort(task[t]))
      BY <2>1, <3>1, AbortOK
    <3>3. t \notin PendingRecords
      BY <2>2 DEF PendingRecords, Pending
    <3>4. QED
      BY <2>2, <3>1, <3>2, <3>3 DEF GoesOn
  <2>3. CASE ~(t \in Recorded /\ task[t].status = "running")
    <3>1. t \in PendingRecords => task[t].exec = "queued" /\ task[t].status = "pending"
      <4>1. t \in PendingRecords => task[t].exec # "none" /\ task[t].status = "pending"
        BY DEF PendingRecords, Recorded, Pending, QueueInv, RecordsOK, Exec
      <4>2. QED
        BY <2>1, <4>1, PendingIsQueued
    <3>2. task[t].exec = "queued" /\ task[t].status = "pending" => t \in PendingRecords
      BY Found DEF PendingRecords, Recorded, Pending, Exec
    <3> DEFINE r == t \in PendingRecords
    <3>3. r \in BOOLEAN
      OBVIOUS
    <3>4. l(t) = Drop(task[t], r)
      BY <2>3
    <3> HIDE DEF l
    <3>5. QED
      BY <2>1, <3>1, <3>2, <3>3, <3>4, DropOK
  <2>4. QED
    BY <2>2, <2>3
<1> HIDE DEF l
<1>4. /\ task' \in [Tasks -> TaskInfo]
      /\ \A u \in Tasks : GoesOn(task[u], task'[u])
      /\ \A u \in Tasks : task'[u].exec # "queued"
      /\ \A u \in PendingRecords : ~Findable(task'[u])
  BY <1>2, <1>3 DEF GoesOn, PendingRecords, Recorded
<1>5. record \in [Ids -> Tasks \cup {None}]
  BY DEF QueueInv, TypeOK
<1>6. /\ record' \in [Ids -> Tasks \cup {None}]
      /\ \A i \in Ids : record'[i] \in {record[i], None}
      /\ \A u \in Tasks :
           record[Id[u]] = u /\ Findable(task'[u]) => record'[Id[u]] = u
  BY <1>1, <1>4, <1>5
<1>7. LineOK'
  BY <1>1, <1>4, EmptyLine
<1>8. TypeOK'
  BY <1>1, <1>4, <1>6, TypePartsNext DEF QueueInv, TypeOK
<1>9. StepOK
  BY <1>1, <1>4, <1>6, <1>7, <1>8 DEF StepOK
<1>10. QED
  BY <1>9, StepKeeps

\* stop() starts some of the line in passing, and drops the others.
LEMMA StopKeeps ==
  ASSUME QueueInv, Stop
  PROVE  QueueGoesOn
<1> USE TaskAssumption
<1> DEFINE left == PendingRecords \ Started
           gone == left \cup {t \in Started : task[t].aborted}
           l(t) == IF t \in Started THEN Begin(t) ELSE Drop(task[t], t \in left)
<1>1. /\ stop = "no" /\ stop' = "cancelling" /\ paused' = FALSE /\ line' = <<>>
      /\ task' = [t \in Tasks |-> l(t)]
      /\ body' = [t \in Tasks |-> IF t \in Started /\ ~task[t].aborted
                                  THEN "run" ELSE body[t]]
      /\ record' = [i \in Ids |-> IF record[i] \in gone THEN None ELSE record[i]]
      /\ todo' = {Id[t] : t \in Recorded \ gone}
      /\ UNCHANGED <<due, awaited>>
  BY DEF Stop, Forget
<1>2. \A t \in Started : t \in Tasks /\ Exec(t) = "queued"
  <2>1. Started \subseteq InLine
    BY DEF Started, InLine
  <2>2. InLine \subseteq Tasks
    BY DEF InLine, QueueInv, TypeOK
  <2>3. QED
    BY <2>1, <2>2 DEF QueueInv, LineOK
<1>3. ASSUME NEW t \in Tasks
      PROVE  /\ GoesOn(task[t], l(t)) /\ l(t).exec # "queued"
             /\ t \in gone => ~Findable(l(t))
  <2>1. task[t] \in TaskInfo /\ Life(task[t])
    BY Found
  <2>2. CASE t \in Started
    <3>1. task[t].exec = "queued"
      BY <1>2, <2>2 DEF Exec
    <3>2. task[t].status = "pending" => record[Id[t]] = t
      BY <3>1, Found DEF Exec, Pending
    <3>3. /\ GoesOn(task[t], Begin(t)) /\ Begin(t).exec \in {"race", "leaving"}
          /\ task[t].aborted => ~Findable(Begin(t))
      BY <2>1, <3>1, <3>2, BeginOK
    <3>4. t \in gone => task[t].aborted
      BY <2>2
    <3>5. l(t) = Begin(t)
      BY <2>2
    <3> HIDE DEF l, gone
    <3>6. QED
      BY <3>3, <3>4, <3>5
  <2>3. CASE t \notin Started
    <3> DEFINE r == t \in left
    <3>1. r => task[t].exec = "queued" /\ task[t].status = "pending"
      <4>1. r => task[t].exec # "none" /\ task[t].status = "pending"
        BY DEF PendingRecords, Recorded, Pending, QueueInv, RecordsOK, Exec
      <4>2. QED
        BY <2>1, <4>1, PendingIsQueued
    <3>2. task[t].exec = "queued" /\ task[t].status = "pending" => r
      BY <2>3, Found DEF PendingRecords, Recorded, Pending, Exec
    <3>3. r \in BOOLEAN /\ (t \in gone => r)
      BY <2>3
    <3>4. l(t) = Drop(task[t], r)
      BY <2>3
    <3> HIDE DEF l, r, gone
    <3>5. QED
      BY <2>1, <3>1, <3>2, <3>3, <3>4, DropOK
  <2>4. QED
    BY <2>2, <2>3
<1> HIDE DEF l
<1>4. gone \subseteq Tasks
  BY <1>2 DEF PendingRecords, Recorded
<1> HIDE DEF gone, left
<1>5. /\ task' \in [Tasks -> TaskInfo]
      /\ \A u \in Tasks : GoesOn(task[u], task'[u])
      /\ \A u \in Tasks : task'[u].exec # "queued"
      /\ \A u \in gone : ~Findable(task'[u])
  BY <1>1, <1>3, <1>4 DEF GoesOn
<1>6. record \in [Ids -> Tasks \cup {None}] /\ body \in [Tasks -> Bodies]
  BY DEF QueueInv, TypeOK
<1>7. /\ record' \in [Ids -> Tasks \cup {None}]
      /\ \A i \in Ids : record'[i] \in {record[i], None}
      /\ \A u \in Tasks :
           record[Id[u]] = u /\ Findable(task'[u]) => record'[Id[u]] = u
  BY <1>1, <1>5, <1>6
<1>8. body' \in [Tasks -> Bodies] /\ todo' \subseteq Ids /\ paused' \in BOOLEAN
  <2>1. "run" \in Bodies
    BY DEF Bodies
  <2>2. body' \in [Tasks -> Bodies]
    BY <1>1, <1>6, <2>1
  <2>3. Recorded \subseteq Tasks
    BY DEF Recorded
  <2>4. todo' \subseteq Ids
    BY <1>1, <2>3
  <2>5. QED
    BY <1>1, <2>2, <2>4
<1>9. LineOK'
  BY <1>1, <1>5, EmptyLine
<1>10. TypeOK'
  BY <1>1, <1>5, <1>7, <1>8, TypePartsNext DEF QueueInv, TypeOK
<1>11. StepOK
  BY <1>1, <1>5, <1>7, <1>9, <1>10 DEF StepOK
<1>12. QED
  BY <1>11, StepKeeps

LEMMA StopCancelKeeps ==
  ASSUME QueueInv, StopCancel
  PROVE  QueueGoesOn
<1>1. PICK i \in todo :
        /\ todo' = todo \ {i}
        /\ IF record[i] = None THEN UNCHANGED <<task, record>>
                               ELSE CancelRecord(record[i])
  BY DEF StopCancel
<1>2. UNCHANGED <<body, line, due, paused, stop, awaited>> /\ i \in Ids
  BY DEF StopCancel, QueueInv, TypeOK
<1>3. /\ task' \in [Tasks -> TaskInfo]
      /\ \A u \in Tasks : GoesOn(task[u], task'[u])
      /\ \A u \in Tasks : task[u].exec = "queued" => task'[u].exec = "queued"
      /\ record' \in [Ids -> Tasks \cup {None}]
      /\ \A j \in Ids : record'[j] \in {record[j], None}
      /\ \A u \in Tasks :
           record[Id[u]] = u /\ Findable(task'[u]) => record'[Id[u]] = u
  <2>1. CASE record[i] = None
    BY <1>1, <2>1, NobodyGoesOn DEF QueueInv, TypeOK
  <2>2. CASE record[i] # None
    BY <1>1, <1>2, <2>2, CancelRecordOK
  <2>3. QED
    BY <2>1, <2>2
<1>4. LineOK'
  BY <1>2, <1>3, LineStays
<1>5. TypeOK'
  BY <1>1, <1>2, <1>3, TypePartsNext DEF QueueInv, TypeOK
<1>6. StepOK
  BY <1>2, <1>3, <1>4, <1>5 DEF StepOK
<1>7. QED
  BY <1>6, StepKeeps

LEMMA StopAwaitKeeps ==
  ASSUME QueueInv, StopAwait
  PROVE  QueueGoesOn
<1>1. /\ stop = "cancelling" /\ stop' = "waiting"
      /\ UNCHANGED <<task, body, line, record, due, paused, todo>>
      /\ awaited' \subseteq Tasks
  BY DEF StopAwait, Recorded
<1>2. task' \in [Tasks -> TaskInfo] /\ \A u \in Tasks : GoesOn(task[u], task'[u])
  BY <1>1, NobodyGoesOn
<1>3. LineOK'
  BY <1>1, <1>2, LineStays
<1>4. TypeOK'
  BY <1>1, <1>2, TypePartsNext DEF QueueInv, TypeOK
<1>5. StepOK
  BY <1>1, <1>2, <1>3, <1>4 DEF StepOK, QueueInv, TypeOK
<1>6. QED
  BY <1>5, StepKeeps

\* Nothing is queued and no place taken when stop() returns, so nothing is open.
LEMMA StopReturnKeeps ==
  ASSUME QueueInv, StopReturn
  PROVE  QueueGoesOn
<1>1. /\ stop = "waiting" /\ stop' = "done" /\ Running = {}
      /\ record' = [i \in Ids |-> None]
      /\ UNCHANGED <<task, body, line, due, paused, todo, awaited>>
  BY DEF StopReturn, AllEnded
<1>2. task' \in [Tasks -> TaskInfo] /\ \A u \in Tasks : GoesOn(task[u], task'[u])
  BY <1>1, NobodyGoesOn
<1>3. LineOK'
  BY <1>1, <1>2, LineStays
<1>4. TypeOK'
  BY <1>1, <1>2, TypePartsNext DEF QueueInv, TypeOK
<1>5. StopIsFinal'
  <2> SUFFICES ASSUME NEW t \in Tasks
               PROVE  task[t].promise # "open" /\ task[t].exec \notin InPlace
    BY <1>1 DEF StopIsFinal, Open, Running, Exec
  <2>1. task[t] \in TaskInfo /\ Life(task[t])
    BY Found
  <2>2. task[t].exec \notin InPlace
    BY <1>1 DEF Running, Exec
  <2>3. task[t].exec # "queued"
    BY <1>1 DEF QueueInv, LineOK, Exec
  <2>4. task[t].exec \in {"none", "over"}
    BY <2>1, <2>2, <2>3 DEF TaskInfo, Execs, InPlace
  <2>5. task[t].promise # "open"
    BY <2>1, <2>4 DEF Life, NewTask, WhenOver
  <2>6. QED
    BY <2>2, <2>5
<1>6. StepOK
  BY <1>1, <1>2, <1>3, <1>4, <1>5 DEF StepOK
<1>7. QED
  BY <1>6, StepKeeps

-----------------------------------------------------------------------------
(* Tasks are added.                                                        *)

\* What InsertAt puts where.
LEMMA Inserted ==
  ASSUME NEW S, NEW s \in Seq(S), NEW k \in 1..(Len(s) + 1), NEW e \in S,
         NEW r, r = InsertAt(s, k, e)
  PROVE  /\ r \in Seq(S) /\ Len(r) = Len(s) + 1
         /\ \A i \in 1..Len(r) :
              r[i] = IF i < k THEN s[i] ELSE IF i = k THEN e ELSE s[i - 1]
<1> DEFINE n == Len(s)
           a == SubSeq(s, 1, k - 1)
           b == <<e>>
           c == SubSeq(s, k, n)
           d == a \o b
<1>1. n \in Nat /\ k \in Nat /\ 1 <= k /\ k <= n + 1 /\ \A i \in 1..n : s[i] \in S
  OBVIOUS
<1>2. r = d \o c
  BY DEF InsertAt
<1> HIDE DEF n
<1>3. a \in Seq(S) /\ Len(a) = k - 1 /\ \A i \in 1..(k - 1) : a[i] = s[i]
  <2>1. 1 \in Int /\ k - 1 \in Int /\ \A i \in 1..(k - 1) : s[i] \in S
    BY <1>1
  <2>2. /\ a \in Seq(S)
        /\ Len(a) = IF 1 <= k - 1 THEN k - 1 - 1 + 1 ELSE 0
        /\ \A i \in 1..(k - 1 - 1 + 1) : a[i] = s[1 + i - 1]
    BY <2>1, SubSeqProperties
  <2> HIDE DEF a
  <2>3. Len(a) = k - 1 /\ k - 1 - 1 + 1 = k - 1
    BY <1>1, <2>2
  <2>4. ASSUME NEW i \in 1..(k - 1)
        PROVE  a[i] = s[i]
    <3>1. a[i] = s[1 + i - 1] /\ 1 + i - 1 = i
      BY <1>1, <2>2, <2>3
    <3>2. QED
      BY <3>1
  <2>5. QED
    BY <2>2, <2>3, <2>4
<1>4. b \in Seq(S) /\ Len(b) = 1 /\ b[1] = e
  OBVIOUS
<1>5. /\ c \in Seq(S) /\ Len(c) = n - k + 1
      /\ \A i \in 1..(n - k + 1) : c[i] = s[k + i - 1]
  <2>1. k \in Int /\ n \in Int /\ \A i \in k..n : s[i] \in S
    BY <1>1
  <2>2. /\ c \in Seq(S)
        /\ Len(c) = IF k <= n THEN n - k + 1 ELSE 0
        /\ \A i \in 1..(n - k + 1) : c[i] = s[k + i - 1]
    BY <2>1, SubSeqProperties
  <2> HIDE DEF c
  <2>3. QED
    BY <1>1, <2>2
<1> HIDE DEF a, b, c
<1>6. /\ d \in Seq(S) /\ Len(d) = k
      /\ \A i \in 1..k : d[i] = IF i < k THEN s[i] ELSE e
  <2>1. /\ d \in Seq(S) /\ Len(d) = Len(a) + Len(b)
        /\ \A i \in 1..(Len(a) + Len(b)) :
             d[i] = IF i <= Len(a) THEN a[i] ELSE b[i - Len(a)]
    BY <1>3, <1>4, ConcatProperties
  <2> HIDE DEF d
  <2>2. Len(a) + Len(b) = k
    BY <1>1, <1>3, <1>4
  <2>3. ASSUME NEW i \in 1..k, i < k
        PROVE  d[i] = s[i]
    <3>1. i \in 1..(Len(a) + Len(b)) /\ i <= Len(a) /\ i \in 1..(k - 1)
      BY <1>1, <1>3, <2>2, <2>3
    <3>2. QED
      BY <1>3, <2>1, <3>1
  <2>4. d[k] = e
    <3>1. d[k] = b[k - (k - 1)] /\ k - (k - 1) = 1
      BY <1>1, <1>3, <2>1, <2>2
    <3>2. QED
      BY <1>4, <3>1
  <2>5. \A i \in 1..k : i < k \/ i = k
    BY <1>1
  <2>6. QED
    BY <1>1, <2>1, <2>2, <2>3, <2>4, <2>5
<1> HIDE DEF d
<1>7. /\ d \o c \in Seq(S) /\ Len(d \o c) = Len(d) + Len(c)
      /\ \A i \in 1..(Len(d) + Len(c)) :
           (d \o c)[i] = IF i <= Len(d) THEN d[i] ELSE c[i - Len(d)]
  BY <1>5, <1>6, ConcatProperties
<1>8. Len(d) + Len(c) = n + 1 /\ Len(r) = n + 1 /\ r \in Seq(S)
  BY <1>1, <1>2, <1>5, <1>6, <1>7
<1>9. ASSUME NEW i \in 1..(n + 1)
      PROVE  r[i] = IF i < k THEN s[i] ELSE IF i = k THEN e ELSE s[i - 1]
  <2>1. r[i] = IF i <= k THEN d[i] ELSE c[i - k]
    BY <1>2, <1>6, <1>7, <1>8
  <2>2. CASE i <= k
    <3>1. i \in 1..k /\ r[i] = d[i]
      BY <1>1, <2>1, <2>2
    <3>2. d[i] = IF i < k THEN s[i] ELSE e
      BY <1>6, <3>1
    <3>3. QED
      BY <1>1, <2>2, <3>1, <3>2
  <2>3. CASE i > k
    <3>1. i - k \in 1..(n - k + 1) /\ k + (i - k) - 1 = i - 1
      BY <1>1, <2>3
    <3>2. c[i - k] = s[i - 1]
      BY <1>5, <3>1
    <3>3. QED
      BY <1>1, <2>1, <2>3, <3>2
  <2>4. QED
    BY <1>1, <2>2, <2>3
<1>10. QED
  BY <1>8, <1>9 DEF n

\* A task that was not in the line is then there once.
LEMMA PlaceOK ==
  ASSUME QueueInv, NEW t \in Tasks, Exec(t) = "none", line' = Place(t)
  PROVE  /\ line' \in Seq(Tasks)
         /\ \A i \in DOMAIN line' : line'[i] = t \/ Exec(line'[i]) = "queued"
         /\ \A i, j \in DOMAIN line' : line'[i] = line'[j] => i = j
<1> DEFINE ahead == {i \in DOMAIN line : Prio[line[i]] >= Prio[t]}
           k == Cardinality(ahead) + 1
<1>1. line \in Seq(Tasks) /\ Len(line) \in Nat /\ DOMAIN line = 1..Len(line)
  BY DEF QueueInv, TypeOK
<1>2. k \in 1..(Len(line) + 1)
  <2>1. IsFiniteSet(1..Len(line)) /\ Cardinality(1..Len(line)) = Len(line)
    BY <1>1, FS_Interval
  <2>2. ahead \in SUBSET (1..Len(line))
    BY <1>1
  <2> HIDE DEF ahead
  <2>3. IsFiniteSet(ahead) /\ Cardinality(ahead) <= Cardinality(1..Len(line))
    BY <2>1, <2>2, FS_Subset
  <2>4. Cardinality(ahead) \in Nat
    BY <2>3, FS_CardinalityType
  <2>5. QED
    BY <1>1, <2>1, <2>3, <2>4
<1>3. line' = InsertAt(line, k, t)
  BY DEF Place
<1> HIDE DEF k
<1>4. /\ line' \in Seq(Tasks) /\ Len(line') = Len(line) + 1
      /\ \A i \in 1..Len(line') :
           line'[i] = IF i < k THEN line[i] ELSE IF i = k THEN t ELSE line[i - 1]
  BY <1>1, <1>2, <1>3, Inserted
<1>5. DOMAIN line' = 1..(Len(line) + 1)
  BY <1>4
<1> DEFINE from(i) == IF i < k THEN i ELSE i - 1
<1>6. \A i \in 1..(Len(line) + 1) : i # k =>
        from(i) \in 1..Len(line) /\ line'[i] = line[from(i)]
  BY <1>1, <1>2, <1>4
<1>7. \A i, j \in 1..(Len(line) + 1) :
        i # k /\ j # k /\ from(i) = from(j) => i = j
  BY <1>1, <1>2
<1>8. line'[k] = t
  BY <1>1, <1>2, <1>4
<1> HIDE DEF from
<1>9. \A i \in 1..(Len(line) + 1) : i # k =>
        Exec(line'[i]) = "queued" /\ line'[i] # t
  BY <1>1, <1>6 DEF QueueInv, LineOK, InLine
<1>10. ASSUME NEW i \in 1..(Len(line) + 1), NEW j \in 1..(Len(line) + 1),
              line'[i] = line'[j]
       PROVE  i = j
  <2>1. CASE i = k \/ j = k
    BY <1>8, <1>9, <1>10, <2>1
  <2>2. CASE i # k /\ j # k
    <3>1. /\ from(i) \in DOMAIN line /\ from(j) \in DOMAIN line
          /\ line[from(i)] = line[from(j)]
      BY <1>1, <1>6, <1>10, <2>2
    <3>2. from(i) = from(j)
      BY <3>1, OnceInLine
    <3>3. QED
      BY <1>7, <2>2, <3>2
  <2>3. QED
    BY <2>1, <2>2
<1>11. QED
  BY <1>4, <1>5, <1>8, <1>9, <1>10

\* A fresh task enters the queue.
Entered(k) == [k EXCEPT !.exec = "queued", !.promise = "open"]

LEMMA EnteredOK ==
  ASSUME NEW k \in TaskInfo, Life(k), k.exec = "none"
  PROVE  /\ Entered(k) \in TaskInfo /\ Life(Entered(k))
         /\ Entered(k).exec = "queued" /\ ~Cleanable(k)
<1> DEFINE l == Entered(k)
<1>1. /\ k.tries = 0 /\ k.told = 0 /\ ~k.known /\ ~k.settled /\ k.status = "pending"
      /\ ~Cleanable(k)
  BY DEF Life, NewTask, Cleanable
<1>2. l = [k EXCEPT !.exec = "queued", !.promise = "open"]
  BY DEF Entered
<1> HIDE DEF l
<1>3. /\ l \in TaskInfo /\ l.exec = "queued" /\ l.promise = "open" /\ l.tries = k.tries
      /\ l.told = k.told /\ l.known = k.known /\ l.settled = k.settled
      /\ l.status = k.status
  BY <1>2 DEF TaskInfo, Execs
<1>4. Life(l)
  BY <1>1, <1>3 DEF Life, WhileQueued, WhileTried, WhileLeaving, WhenOver, Untold
<1>5. QED
  BY <1>1, <1>3, <1>4 DEF l

LEMMA QueuedInLine ==
  ASSUME stop' = "no", \A i \in DOMAIN line' : task'[line'[i]].exec = "queued",
         \A i, j \in DOMAIN line' : line'[i] = line'[j] => i = j
  PROVE  LineOK'
<1>1. \A u \in InLine' : task'[u].exec = "queued"
  BY DEF InLine
<1>2. QED
  BY <1>1 DEF LineOK, Exec

\* Tasks are added, each with its record, which nobody needs who is open.
LEMMA AddingKeeps ==
  ASSUME QueueInv, stop = "no", UNCHANGED <<body, due, paused, stop, todo, awaited>>,
         NEW A \in SUBSET Tasks, \A t \in A : Exec(t) = "none",
         task' = [u \in Tasks |-> IF u \in A THEN Entered(task[u]) ELSE task[u]],
         record' \in [Ids -> Tasks \cup {None}],
         \A i \in Ids :
           record'[i] = record[i] \/ (record'[i] \in A /\ Id[record'[i]] = i),
         \A t \in A : record'[Id[t]] = t,
         \A u \in Tasks \ A : Open(u) => record'[Id[u]] = record[Id[u]],
         line' \in Seq(Tasks),
         \A i \in DOMAIN line' : line'[i] \in A \/ Exec(line'[i]) = "queued",
         \A i, j \in DOMAIN line' : line'[i] = line'[j] => i = j
  PROVE  QueueInv'
<1> USE TaskAssumption
<1>1. ASSUME NEW u \in A
      PROVE  /\ Entered(task[u]) \in TaskInfo /\ Life(Entered(task[u]))
             /\ Entered(task[u]).exec = "queued" /\ ~Cleanable(task[u])
  BY EnteredOK, Found DEF Exec
<1>2. \A u \in Tasks \ A : task'[u] = task[u]
  OBVIOUS
<1>3. \A u \in A : task'[u] = Entered(task[u])
  OBVIOUS
<1>4. task' \in [Tasks -> TaskInfo] /\ \A u \in Tasks : Life(task'[u])
  <2>1. ASSUME NEW u \in Tasks
        PROVE  task'[u] \in TaskInfo /\ Life(task'[u])
    <3>1. CASE u \in A
      BY <1>1, <1>3, <3>1
    <3>2. CASE u \notin A
      BY <1>2, <3>2, Found
    <3>3. QED
      BY <3>1, <3>2
  <2>2. QED
    BY <2>1
<1>5. TypeOK'
  BY <1>4, TypePartsNext DEF QueueInv, TypeOK
<1>6. LineOK'
  <2>1. ASSUME NEW i \in DOMAIN line'
        PROVE  task'[line'[i]].exec = "queued"
    <3>1. CASE line'[i] \in A
      BY <1>1, <1>3, <3>1
    <3>2. CASE line'[i] \notin A
      <4>1. line'[i] \in Tasks /\ Exec(line'[i]) = "queued"
        BY <3>2
      <4>2. QED
        BY <1>2, <3>2, <4>1 DEF Exec
    <3>3. QED
      BY <3>1, <3>2
  <2>2. QED
    BY <2>1, QueuedInLine
<1>7. RecordsOK'
  <2> SUFFICES ASSUME NEW i \in Ids, record'[i] # None
               PROVE  Id[record'[i]] = i /\ task'[record'[i]].exec # "none"
    BY DEF RecordsOK, Exec
  <2>1. CASE record'[i] \in A /\ Id[record'[i]] = i
    BY <1>1, <1>3, <2>1
  <2>2. CASE record'[i] = record[i]
    <3>1. record[i] \in Tasks /\ Id[record[i]] = i /\ task[record[i]].exec # "none"
      BY <2>2 DEF QueueInv, RecordsOK, TypeOK, Exec
    <3>2. record[i] \notin A
      BY <3>1 DEF Exec
    <3>3. QED
      BY <1>2, <2>2, <3>1, <3>2
  <2>3. QED
    BY <2>1, <2>2
<1>8. \A u \in due' : Cleanable(task'[u])
  <2>1. \A u \in due : u \in Tasks /\ Cleanable(task[u])
    BY DEF QueueInv, TypeOK
  <2>2. QED
    BY <1>1, <1>2, <2>1
<1>9. OpenIsRecorded'
  <2> SUFFICES ASSUME NEW u \in Tasks, Findable(task'[u])
               PROVE  record'[Id[u]] = u
    BY DEF OpenIsRecorded, Findable, Open, Exec
  <2>1. CASE u \notin A
    <3>1. Findable(task[u]) /\ Open(u)
      BY <1>2, <2>1 DEF Findable, Open
    <3>2. record[Id[u]] = u
      BY <3>1, Found
    <3>3. QED
      BY <2>1, <3>1, <3>2
  <2>2. QED
    BY <2>1
<1>10. StopIsFinal'
  BY DEF StopIsFinal
<1>11. QED
  BY <1>4, <1>5, <1>6, <1>7, <1>8, <1>9, <1>10 DEF QueueInv

LEMMA AddKeeps ==
  ASSUME QueueInv, NEW t \in Tasks, Add(t)
  PROVE  QueueInv'
<1> USE TaskAssumption
<1>1. /\ stop = "no" /\ Exec(t) = "none" /\ line' = Place(t)
      /\ \A u \in Tasks : Id[u] = Id[t] => ~Open(u)
      /\ record' = [record EXCEPT ![Id[t]] = t]
      /\ UNCHANGED <<body, due, paused, stop, todo, awaited>>
  BY DEF Add, stopVars
<1>2. /\ line' \in Seq(Tasks)
      /\ \A i \in DOMAIN line' : line'[i] = t \/ Exec(line'[i]) = "queued"
      /\ \A i, j \in DOMAIN line' : line'[i] = line'[j] => i = j
  BY <1>1, PlaceOK
<1>3. task' = [task EXCEPT ![t] = Entered(task[t])]
  <2>1. task \in [Tasks -> TaskInfo]
    BY TypeParts DEF QueueInv
  <2>2. QED
    BY <2>1 DEF Add, Entered, TaskInfo
<1>4. record \in [Ids -> Tasks \cup {None}]
  BY DEF QueueInv, TypeOK
<1>5. record' \in [Ids -> Tasks \cup {None}]
  BY <1>1, <1>4
<1>6. /\ \A i \in Ids :
           record'[i] = record[i] \/ (record'[i] \in {t} /\ Id[record'[i]] = i)
      /\ record'[Id[t]] = t
      /\ \A u \in Tasks \ {t} : Open(u) => record'[Id[u]] = record[Id[u]]
  BY <1>1, <1>4
<1> DEFINE A == {t}
<1>7. /\ A \in SUBSET Tasks /\ \A u \in A : Exec(u) = "none"
      /\ \A i \in Ids :
           record'[i] = record[i] \/ (record'[i] \in A /\ Id[record'[i]] = i)
      /\ \A u \in A : record'[Id[u]] = u
      /\ \A u \in Tasks \ A : Open(u) => record'[Id[u]] = record[Id[u]]
      /\ \A i \in DOMAIN line' : line'[i] \in A \/ Exec(line'[i]) = "queued"
  BY <1>1, <1>2, <1>6
<1>8. task' = [u \in Tasks |-> IF u \in A THEN Entered(task[u]) ELSE task[u]]
  <2>1. task \in [Tasks -> TaskInfo]
    BY TypeParts DEF QueueInv
  <2>2. QED
    BY <1>3, <2>1
<1> HIDE DEF A
<1>9. QED
  BY <1>1, <1>2, <1>5, <1>7, <1>8, AddingKeeps

\* What the stage submits: fresh tasks, one per row, each the row's own.
LEMMA AddedTasks ==
  /\ Added \subseteq Tasks
  /\ \A t \in Added : Exec(t) = "none" /\ TaskFor(Id[t]) = t
  /\ IsFiniteSet(Added)
<1> USE TaskAssumption
<1>1. \A x \in Chosen : TaskFor(Id[x]) \in Chosen /\ Id[TaskFor(Id[x])] = Id[x]
  BY DEF TaskFor
<1>2. \A t \in Added : t \in Chosen /\ TaskFor(Id[t]) = t
  BY <1>1 DEF Added
<1>3. Chosen \subseteq Tasks /\ \A t \in Chosen : Exec(t) = "none"
  BY DEF Chosen, Spare
<1>4. IsFiniteSet(Added)
  <2> DEFINE f == [t \in Added |-> Id[t]]
  <2>1. f \in [Added -> Ids]
    BY <1>2, <1>3
  <2>2. \A t, u \in Added : f[t] = f[u] => t = u
    BY <1>2
  <2>3. f \in Injection(Added, Ids)
    BY <2>1, <2>2 DEF Injection, IsInjective
  <2>4. IsFiniteSet(Ids)
    BY StageAssumption DEF Rows
  <2> HIDE DEF f
  <2>5. QED
    BY <2>3, <2>4, FS_Injection
<1>5. QED
  BY <1>2, <1>3, <1>4

\* They come after all that waits.
LEMMA AppendedOK ==
  ASSUME QueueInv, NEW new \in SetToSeqs(Added), line' = line \o new
  PROVE  /\ line' \in Seq(Tasks)
         /\ \A i \in DOMAIN line' : line'[i] \in Added \/ Exec(line'[i]) = "queued"
         /\ \A i, j \in DOMAIN line' : line'[i] = line'[j] => i = j
<1> DEFINE m == Len(line)
           n == Cardinality(Added)
<1>1. line \in Seq(Tasks) /\ m \in Nat /\ DOMAIN line = 1..m
  BY DEF QueueInv, TypeOK
<1>2. n \in Nat
  BY AddedTasks, FS_CardinalityType
<1>3. /\ new \in [1..n -> Added]
      /\ \A i, j \in 1..n : i # j => new[i] # new[j]
  BY DEF SetToSeqs
<1> HIDE DEF n
<1>4. new \in Seq(Tasks) /\ Len(new) = n
  <2>1. new \in [1..n -> Tasks]
    BY <1>3, AddedTasks
  <2>2. QED
    BY <1>2, <2>1
<1>5. /\ line \o new \in Seq(Tasks) /\ Len(line \o new) = m + n
      /\ \A i \in 1..(m + n) :
           (line \o new)[i] = IF i <= m THEN line[i] ELSE new[i - m]
  BY <1>1, <1>4, ConcatProperties
<1> HIDE DEF m
<1>6. line' \in Seq(Tasks) /\ DOMAIN line' = 1..(m + n)
  BY <1>2, <1>5
<1>7. \A i \in 1..(m + n) : i <= m =>
        /\ i \in DOMAIN line /\ line'[i] = line[i]
        /\ Exec(line'[i]) = "queued"
  <2> TAKE i \in 1..(m + n)
  <2> HAVE i <= m
  <2>1. i \in DOMAIN line
    BY <1>1, <1>2
  <2>2. line'[i] = line[i]
    BY <1>5
  <2>3. Exec(line[i]) = "queued"
    BY <2>1 DEF QueueInv, LineOK, InLine
  <2>4. QED
    BY <2>1, <2>2, <2>3
<1>8. \A i \in 1..(m + n) : i > m =>
        i - m \in 1..n /\ line'[i] = new[i - m] /\ line'[i] \in Added
  <2> TAKE i \in 1..(m + n)
  <2> HAVE i > m
  <2>1. i - m \in 1..n /\ ~(i <= m)
    BY <1>1, <1>2
  <2>2. line'[i] = new[i - m]
    BY <1>5, <2>1
  <2>3. QED
    BY <1>3, <2>1, <2>2
<1>9. ASSUME NEW i \in 1..(m + n), NEW j \in 1..(m + n), line'[i] = line'[j]
      PROVE  i = j
  <2>1. CASE i <= m /\ j <= m
    BY <1>7, <1>9, <2>1, OnceInLine
  <2>2. CASE i > m /\ j > m
    <3>1. i - m = j - m
      BY <1>3, <1>8, <1>9, <2>2
    <3>2. QED
      BY <1>1, <1>2, <3>1
  <2>3. CASE (i <= m /\ j > m) \/ (i > m /\ j <= m)
    BY <1>7, <1>8, <1>9, <2>3, AddedTasks
  <2>4. (i <= m \/ i > m) /\ (j <= m \/ j > m)
    BY <1>1, <1>2
  <2>5. QED
    BY <2>1, <2>2, <2>3, <2>4
<1>10. \A i \in 1..(m + n) : i <= m \/ i > m
  BY <1>1, <1>2
<1>11. QED
  BY <1>6, <1>7, <1>8, <1>9, <1>10

-----------------------------------------------------------------------------
(* The stage.                                                              *)

\* The queue of a new process is empty and in order.
LEMMA InitOK ==
  Init => QueueInv
<1> USE TaskAssumption
<1> SUFFICES ASSUME Init
             PROVE  QueueInv
  OBVIOUS
<1>1. NewTask \in TaskInfo
  BY DEF NewTask, TaskInfo, Execs, Final
<1>2. task \in [Tasks -> TaskInfo] /\ \A t \in Tasks : task[t] = NewTask
  BY <1>1 DEF Init
<1>3. Life(NewTask)
  BY DEF Life, NewTask, WhileQueued, WhileTried, WhileLeaving, WhenOver
<1>4. TypeOK
  <2>1. /\ body \in [Tasks -> Bodies] /\ line \in Seq(Tasks)
        /\ record \in [Ids -> Tasks \cup {None}]
    BY DEF Init, Bodies
  <2>2. QED
    BY <1>2, <2>1, TypeParts DEF Init
<1>5. LineOK
  BY DEF Init, LineOK, InLine
<1>6. RecordsOK
  BY DEF Init, RecordsOK
<1>7. OpenIsRecorded /\ StopIsFinal
  BY <1>2 DEF Init, OpenIsRecorded, StopIsFinal, Open, NewTask
<1>8. QED
  BY <1>2, <1>3, <1>4, <1>5, <1>6, <1>7 DEF Init, QueueInv

\* A step that leaves the queue alone.
LEMMA QueueRests ==
  ASSUME QueueInv, UNCHANGED vars
  PROVE  QueueGoesOn
<1>1. UNCHANGED <<task, body, line, record, due, paused, stop, todo, awaited>>
  BY DEF vars
<1>2. QED
  BY <1>1, NobodyGoesOn, QuietStepKeeps DEF QueueInv, TypeOK

\* What the queue does by itself opens no task and starts no handler.
LEMMA QueueStepKeeps ==
  ASSUME QueueInv, QueueStep
  PROVE  /\ QueueGoesOn
         /\ \A t \in Tasks : body'[t] \in {"handle", "apply"} => body'[t] = body[t]
<1>0. body \in [Tasks -> Bodies]
  BY DEF QueueInv, TypeOK
<1>1. ASSUME NEW t \in Tasks, Start(t)
      PROVE  /\ QueueGoesOn
             /\ body' = [body EXCEPT ![t] = IF task[t].aborted THEN @ ELSE "run"]
  BY <1>1, StartKeeps DEF Start, Attempt
<1>2. ASSUME NEW t \in Tasks, EndAttempt(t) \/ Leave(t) \/ Timeout(t)
      PROVE  QueueGoesOn /\ body' = body
  BY <1>2, EndAttemptKeeps, LeaveKeeps, TimeoutKeeps DEF EndAttempt, Leave, Timeout
<1>3. ASSUME NEW t \in Tasks, EndDelay(t)
      PROVE  /\ QueueGoesOn
             /\ body' = [body EXCEPT ![t] = IF task[t].aborted THEN @ ELSE "run"]
  BY <1>3, EndDelayKeeps DEF EndDelay, Attempt
<1>4. ASSUME Stopping
      PROVE  QueueGoesOn /\ body' = body
  BY <1>4, StopCancelKeeps, StopAwaitKeeps, StopReturnKeeps
  DEF Stopping, StopCancel, StopAwait, StopReturn
<1>5. CASE \E t \in Tasks : Start(t) \/ EndDelay(t)
  <2>1. PICK t \in Tasks : Start(t) \/ EndDelay(t)
    BY <1>5
  <2>2. /\ QueueGoesOn
        /\ body' = [body EXCEPT ![t] = IF task[t].aborted THEN @ ELSE "run"]
    BY <1>1, <1>3, <2>1
  <2>3. QED
    BY <1>0, <2>2
<1>6. CASE \E t \in Tasks : EndAttempt(t) \/ Leave(t) \/ Timeout(t)
  BY <1>2, <1>6
<1>7. CASE Stopping
  BY <1>4, <1>7
<1>8. QED
  BY <1>5, <1>6, <1>7 DEF QueueStep, Progress

\* Nor does stop().
LEMMA StopStartsNoHandler ==
  ASSUME QueueInv, Stop
  PROVE  \A t \in Tasks : body'[t] \in {"handle", "apply"} => body'[t] = body[t]
  BY DEF Stop

\* What a plugin does with its queue starts no handler either.
LEMMA PluginStepKeeps ==
  ASSUME QueueInv, PluginStep
  PROVE  /\ QueueInv'
         /\ \A t \in Tasks : body'[t] \in {"handle", "apply"} => body'[t] = body[t]
<1>0. body \in [Tasks -> Bodies]
  BY DEF QueueInv, TypeOK
<1>1. ASSUME NEW t \in Tasks, Add(t)
      PROVE  QueueInv' /\ body' = body
  BY <1>1, AddKeeps DEF Add
<1>2. ASSUME NEW t \in Tasks, RunBody(t)
      PROVE  QueueInv' /\ body' = [body EXCEPT ![t] = "none"]
  BY <1>2, RunBodyKeeps DEF RunBody, Return, QueueGoesOn
<1>3. ASSUME Housekeeping
      PROVE  QueueInv' /\ body' = body
  BY <1>3, CleanUpKeeps, TrimKeeps DEF Housekeeping, CleanUp, Trim, QueueGoesOn
<1>4. ASSUME UserCalls
      PROVE  QueueInv' /\ body' = body
  BY <1>4, SignalKeeps, CancelTaskKeeps, PauseResumeKeep, ClearKeeps
  DEF UserCalls, Signal, CancelTask, Pause, Resume, Clear, QueueGoesOn
<1>5. ASSUME Stop
      PROVE  QueueInv'
  BY <1>5, StopKeeps DEF QueueGoesOn
<1>6. CASE \E t \in Tasks : Add(t)
  BY <1>1, <1>6
<1>7. CASE \E t \in Tasks : RunBody(t)
  BY <1>0, <1>2, <1>7
<1>8. CASE Housekeeping \/ UserCalls
  BY <1>3, <1>4, <1>8
<1>9. CASE Stop
  BY <1>5, <1>9, StopStartsNoHandler
<1>10. QED
  BY <1>6, <1>7, <1>8, <1>9 DEF PluginStep

\* The rows are safe from a step that starts no handler and claims no row.
LEMMA RowsRest ==
  ASSUME RowsOK, HandlerOwnsRow, by' = by, rival' \subseteq rival,
         \A i \in Rows : row'[i] = "from" => row[i] = "from",
         \A t \in Tasks :
           body'[t] \in {"handle", "apply"} => body[t] \in {"handle", "apply"}
  PROVE  RowsOK' /\ HandlerOwnsRow'
<1>1. RowsOK'
  BY DEF RowsOK
<1>2. HandlerOwnsRow'
  BY DEF HandlerOwnsRow
<1>3. QED
  BY <1>1, <1>2

\* A batch is right after a step that opens no task and leaves the loop alone.
LEMMA BatchRests ==
  ASSUME QueueGoesOn, BatchOK, UNCHANGED <<client, batch, poll>>
  PROVE  BatchOK'
  BY DEF QueueGoesOn, BatchOK, GoesOn, Open

\* A step of the loop or of the other worker: the queue rests.
LEMMA StageRests ==
  ASSUME StageInv, UNCHANGED <<vars, client, crashed, result, running>>,
         by' = by, rival' \subseteq rival,
         row' \in [Rows -> {"from", "processing", "to", "error"}],
         \A i \in Rows : row'[i] = "from" => row[i] = "from",
         poll' \in {"ask", "asked", "batch", "off"}, items' \subseteq Rows,
         batch' \subseteq batch, late' \in [Rows -> Nat], unmarked' \subseteq Rows,
         BatchOK'
  PROVE  StageInv'
<1>1. QueueInv'
  BY QueueRests DEF StageInv, vars, QueueGoesOn
<1>2. body' = body
  BY DEF vars
<1>3. RowsOK' /\ HandlerOwnsRow'
  BY <1>2, RowsRest DEF StageInv
<1>4. StageTypeOK'
  BY <1>1 DEF StageInv, StageTypeOK, QueueInv
<1>5. QED
  BY <1>1, <1>3, <1>4 DEF StageInv

LEMMA QueryKeeps ==
  ASSUME StageInv, Query, UNCHANGED <<client, crashed>>
  PROVE  StageInv'
<1>1. /\ poll = "ask" /\ poll' = "asked" /\ items' \subseteq Rows
      /\ UNCHANGED <<vars, row, by, rival, result, batch, late, unmarked, running>>
  BY DEF Query, Waiting
<1>2. BatchOK'
  BY <1>1 DEF StageInv, BatchOK, Open, vars
<1>3. QED
  BY <1>1, <1>2, StageRests DEF StageInv, StageTypeOK

LEMMA SettledKeeps ==
  ASSUME StageInv, NEW t \in Tasks, Settled(t), UNCHANGED <<client, crashed>>
  PROVE  StageInv'
<1> USE TaskAssumption
<1>1. /\ t \in batch /\ ~Open(t) /\ batch' = batch \ {t}
      /\ UNCHANGED <<vars, row, by, rival, result, poll, items, unmarked, running>>
      /\ late' = late \/ late' = [late EXCEPT ![Id[t]] = @ + 1]
  BY DEF Settled
<1>2. BatchOK'
  <2>1. task' = task /\ (poll # "batch" => poll' # "batch")
    BY <1>1 DEF vars
  <2>2. QED
    BY <1>1, <2>1 DEF StageInv, BatchOK, Open
<1>3. late' \in [Rows -> Nat]
  <2>1. late \in [Rows -> Nat] /\ Id[t] \in Rows
    BY DEF StageInv, StageTypeOK, Rows
  <2>2. QED
    BY <1>1, <2>1
<1>4. QED
  BY <1>1, <1>2, <1>3, StageRests DEF StageInv, StageTypeOK

LEMMA LateUpdateKeeps ==
  ASSUME StageInv, NEW i \in Rows, LateUpdate(i), UNCHANGED <<client, crashed>>
  PROVE  StageInv'
<1>1. /\ late[i] > 0 /\ late' = [late EXCEPT ![i] = @ - 1]
      /\ row' = [row EXCEPT ![i] = "error"] \/ row' = row
      /\ unmarked' = unmarked \/ unmarked' = unmarked \cup {i}
      /\ UNCHANGED <<vars, by, rival, result, poll, items, batch, running>>
  BY DEF LateUpdate
<1>2. /\ row \in [Rows -> {"from", "processing", "to", "error"}]
      /\ late \in [Rows -> Nat] /\ unmarked \subseteq Rows
  BY DEF StageInv, StageTypeOK
<1>3. /\ row' \in [Rows -> {"from", "processing", "to", "error"}]
      /\ \A j \in Rows : row'[j] = "from" => row[j] = "from"
  BY <1>1, <1>2
<1>4. late' \in [Rows -> Nat] /\ unmarked' \subseteq Rows
  BY <1>1, <1>2
<1>5. BatchOK'
  BY <1>1 DEF StageInv, BatchOK, Open, vars
<1>6. QED
  BY <1>1, <1>3, <1>4, <1>5, StageRests DEF StageInv, StageTypeOK

LEMMA LoopKeeps ==
  ASSUME StageInv, Again \/ LoopEnds, UNCHANGED <<client, crashed>>
  PROVE  StageInv'
<1>1. /\ poll' \in {"ask", "off"}
      /\ poll = "ask" \/ batch = {}
      /\ UNCHANGED <<vars, row, by, rival, result, items, batch, late, unmarked, running>>
  BY DEF Again, LoopEnds
<1>2. BatchOK'
  BY <1>1 DEF StageInv, BatchOK, Open, vars
<1>3. QED
  BY <1>1, <1>2, StageRests DEF StageInv, StageTypeOK

LEMMA RivalAppliesKeeps ==
  ASSUME StageInv, NEW i \in Rows, RivalApplies(i), UNCHANGED <<client, crashed>>
  PROVE  StageInv'
<1>1. PICK s \in {"to", "error"} : row' = [row EXCEPT ![i] = s]
  BY DEF RivalApplies
<1>2. /\ rival' = rival \ {i}
      /\ UNCHANGED <<vars, by, result, poll, items, batch, late, unmarked, running>>
  BY DEF RivalApplies
<1>3. row \in [Rows -> {"from", "processing", "to", "error"}]
  BY DEF StageInv, StageTypeOK
<1>4. /\ row' \in [Rows -> {"from", "processing", "to", "error"}]
      /\ \A j \in Rows : row'[j] = "from" => row[j] = "from"
  BY <1>1, <1>3
<1>5. BatchOK'
  BY <1>2 DEF StageInv, BatchOK, Open, vars
<1>6. QED
  BY <1>2, <1>4, <1>5, StageRests DEF StageInv, StageTypeOK

\* The other worker takes only rows that no handler is at.
LEMMA RivalClaimsKeeps ==
  ASSUME StageInv, NEW i \in Rows, RivalClaims(i), UNCHANGED <<client, crashed>>
  PROVE  StageInv'
<1>1. /\ i \in Shared /\ row[i] = "from"
      /\ row' = [row EXCEPT ![i] = "processing"]
      /\ by' = [by EXCEPT ![i] = Rival] /\ rival' = rival \cup {i}
      /\ UNCHANGED <<vars, result, poll, items, batch, late, unmarked, running>>
  BY DEF RivalClaims
<1>2. /\ row \in [Rows -> {"from", "processing", "to", "error"}]
      /\ by \in [Rows -> Tasks \cup {None, Rival}]
  BY DEF StageInv, StageTypeOK
<1>3. QueueInv' /\ body' = body
  BY <1>1, QueueRests DEF StageInv, vars, QueueGoesOn
<1>4. \A t \in Tasks : Id[t] = i => body'[t] \notin {"handle", "apply"}
  BY <1>1, <1>3 DEF StageInv, RowsOK
<1>5. \A j \in Rows \ {i} : row'[j] = row[j] /\ by'[j] = by[j]
  BY <1>1, <1>2
<1>6. row'[i] = "processing"
  BY <1>1, <1>2
<1>7. RowsOK'
  BY <1>1, <1>3, <1>5, <1>6 DEF StageInv, RowsOK
<1>8. HandlerOwnsRow'
  <2> SUFFICES ASSUME NEW t \in Tasks, body'[t] \in {"handle", "apply"}
               PROVE  by'[Id[t]] = t /\ Id[t] \notin rival'
    BY DEF HandlerOwnsRow
  <2>1. Id[t] \in Rows \ {i}
    BY <1>4, TaskAssumption DEF Rows
  <2>2. by[Id[t]] = t /\ Id[t] \notin rival
    BY <1>3 DEF StageInv, HandlerOwnsRow
  <2>3. QED
    BY <1>1, <1>5, <2>1, <2>2
<1>9. BatchOK'
  BY <1>1 DEF StageInv, BatchOK, Open, vars
<1>10. StageTypeOK'
  BY <1>1, <1>2, <1>3 DEF StageInv, StageTypeOK, QueueInv
<1>11. QED
  BY <1>3, <1>7, <1>8, <1>9, <1>10 DEF StageInv

\* A step of a task function: the queue goes on, the loop rests.
LEMMA FunctionKeeps ==
  ASSUME StageInv, QueueGoesOn, RowsOK', HandlerOwnsRow',
         UNCHANGED <<client, crashed, rival, poll, items, batch, late, unmarked, running>>,
         row' \in [Rows -> {"from", "processing", "to", "error"}],
         by' \in [Rows -> Tasks \cup {None, Rival}],
         result' \in [Tasks -> {"none", "success", "failure", "skip"}]
  PROVE  StageInv'
<1>1. BatchOK'
  BY BatchRests DEF StageInv
<1>2. StageTypeOK'
  BY DEF StageInv, StageTypeOK, QueueGoesOn, QueueInv
<1>3. QED
  BY <1>1, <1>2 DEF StageInv, QueueGoesOn

\* A task function that goes on to its next part.
LEMMA BodyGoesOn ==
  ASSUME QueueInv, NEW t \in Tasks, NEW b \in Bodies, body' = [body EXCEPT ![t] = b],
         UNCHANGED <<task, line, record, due, paused, stop, todo, awaited>>
  PROVE  QueueGoesOn
<1>1. body' \in [Tasks -> Bodies]
  BY DEF QueueInv, TypeOK
<1>2. QED
  BY <1>1, NobodyGoesOn, QuietStepKeeps DEF QueueInv, TypeOK

\* The claim: a conditional update, so that nobody else is at the row.
LEMMA ClaimKeeps ==
  ASSUME StageInv, NEW t \in Tasks, Claim(t), UNCHANGED <<client, crashed>>
  PROVE  StageInv'
<1> DEFINE i == Id[t]
<1>1. /\ body[t] = "run"
      /\ UNCHANGED <<line, record, due, paused, stop, todo, awaited>>
      /\ UNCHANGED <<rival, result, poll, items, batch, late, unmarked, running>>
  BY DEF Claim, stopVars
<1>2. /\ row \in [Rows -> {"from", "processing", "to", "error"}]
      /\ by \in [Rows -> Tasks \cup {None, Rival}]
      /\ result \in [Tasks -> {"none", "success", "failure", "skip"}]
      /\ i \in Rows /\ QueueInv /\ body \in [Tasks -> Bodies]
  BY TaskAssumption DEF StageInv, StageTypeOK, Rows, QueueInv, TypeOK
<1>3. CASE /\ row[i] = "from" /\ task' = task
           /\ row' = [row EXCEPT ![i] = "processing"]
           /\ by' = [by EXCEPT ![i] = t]
           /\ body' = [body EXCEPT ![t] = "handle"]
  <2>1. QueueGoesOn
    BY <1>1, <1>2, <1>3, BodyGoesOn DEF Bodies
  <2>2. \A u \in Tasks \ {t} : Id[u] = i => body'[u] \notin {"handle", "apply"}
    BY <1>2, <1>3 DEF StageInv, RowsOK
  <2>3. \A j \in Rows \ {i} : row'[j] = row[j] /\ by'[j] = by[j]
    BY <1>2, <1>3
  <2>4. row'[i] = "processing" /\ by'[i] = t /\ i \notin rival
    BY <1>2, <1>3 DEF StageInv, RowsOK
  <2>5. \A u \in Tasks \ {t} : body'[u] = body[u]
    BY <1>2, <1>3
  <2>6. RowsOK'
    <3> SUFFICES ASSUME NEW j \in Rows, row'[j] = "from"
                 PROVE  /\ j \notin rival'
                        /\ \A u \in Tasks : Id[u] = j =>
                             body'[u] \notin {"handle", "apply"}
      BY DEF RowsOK
    <3>1. j # i
      BY <2>4
    <3>2. row[j] = "from"
      BY <2>3, <3>1
    <3>3. QED
      BY <1>1, <2>5, <3>1, <3>2 DEF StageInv, RowsOK
  <2>7. HandlerOwnsRow'
    <3> SUFFICES ASSUME NEW u \in Tasks, body'[u] \in {"handle", "apply"}
                 PROVE  by'[Id[u]] = u /\ Id[u] \notin rival'
      BY DEF HandlerOwnsRow
    <3>1. CASE u = t
      BY <1>1, <2>4, <3>1
    <3>2. CASE u # t
      <4>1. Id[u] \in Rows \ {i}
        BY <2>2, <3>2, TaskAssumption DEF Rows
      <4>2. by[Id[u]] = u /\ Id[u] \notin rival
        BY <2>5, <3>2 DEF StageInv, HandlerOwnsRow
      <4>3. QED
        BY <1>1, <2>3, <4>1, <4>2
    <3>3. QED
      BY <3>1, <3>2
  <2>8. /\ row' \in [Rows -> {"from", "processing", "to", "error"}]
        /\ by' \in [Rows -> Tasks \cup {None, Rival}]
    BY <1>2, <1>3
  <2>9. QED
    BY <1>1, <1>2, <2>1, <2>6, <2>7, <2>8, FunctionKeeps
<1>4. CASE \E o \in {"ok", "error"} : Return(t, o) /\ UNCHANGED <<row, by>>
  <2>1. PICK o \in {"ok", "error"} : Return(t, o)
    BY <1>4
  <2>2. QueueGoesOn
    BY <1>1, <1>2, <2>1, ReturnKeeps
  <2>3. body' = [body EXCEPT ![t] = "none"]
    BY <2>1 DEF Return
  <2>4. \A u \in Tasks :
          body'[u] \in {"handle", "apply"} => body[u] \in {"handle", "apply"}
    BY <1>2, <2>3
  <2>5. RowsOK' /\ HandlerOwnsRow'
    BY <1>1, <1>4, <2>4, RowsRest DEF StageInv
  <2>6. QED
    BY <1>1, <1>2, <1>4, <2>2, <2>5, FunctionKeeps
<1>5. QED
  BY <1>3, <1>4 DEF Claim, Claimable

LEMMA HandleKeeps ==
  ASSUME StageInv, NEW t \in Tasks, Handle(t), UNCHANGED <<client, crashed>>
  PROVE  StageInv'
<1>1. /\ body[t] = "handle"
      /\ UNCHANGED <<line, record, due, paused, stop, todo, awaited>>
      /\ UNCHANGED <<row, by, rival, poll, items, batch, late, unmarked, running>>
  BY DEF Handle, stopVars
<1>2. /\ row \in [Rows -> {"from", "processing", "to", "error"}]
      /\ by \in [Rows -> Tasks \cup {None, Rival}]
      /\ result \in [Tasks -> {"none", "success", "failure", "skip"}]
      /\ QueueInv /\ body \in [Tasks -> Bodies]
  BY DEF StageInv, StageTypeOK, QueueInv, TypeOK
<1>3. /\ QueueGoesOn
      /\ result' \in [Tasks -> {"none", "success", "failure", "skip"}]
      /\ \A u \in Tasks :
           body'[u] \in {"handle", "apply"} => body[u] \in {"handle", "apply"}
  <2>1. CASE \E res \in {"success", "failure", "skip"} :
               /\ result' = [result EXCEPT ![t] = res]
               /\ body' = [body EXCEPT ![t] = "apply"]
               /\ UNCHANGED task
    <3>1. QueueGoesOn
      BY <1>1, <1>2, <2>1, BodyGoesOn DEF Bodies
    <3>2. QED
      BY <1>1, <1>2, <2>1, <3>1
  <2>2. CASE Return(t, "error") /\ UNCHANGED result
    <3>1. QueueGoesOn
      BY <1>1, <1>2, <2>2, ReturnKeeps
    <3>2. body' = [body EXCEPT ![t] = "none"]
      BY <2>2 DEF Return
    <3>3. QED
      BY <1>2, <2>2, <3>1, <3>2
  <2>3. QED
    BY <2>1, <2>2 DEF Handle
<1>4. RowsOK' /\ HandlerOwnsRow'
  BY <1>1, <1>3, RowsRest DEF StageInv
<1>5. QED
  BY <1>1, <1>2, <1>3, <1>4, FunctionKeeps

\* The result is written, or not; the row is never given back.
LEMMA ApplyKeeps ==
  ASSUME StageInv, NEW t \in Tasks, Apply(t), UNCHANGED <<client, crashed>>
  PROVE  StageInv'
<1>1. /\ body[t] = "apply" /\ result' = [result EXCEPT ![t] = "none"]
      /\ UNCHANGED <<line, record, due, paused, stop, todo, awaited>>
      /\ UNCHANGED <<by, rival, poll, items, batch, late, unmarked, running>>
  BY DEF Apply, stopVars
<1>2. /\ row \in [Rows -> {"from", "processing", "to", "error"}]
      /\ by \in [Rows -> Tasks \cup {None, Rival}]
      /\ result \in [Tasks -> {"none", "success", "failure", "skip"}]
      /\ QueueInv /\ body \in [Tasks -> Bodies] /\ Id[t] \in Rows
  BY TaskAssumption DEF StageInv, StageTypeOK, QueueInv, TypeOK, Rows
<1>3. \E o \in {"ok", "error"} : Return(t, o)
  BY DEF Apply
<1>4. QueueGoesOn
  BY <1>1, <1>2, <1>3, ReturnKeeps
<1>5. body' = [body EXCEPT ![t] = "none"]
  BY <1>3 DEF Return
<1>6. \A u \in Tasks :
        body'[u] \in {"handle", "apply"} => body[u] \in {"handle", "apply"}
  BY <1>2, <1>5
<1>7. Written(t) \in {"to", "error", row[Id[t]]}
  BY DEF Written
<1>8. row' = row \/ row' = [row EXCEPT ![Id[t]] = Written(t)]
  BY DEF Apply
<1>9. /\ row' \in [Rows -> {"from", "processing", "to", "error"}]
      /\ \A i \in Rows : row'[i] = "from" => row[i] = "from"
  BY <1>2, <1>7, <1>8
<1>10. result' \in [Tasks -> {"none", "success", "failure", "skip"}]
  BY <1>1, <1>2
<1>11. RowsOK' /\ HandlerOwnsRow'
  BY <1>1, <1>6, <1>9, RowsRest DEF StageInv
<1>12. QED
  BY <1>1, <1>2, <1>4, <1>9, <1>10, <1>11, FunctionKeeps

\* The tasks of a batch are added when nothing is open, or the rows marked.
LEMMA SubmitKeeps ==
  ASSUME StageInv, client = "stage", Submit, UNCHANGED <<client, crashed>>
  PROVE  StageInv'
<1>1. /\ poll = "asked" /\ poll' = "batch" /\ items' = {}
      /\ UNCHANGED <<body, due, paused, stop, todo, awaited>>
      /\ UNCHANGED <<row, by, rival, result, unmarked, running>>
  BY DEF Submit, stopVars
<1>2. QueueInv /\ \A t \in Tasks : ~Open(t)
  BY <1>1 DEF StageInv, BatchOK
<1>3. CASE stop = "no"
  <2>1. /\ batch' = Added /\ late' = late
        /\ record' = [i \in Ids |-> IF \E t \in Added : Id[t] = i
                                    THEN TaskFor(i) ELSE record[i]]
    BY <1>3 DEF Submit
  <2>2. task' = [t \in Tasks |-> IF t \in Added THEN Entered(task[t]) ELSE task[t]]
    BY <1>3, Zenon DEF Submit, Entered
  <2>3. PICK new \in SetToSeqs(Added) : line' = line \o new
    BY <1>3 DEF Submit
  <2>4. /\ line' \in Seq(Tasks)
        /\ \A i \in DOMAIN line' : line'[i] \in Added \/ Exec(line'[i]) = "queued"
        /\ \A i, j \in DOMAIN line' : line'[i] = line'[j] => i = j
    BY <1>2, <2>3, AppendedOK
  <2>5. record \in [Ids -> Tasks \cup {None}]
    BY <1>2 DEF QueueInv, TypeOK
  <2>6. ASSUME NEW i \in Ids, NEW t \in Added, Id[t] = i
        PROVE  TaskFor(i) = t
    BY <2>6, AddedTasks
  <2>7. record' \in [Ids -> Tasks \cup {None}]
    BY <2>1, <2>5, <2>6, AddedTasks
  <2>8. /\ \A i \in Ids :
             record'[i] = record[i] \/ (record'[i] \in Added /\ Id[record'[i]] = i)
        /\ \A t \in Added : record'[Id[t]] = t
    BY <2>1, <2>6, AddedTasks, TaskAssumption
  <2>9. QueueInv'
    BY <1>1, <1>2, <1>3, <2>2, <2>4, <2>7, <2>8, AddedTasks, AddingKeeps
  <2>10. BatchOK'
    <3>1. \A t \in Tasks \ Added : task'[t] = task[t]
      BY <2>2
    <3>2. \A t \in Tasks : task'[t].promise = "open" => t \in Added
      BY <1>2, <3>1 DEF Open
    <3>3. QED
      BY <1>1, <2>1, <3>2 DEF BatchOK, Open
  <2>11. RowsOK' /\ HandlerOwnsRow'
    BY <1>1, RowsRest DEF StageInv
  <2>12. StageTypeOK'
    BY <1>1, <2>1, <2>9, AddedTasks DEF StageInv, StageTypeOK, QueueInv
  <2>13. QED
    BY <2>9, <2>10, <2>11, <2>12 DEF StageInv
<1>4. CASE stop # "no"
  <2>1. /\ UNCHANGED <<batch, task, line, record>>
        /\ late' = [i \in Rows |-> IF i \in items /\ stop # "done"
                                   THEN late[i] + 1 ELSE late[i]]
    BY <1>4 DEF Submit
  <2>2. UNCHANGED vars
    BY <1>1, <2>1 DEF vars
  <2>3. late' \in [Rows -> Nat]
    BY <2>1 DEF StageInv, StageTypeOK
  <2>4. BatchOK'
    BY <1>1, <2>1 DEF StageInv, BatchOK, Open
  <2>5. QED
    BY <1>1, <2>1, <2>2, <2>3, <2>4, StageRests DEF StageInv, StageTypeOK
<1>5. QED
  BY <1>3, <1>4

LEMMA StopWorkerKeeps ==
  ASSUME StageInv, StopWorker, UNCHANGED <<client, crashed>>
  PROVE  StageInv'
<1>1. /\ Stop /\ running' = FALSE
      /\ UNCHANGED <<row, by, rival, result, poll, items, batch, late, unmarked>>
  BY DEF StopWorker
<1>2. QueueGoesOn
  BY <1>1, StopKeeps DEF StageInv
<1>3. BatchOK'
  BY <1>1, <1>2, BatchRests DEF StageInv
<1>4. RowsOK' /\ HandlerOwnsRow'
  BY <1>1, StopStartsNoHandler, RowsRest DEF StageInv
<1>5. StageTypeOK'
  BY <1>1, <1>2 DEF StageInv, StageTypeOK, QueueGoesOn, QueueInv
<1>6. QED
  BY <1>2, <1>3, <1>4, <1>5 DEF StageInv, QueueGoesOn

\* A new process has a new queue and the old rows; no handler is at them.
LEMMA CrashKeeps ==
  ASSUME StageInv, Crash, UNCHANGED client
  PROVE  StageInv'
<1>1. Init'
  BY DEF Crash, Init
<1>2. QueueInv'
  BY <1>1, InitOK, PTL
<1>3. /\ body' = [t \in Tasks |-> "none"] /\ task' = [t \in Tasks |-> NewTask]
      /\ result' = [t \in Tasks |-> "none"] /\ late' = [i \in Rows |-> 0]
      /\ unmarked' = {}
      /\ poll' = "ask" /\ items' = {} /\ batch' = {} /\ running' = TRUE
      /\ crashed' = TRUE /\ UNCHANGED <<row, by, rival, client>>
  BY DEF Crash
<1>4. RowsOK' /\ HandlerOwnsRow'
  BY <1>3, RowsRest DEF StageInv
<1>5. BatchOK'
  BY <1>3 DEF BatchOK, Open, NewTask
<1>6. StageTypeOK'
  BY <1>2, <1>3 DEF StageInv, StageTypeOK, QueueInv
<1>7. QED
  BY <1>2, <1>4, <1>5, <1>6 DEF StageInv

-----------------------------------------------------------------------------
(* The theorems.                                                           *)

LEMMA StageInitOK ==
  StageInit => StageInv
<1> SUFFICES ASSUME StageInit
             PROVE  StageInv
  OBVIOUS
<1>1. QueueInv
  BY InitOK DEF StageInit
<1>2. \A t \in Tasks : body[t] = "none" /\ task[t] = NewTask
  BY DEF StageInit, Init
<1>3. StageTypeOK
  BY <1>1 DEF StageInit, StageTypeOK, QueueInv
<1>4. BatchOK
  BY <1>2 DEF StageInit, BatchOK, Open, NewTask
<1>5. RowsOK /\ HandlerOwnsRow
  BY <1>2 DEF StageInit, RowsOK, HandlerOwnsRow
<1>6. QED
  BY <1>1, <1>3, <1>4, <1>5 DEF StageInv

LEMMA StageStepKeeps ==
  ASSUME StageInv, client = "stage", StageStep, UNCHANGED <<client, crashed>>
  PROVE  StageInv'
<1>1. CASE Polling
  BY <1>1, QueryKeeps, SubmitKeeps, LoopKeeps DEF Polling
<1>2. CASE Writes
  BY <1>2, ClaimKeeps, ApplyKeeps, LateUpdateKeeps DEF Writes
<1>3. CASE \E t \in Tasks : Settled(t) \/ Handle(t)
  BY <1>3, SettledKeeps, HandleKeeps
<1>4. CASE StopWorker
  BY <1>4, StopWorkerKeeps
<1>5. CASE \E i \in Rows : RivalClaims(i) \/ RivalApplies(i)
  BY <1>5, RivalClaimsKeeps, RivalAppliesKeeps
<1>6. QED
  BY <1>1, <1>2, <1>3, <1>4, <1>5 DEF StageStep

\* Every step of the queue, its plugin or its stage keeps the invariant.
LEMMA StageNextKeeps ==
  ASSUME StageInv, [StageNext]_allVars
  PROVE  StageInv'
<1>1. CASE QueueStep /\ UNCHANGED <<client, stageVars, crashed>>
  <2>1. /\ QueueGoesOn
        /\ \A t \in Tasks : body'[t] \in {"handle", "apply"} => body'[t] = body[t]
    BY <1>1, QueueStepKeeps DEF StageInv
  <2>2. /\ UNCHANGED <<client, crashed, row, by, rival>>
        /\ UNCHANGED <<result, poll, items, batch, late, unmarked, running>>
    BY <1>1 DEF stageVars
  <2>3. RowsOK' /\ HandlerOwnsRow'
    BY <2>1, <2>2, RowsRest DEF StageInv
  <2>4. QED
    BY <2>1, <2>2, <2>3, FunctionKeeps DEF StageInv, StageTypeOK
<1>2. CASE client = "plugin" /\ PluginStep /\ UNCHANGED <<client, stageVars, crashed>>
  <2>1. /\ QueueInv'
        /\ \A t \in Tasks : body'[t] \in {"handle", "apply"} => body'[t] = body[t]
    BY <1>2, PluginStepKeeps DEF StageInv
  <2>2. /\ UNCHANGED <<client, crashed, row, by, rival>>
        /\ UNCHANGED <<result, poll, items, batch, late, unmarked, running>>
    BY <1>2 DEF stageVars
  <2>3. RowsOK' /\ HandlerOwnsRow'
    BY <2>1, <2>2, RowsRest DEF StageInv
  <2>4. BatchOK'
    BY <1>2, <2>2 DEF BatchOK
  <2>5. StageTypeOK'
    BY <2>1, <2>2 DEF StageInv, StageTypeOK, QueueInv
  <2>6. QED
    BY <2>1, <2>3, <2>4, <2>5 DEF StageInv
<1>3. CASE client = "stage" /\ StageStep /\ UNCHANGED <<client, crashed>>
  BY <1>3, StageStepKeeps
<1>4. CASE client = "stage" /\ Crash /\ UNCHANGED client
  BY <1>4, CrashKeeps
<1>5. CASE UNCHANGED allVars
  <2>1. /\ UNCHANGED vars /\ UNCHANGED <<client, crashed, row, by, rival>>
        /\ UNCHANGED <<result, poll, items, batch, late, unmarked, running>>
    BY <1>5 DEF allVars, stageVars
  <2>2. BatchOK'
    BY <2>1 DEF StageInv, BatchOK, Open, vars
  <2>3. QED
    BY <2>1, <2>2, StageRests DEF StageInv, StageTypeOK
<1>6. QED
  BY <1>1, <1>2, <1>3, <1>4, <1>5 DEF StageNext

LEMMA StageInvariant ==
  StageSpec => []StageInv
<1>1. StageInit => StageInv
  BY StageInitOK
<1>2. StageInv /\ [StageNext]_allVars => StageInv'
  BY StageNextKeeps
<1>3. QED
  BY <1>1, <1>2, PTL DEF StageSpec

\* Types of the queue and the stage, whoever uses the queue (queue.ts,
\* StageWorker).
THEOREM StageTypes == StageSpec => []StageTypeOK
<1>1. StageInv => StageTypeOK
  BY DEF StageInv
<1>2. QED
  BY <1>1, StageInvariant, PTL

\* Whatever ends a task - its function, its time limit, its signal, cancel(),
\* clear(), stop() or any of them together - it is told of once, can be found by
\* its id until then, and is over when stop() returns (queue.ts).
THEOREM TasksAreAccounted == StageSpec => []TasksAccounted
<1>1. ASSUME StageInv
      PROVE  ToldOnce
  <2> SUFFICES ASSUME NEW t \in Tasks, Exec(t) = "over", ~LateCancel(t)
               PROVE  /\ task[t].told = 1
                      /\ IF task[t].status = "completed"
                         THEN task[t].promise = "resolved"
                         ELSE /\ task[t].status \in {"failed", "cancelled"}
                              /\ task[t].promise = "rejected"
    BY DEF ToldOnce
  <2>1. Life(task[t]) /\ task[t].exec = "over" /\ ~Late(task[t])
    BY <1>1, Found DEF StageInv, Exec, LateCancel, Late
  <2>2. /\ Told(task[t]) /\ task[t].promise \in {"rejected", "resolved"}
        /\ task[t].promise = "resolved" <=> task[t].status = "completed"
    BY <2>1 DEF Life, WhenOver
  <2>3. QED
    BY <2>2 DEF Told, Final
<1>2. StageInv => TasksAccounted
  BY <1>1 DEF StageInv, QueueInv, TasksAccounted
<1>3. QED
  BY <1>2, StageInvariant, PTL

\* However stale the query was, and whoever else takes rows of the table, a
\* handler works on a row that its task was the last to claim and that nobody
\* else is at (claimItem).
THEOREM HandlersOwnTheirRows == StageSpec => []HandlerOwnsRow
<1>1. StageInv => HandlerOwnsRow
  BY DEF StageInv
<1>2. QED
  BY <1>1, StageInvariant, PTL
=============================================================================
