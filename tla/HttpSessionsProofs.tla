--------------------------- MODULE HttpSessionsProofs ---------------------------
(***************************************************************************)
(* The safety of sessions, for every set of sessions, calls and keys.      *)
(*                                                                         *)
(* QueueInv: only the first call of a session's queue executes, and a task *)
(* that goes on after the queue has given it up is in a closed session,    *)
(* where none starts any more: the tasks of a session do not overlap.      *)
(*                                                                         *)
(* KeyInv: between the reservation of a key and the storage of its result  *)
(* the row is the call's own, or the session's cache has the result, or    *)
(* the row was dropped with the session, in which no other task runs then. *)
(*                                                                         *)
(* BrowserInv: whoever uses a browser is of its session, and the session's *)
(* handle is given up only when no task is left that has not been told.    *)
(***************************************************************************)
EXTENDS HttpSessions, TLAPS, FiniteSetTheorems

Live(c) == task[c] \notin {"off", "ended"}
Runs(c) == execution[c] \in {"active", "draining"}
Early == {"idle", "prune", "reserve", "insert"}
Chained(c) == \E i \in 1..Len(invokeQueue[Of[c]]) : invokeQueue[Of[c]][i] = c
First(c) == invokeQueue[Of[c]] # <<>> /\ Head(invokeQueue[Of[c]]) = c

\* How far the call of c is in the queue, its handler, and its task fit together.
CallOK(c) ==
  /\ execution[c] = "queued" => Chained(c) /\ handler[c] = "wait"
  /\ Runs(c) => First(c)
  /\ handler[c] \in Early => execution[c] = "none"
  /\ execution[c] \in {"none", "queued"} => task[c] = "off"
  /\ Live(c) => Runs(c) \/ (execution[c] = "over" /\ Closed(Of[c]))
  /\ Live(c) /\ execution[c] # "active" => c \in signal
OneTask == \A c, d \in Calls : Of[c] = Of[d] /\ Live(c) /\ Live(d) => c = d
QueueInv == (\A c \in Calls : CallOK(c)) /\ OneTask

\* A session with a cleanup is no longer listed, and its tasks have been told.
CleanupInv ==
  /\ \A s \in Sessions : cleanup[s] # "no" => session[s] = "gone" /\ Closed(s)
  /\ \A c \in Calls : cleanup[Of[c]] # "no" /\ Live(c) => c \in signal

\* The rights of a call to its key's row, unless the deletion of another session
\* may have dropped it.
Fine(k) == ~(Borrowed(k) /\ Dropped(k))
Free(k) == Dropped(k) /\ row[k] # "done"
Pends(c) == execution[c] = "queued" \/ task[c] = "begin"
KeyOK(c) == LET k == KeyOf[c] IN
  /\ handler[c] \in {"reserve", "insert", "remove", "store"} => k # None
  /\ k # None =>
       /\ task[c] \notin {"ensure", "await", "closing"}
       /\ Pends(c) /\ Fine(k) =>
            row[k] = c \/ k \in cache[Of[c]] \/ Free(k)
       /\ task[c] = "work" /\ Fine(k) => row[k] = c \/ Free(k)
       /\ handler[c] \in {"remove", "store"} => task[c] = "ended" /\ k \in cache[Of[c]]
       /\ handler[c] = "remove" /\ Fine(k) => row[k] = c \/ Dropped(k)
       /\ \A d \in Calls : KeyOf[d] = k /\ Of[d] = Of[c] /\ task[c] = "work" =>
            handler[d] \notin {"remove", "store"}
KeyInv == \A c \in Calls : KeyOK(c)

\* Browsers belong to the session that acquires them, itself or for a call.
SessionOfBrowser(h) == IF h \in Sessions THEN h ELSE Of[h]
Unused(h) == handle[SessionOfBrowser(h)] # h /\ \A d \in Calls : uses[d] # h
Usable(h) == browser[h] \in {"held", "closed"}
BrowserInv ==
  /\ \A s \in Sessions :
       /\ handle[s] # None => SessionOfBrowser(handle[s]) = s /\ Usable(handle[s])
       /\ session[s] \in {"no", "acquiring", "showing"} => Unused(s)
       /\ session[s] = "showing" => Usable(s)
  /\ \A c \in Calls :
       /\ uses[c] # None => SessionOfBrowser(uses[c]) = Of[c]
       /\ raw[c] # "over" => Unused(c)
       /\ raw[c] = "showing" => Usable(c)
       /\ task[c] \in {"off", "begin", "ensure"} => raw[c] = "no"
       /\ task[c] \in {"off", "begin", "ensure", "await"} => uses[c] = None
       /\ task[c] = "work" /\ uses[c] # None /\ ~Usable(uses[c]) => c \in signal

Inv == TypeOK /\ QueueInv /\ CleanupInv /\ KeyInv /\ BrowserInv
-----------------------------------------------------------------------------
(* The queue.                                                              *)

USE DEF queueVars, opening, keeping

LEMMA Symbols ==
  /\ Of \in [Calls -> Sessions] /\ Mcp \subseteq Sessions /\ Sessions \cap Calls = {}
  /\ "none" \notin Calls /\ "done" \notin Calls
  /\ KeyOf \in [Calls -> Keys \cup {None}] /\ Target \in [Calls -> Mcp \cup {None}]
  /\ Namespace \in [Keys -> Sessions \cup {None}]
  /\ None \notin Sessions \cup Calls \cup Keys
  /\ \A c \in Calls : /\ Of[c] \in Sessions
                       /\ KeyOf[c] # None => KeyOf[c] \in Keys /\ Of[c] \in Rest /\ Target[c] = None
BY QueueAssumption, SessionAssumption DEF Owners, Rest

LEMMA Chain ==
  ASSUME NEW T, NEW s \in Seq(T), NEW c \in T
  PROVE  /\ Append(s, c) \in Seq(T) /\ Append(s, c) # <<>>
         /\ \E i \in 1..Len(Append(s, c)) : Append(s, c)[i] = c
         /\ \A i \in 1..Len(s) : i \in 1..Len(Append(s, c)) /\ Append(s, c)[i] = s[i]
         /\ s # <<>> => /\ Head(Append(s, c)) = Head(s) /\ Tail(s) \in Seq(T)
                        /\ \A d : d # Head(s) /\ (\E i \in 1..Len(s) : s[i] = d)
                             => \E i \in 1..Len(Tail(s)) : Tail(s)[i] = d
<1>1. /\ Append(s, c) \in Seq(T) /\ Len(Append(s, c)) = Len(s) + 1 /\ Len(s) \in Nat
      /\ Append(s, c)[Len(s) + 1] = c
      /\ \A i \in 1..Len(s) : Append(s, c)[i] = s[i]
  OBVIOUS
<1>2. /\ Append(s, c) # <<>> /\ \E i \in 1..Len(Append(s, c)) : Append(s, c)[i] = c
      /\ \A i \in 1..Len(s) : i \in 1..Len(Append(s, c))
  BY <1>1
<1>3. ASSUME s # <<>> PROVE Head(Append(s, c)) = Head(s) /\ Tail(s) \in Seq(T)
  BY <1>1, <1>2, <1>3
<1>4. ASSUME s # <<>>, NEW d, d # Head(s), NEW i \in 1..Len(s), s[i] = d
      PROVE  \E j \in 1..Len(Tail(s)) : Tail(s)[j] = d
  <2>1. Head(s) = s[1] /\ Len(Tail(s)) = Len(s) - 1 /\ \A j \in 1..Len(s) - 1 : Tail(s)[j] = s[j + 1]
    BY <1>4
  <2>2. i # 1 /\ i - 1 \in 1..Len(s) - 1
    BY <1>1, <1>4, <2>1
  <2>3. Tail(s)[i - 1] = d
    BY <1>4, <2>1, <2>2
  <2> QED
    BY <2>1, <2>2, <2>3
<1> QED
  BY <1>1, <1>2, <1>3, <1>4

\* Where the calls of the queues are after a step: c is out, or all are still in.
Still(d) == (Chained(d) => Chained(d)') /\ (First(d) => First(d)')

LEMMA Enqueued ==
  ASSUME QueueTypeOK, NEW c \in Calls, Enqueue(c)
  PROVE  /\ execution' = [execution EXCEPT ![c] = "queued"] /\ Chained(c)'
         /\ invokeQueue' \in [Sessions -> Seq(Calls)]
         /\ \A d \in Calls : Still(d)
         /\ UNCHANGED <<signal, closing, closeSignal>>
<1> DEFINE s == Of[c]
           q == invokeQueue[s]
<1>1. s \in Sessions /\ q \in Seq(Calls) /\ invokeQueue \in [Sessions -> Seq(Calls)]
      /\ \A d \in Calls : Of[d] \in Sessions
  BY Symbols DEF QueueTypeOK
<1>2. invokeQueue' = [invokeQueue EXCEPT ![s] = Append(q, c)]
  BY DEF Enqueue
<1>3. /\ Append(q, c) \in Seq(Calls) /\ Append(q, c) # <<>>
      /\ \E i \in 1..Len(Append(q, c)) : Append(q, c)[i] = c
      /\ \A i \in 1..Len(q) : i \in 1..Len(Append(q, c)) /\ Append(q, c)[i] = q[i]
      /\ q # <<>> => Head(Append(q, c)) = Head(q)
  BY <1>1, Chain
<1> HIDE DEF q, s
<1>4. invokeQueue'[s] = Append(q, c) /\ \A x \in Sessions : x # s => invokeQueue'[x] = invokeQueue[x]
  BY <1>1, <1>2
<1>5. Chained(c)'
  BY <1>3, <1>4 DEF Chained, s
<1>6. ASSUME NEW d \in Calls PROVE Still(d)
  <2>1. CASE Of[d] = s
    BY <1>3, <1>4, <2>1 DEF Still, Chained, First, q, s
  <2>2. CASE Of[d] # s
    BY <1>1, <1>4, <2>2 DEF Still, Chained, First
  <2> QED
    BY <2>1, <2>2
<1>7. invokeQueue' \in [Sessions -> Seq(Calls)]
  BY <1>1, <1>2, <1>3
<1> QED
  BY <1>5, <1>6, <1>7 DEF Enqueue

LEMMA Left ==
  ASSUME QueueTypeOK, NEW c \in Calls, CallOK(c), Runs(c) \/ MyTurn(c), Leave(c)
  PROVE  /\ execution' = [execution EXCEPT ![c] = "over"] /\ First(c)
         /\ invokeQueue' \in [Sessions -> Seq(Calls)]
         /\ \A d \in Calls : d # c => (Chained(d) => Chained(d)')
         /\ \A d \in Calls : Of[d] # Of[c] => (First(d) => First(d)')
<1> DEFINE s == Of[c]
           q == invokeQueue[s]
<1>1. s \in Sessions /\ q \in Seq(Calls) /\ invokeQueue \in [Sessions -> Seq(Calls)]
      /\ \A d \in Calls : Of[d] \in Sessions
  BY Symbols DEF QueueTypeOK
<1>2. invokeQueue' = [invokeQueue EXCEPT ![s] = Tail(q)]
  BY DEF Leave
<1>f. First(c)
  <2>1. CASE Runs(c)
    BY <2>1 DEF CallOK
  <2>2. CASE MyTurn(c)
    <3>1. \E i \in 1..Len(q) : q[i] = c
      BY <2>2 DEF MyTurn, CallOK, Chained
    <3>2. q # <<>>
      BY <1>1, <3>1
    <3> QED
      BY <2>2, <3>2 DEF MyTurn, First
  <2> QED
    BY <2>1, <2>2
<1>3. /\ q # <<>> /\ Head(q) = c /\ Tail(q) \in Seq(Calls)
      /\ \A d : d # c /\ (\E i \in 1..Len(q) : q[i] = d) => \E i \in 1..Len(Tail(q)) : Tail(q)[i] = d
  BY <1>1, <1>f, Chain DEF First
<1> HIDE DEF q, s
<1>4. invokeQueue'[s] = Tail(q) /\ \A x \in Sessions : x # s => invokeQueue'[x] = invokeQueue[x]
  BY <1>1, <1>2
<1>5. ASSUME NEW d \in Calls, d # c, Chained(d) PROVE Chained(d)'
  <2>1. CASE Of[d] = s
    <3>1. \E i \in 1..Len(q) : q[i] = d
      BY <1>5, <2>1 DEF Chained, q, s
    <3>2. \E i \in 1..Len(Tail(q)) : Tail(q)[i] = d
      BY <1>3, <1>5, <3>1
    <3> QED
      BY <1>4, <2>1, <3>2 DEF Chained
  <2>2. CASE Of[d] # s
    BY <1>1, <1>4, <1>5, <2>2 DEF Chained
  <2> QED
    BY <2>1, <2>2
<1>6. \A d \in Calls : Of[d] # Of[c] => (First(d) => First(d)')
  BY <1>1, <1>4 DEF First, s
<1>7. invokeQueue' \in [Sessions -> Seq(Calls)]
  BY <1>1, <1>2, <1>3
<1> QED
  BY <1>f, <1>5, <1>6, <1>7 DEF Leave

\* The types that the proofs need of the calls.
CallTypes ==
  /\ QueueTypeOK
  /\ handler \in [Calls -> Handlers] /\ task \in [Calls -> Tasks]

\* The task of c settles: what it changes.
Settled(c, l) ==
  /\ task' = [task EXCEPT ![c] = "ended"] /\ execution' = [execution EXCEPT ![c] = "over"]
  /\ \/ execution[c] = "active" /\ handler' = [handler EXCEPT ![c] = l]
     \/ execution[c] # "active" /\ handler' = handler
  /\ UNCHANGED <<signal, closing, closeSignal>>

LEMMA SettleEffect ==
  ASSUME CallTypes, QueueInv, NEW c \in Calls, NEW l, Live(c), Settle(c, l)
  PROVE  /\ Settled(c, l) /\ invokeQueue' \in [Sessions -> Seq(Calls)]
         /\ \A d \in Calls : d # c => (Chained(d) => Chained(d)') /\ (Runs(d) => First(d)')
<1>1. CallOK(c) /\ \A d \in Calls : CallOK(d)
  BY DEF QueueInv
<1>2. CASE Runs(c)
  <2>1. Leave(c) /\ UNCHANGED <<signal, closing, closeSignal>>
    BY <1>2 DEF Settle, Finish, Runs
  <2>2. /\ execution' = [execution EXCEPT ![c] = "over"] /\ First(c)
        /\ invokeQueue' \in [Sessions -> Seq(Calls)]
        /\ \A d \in Calls : d # c => (Chained(d) => Chained(d)')
        /\ \A d \in Calls : Of[d] # Of[c] => (First(d) => First(d)')
    BY <1>1, <1>2, <2>1, Left DEF CallTypes
  <2>3. ASSUME NEW d \in Calls, d # c, Runs(d) PROVE First(d)'
    <3>1. First(d)
      BY <1>1, <2>3 DEF CallOK
    <3>2. Of[d] # Of[c]
      BY <2>2, <2>3, <3>1 DEF First
    <3> QED
      BY <2>2, <3>1, <3>2
  <2> QED
    BY <2>1, <2>2, <2>3 DEF Settle, Do, Go, Settled
<1>3. CASE ~Runs(c)
  <2>1. UNCHANGED <<invokeQueue, execution, signal, closing, closeSignal>> /\ execution[c] = "over"
    BY <1>1, <1>3 DEF Settle, Finish, Runs, CallOK
  <2>2. execution' = [execution EXCEPT ![c] = "over"]
    BY <2>1 DEF CallTypes, QueueTypeOK
  <2>3. \A d \in Calls : (Chained(d) => Chained(d)') /\ (Runs(d) => First(d)')
    BY <1>1, <2>1 DEF CallOK, Chained, First
  <2> QED
    BY <2>1, <2>2, <2>3 DEF Settle, Do, Settled, CallTypes, QueueTypeOK
<1> QED
  BY <1>2, <1>3

LEMMA SettleQueue ==
  ASSUME CallTypes, QueueInv, NEW c \in Calls, NEW l \in {"answered", "remove"}, Live(c),
         Settle(c, l)
  PROVE  QueueInv'
<1>1. /\ Settled(c, l)
      /\ \A d \in Calls : d # c => (Chained(d) => Chained(d)') /\ (Runs(d) => First(d)')
  BY SettleEffect
<1>2. \A d \in Calls : CallOK(d)
  BY DEF QueueInv
<1>3. ASSUME NEW d \in Calls PROVE CallOK(d)'
  <2>1. CASE d = c
    <3>1. task'[c] = "ended" /\ execution'[c] = "over"
      BY <1>1 DEF Settled, CallTypes, QueueTypeOK
    <3>2. handler[c] \notin Early
      BY <1>2 DEF CallOK, Live
    <3>3. handler'[c] \notin Early
      BY <1>1, <3>2 DEF Settled, CallTypes, Early
    <3> QED
      BY <2>1, <3>1, <3>3 DEF CallOK, Live, Runs
  <2>2. CASE d # c
    <3>1. /\ task'[d] = task[d] /\ execution'[d] = execution[d] /\ handler'[d] = handler[d]
          /\ UNCHANGED <<signal, closing, closeSignal>>
          /\ (Chained(d) => Chained(d)') /\ (Runs(d) => First(d)')
      BY <1>1, <2>2 DEF Settled, CallTypes, QueueTypeOK
    <3> QED
      BY <1>2, <3>1 DEF CallOK, Live, Runs, Closed
  <2> QED
    BY <2>1, <2>2
<1>4. OneTask'
  BY <1>1 DEF Settled, QueueInv, OneTask, Live, CallTypes
<1> QED
  BY <1>3, <1>4 DEF QueueInv

\* The call of c is admitted, or not, by the queue.
Admitted(c) ==
  /\ UNCHANGED <<signal, closing, closeSignal>>
  /\ \/ execution' = [execution EXCEPT ![c] = "queued"] /\ handler' = [handler EXCEPT ![c] = "wait"]
     \/ execution' = [execution EXCEPT ![c] = "over"] /\ handler' = [handler EXCEPT ![c] = "answered"]

LEMMA AdmitQueue ==
  ASSUME CallTypes, QueueInv, NEW c \in Calls, handler[c] \in Early, Admit(c), task' = task
  PROVE  QueueInv' /\ Admitted(c) /\ invokeQueue' \in [Sessions -> Seq(Calls)]
<1>2. (\A d \in Calls : CallOK(d)) /\ execution[c] = "none" /\ task[c] = "off"
  BY DEF QueueInv, CallOK
<1>1. /\ Admitted(c) /\ invokeQueue' \in [Sessions -> Seq(Calls)]
      /\ \A d \in Calls : Still(d)
      /\ execution'[c] = "queued" => Chained(c)' /\ handler'[c] = "wait"
      /\ execution'[c] \in {"queued", "over"} /\ handler'[c] \in {"wait", "answered"}
  <2>1. CASE Enqueue(c) /\ Go(c, "wait")
    <3>1. /\ execution' = [execution EXCEPT ![c] = "queued"] /\ Chained(c)'
          /\ invokeQueue' \in [Sessions -> Seq(Calls)]
          /\ \A d \in Calls : Still(d)
          /\ UNCHANGED <<signal, closing, closeSignal>>
      BY <2>1, Enqueued DEF CallTypes
    <3> QED
      BY <2>1, <3>1 DEF Go, Admitted, CallTypes, QueueTypeOK
  <2>2. CASE /\ execution' = [execution EXCEPT ![c] = "over"] /\ Go(c, "answered")
             /\ UNCHANGED <<invokeQueue, signal, closing, closeSignal>>
    BY <2>2 DEF Go, Admitted, Still, Chained, First, CallTypes, QueueTypeOK
  <2> QED
    BY <2>1, <2>2 DEF Admit
<1>3. ASSUME NEW d \in Calls PROVE CallOK(d)'
  <2>1. CASE d = c
    BY <1>1, <1>2, <2>1 DEF CallOK, Live, Runs, Early
  <2>2. CASE d # c
    <3>1. /\ execution'[d] = execution[d] /\ handler'[d] = handler[d] /\ Still(d)
          /\ UNCHANGED <<signal, closing, closeSignal>>
      BY <1>1, <2>2 DEF Admitted, CallTypes, QueueTypeOK
    <3> QED
      BY <1>2, <3>1 DEF CallOK, Live, Runs, Closed, Still
  <2> QED
    BY <2>1, <2>2
<1> QED
  BY <1>1, <1>3 DEF QueueInv, OneTask, Live

\* Nobody enters or leaves a queue: tasks go on, calls are aborted and answered.
Kept ==
  /\ CallTypes' /\ invokeQueue' = invokeQueue
  /\ signal \subseteq signal' /\ closing \subseteq closing' /\ closeSignal \subseteq closeSignal'
  /\ \A d \in Calls :
       /\ \/ execution'[d] = execution[d]
          \/ execution[d] = "active" /\ execution'[d] = "draining" /\ d \in signal'
       /\ task'[d] \notin {"off", "ended"} => task[d] \notin {"off", "ended"}
       /\ task[d] = "off" => task'[d] = "off"
       /\ \/ handler'[d] = handler[d]
          \/ execution[d] # "queued" /\ (handler'[d] \in Early => handler[d] \in Early)

LEMMA KeptQueue ==
  ASSUME QueueInv, Kept
  PROVE  QueueInv'
<1>1. \A d \in Calls : (Chained(d) <=> Chained(d)') /\ (First(d) <=> First(d)') /\ (Live(d)' => Live(d))
  BY DEF Kept, Chained, First, Live
<1>2. \A d \in Calls : Closed(Of[d]) => Closed(Of[d])'
  BY DEF Kept, Closed
<1>3. ASSUME NEW d \in Calls PROVE CallOK(d)'
  <2>1. CallOK(d)
    BY DEF QueueInv
  <2>2. (Live(d) => d \in signal \/ execution[d] = "active") /\ signal \subseteq signal'
    BY <2>1 DEF CallOK, Kept
  <2>3. handler'[d] \in Early => execution'[d] = "none"
    BY <2>1 DEF CallOK, Kept
  <2>4. execution'[d] = "queued" => Chained(d)' /\ handler'[d] = "wait"
    BY <1>1, <2>1 DEF CallOK, Kept
  <2>5. (Runs(d)' => First(d)') /\ (execution'[d] \in {"none", "queued"} => task'[d] = "off")
    BY <1>1, <2>1 DEF CallOK, Kept, Runs
  <2>6. Live(d)' => Runs(d)' \/ (execution'[d] = "over" /\ Closed(Of[d])')
    BY <1>1, <1>2, <2>1 DEF CallOK, Kept, Runs
  <2>7. Live(d)' /\ execution'[d] # "active" => d \in signal'
    BY <1>1, <2>2 DEF Kept
  <2> QED
    BY <2>3, <2>4, <2>5, <2>6, <2>7 DEF CallOK
<1> QED
  BY <1>1, <1>3 DEF QueueInv, OneTask

\* The first call of a queue starts, is refused, or is given up.
LEMMA StartQueue ==
  ASSUME CallTypes, QueueInv, NEW c \in Calls, TaskStarts(c)
  PROVE  QueueInv'
<1>1. /\ MyTurn(c) /\ ~Closed(Of[c]) /\ execution' = [execution EXCEPT ![c] = "active"]
      /\ task' = [task EXCEPT ![c] = "begin"]
      /\ UNCHANGED <<invokeQueue, signal, closing, closeSignal, handler>>
  BY DEF TaskStarts, Start, Do
<1>2. /\ \A d \in Calls : CallOK(d) /\ (Chained(d) <=> Chained(d)') /\ (First(d) <=> First(d)')
      /\ execution[c] = "queued" /\ handler[c] = "wait" /\ Of[c] \in Sessions
  BY <1>1, Symbols DEF QueueInv, Chained, First, MyTurn, CallOK
<1>3. First(c)
  <2>1. invokeQueue[Of[c]] \in Seq(Calls) /\ Chained(c)
    BY <1>2 DEF CallOK, CallTypes, QueueTypeOK
  <2>2. invokeQueue[Of[c]] # <<>>
    BY <2>1 DEF Chained
  <2> QED
    BY <1>1, <2>2 DEF MyTurn, First
<1>4. ASSUME NEW d \in Calls PROVE CallOK(d)'
  <2>1. CASE d = c
    BY <1>1, <1>2, <1>3, <2>1 DEF CallOK, Runs, Early, CallTypes, QueueTypeOK
  <2>2. CASE d # c
    <3>1. execution'[d] = execution[d] /\ task'[d] = task[d]
      BY <1>1, <2>2 DEF CallTypes, QueueTypeOK
    <3> QED
      BY <1>1, <1>2, <3>1 DEF CallOK, Live, Runs, Closed
  <2> QED
    BY <2>1, <2>2
<1>5. ASSUME NEW d \in Calls, d # c, Of[d] = Of[c] PROVE ~Live(d)
  <2>1. CASE Runs(d)
    BY <1>2, <1>3, <1>5, <2>1 DEF CallOK, First
  <2>2. CASE ~Runs(d)
    BY <1>1, <1>2, <1>5, <2>2 DEF CallOK
  <2> QED
    BY <2>1, <2>2
<1>6. OneTask'
  <2>1. \A d \in Calls : d # c => (Live(d)' <=> Live(d))
    BY <1>1 DEF CallTypes, Live
  <2> QED
    BY <1>5, <2>1 DEF OneTask, QueueInv
<1> QED
  BY <1>4, <1>6 DEF QueueInv

LEMMA OutQueue ==
  ASSUME CallTypes, QueueInv, NEW c \in Calls, TaskRefused(c) \/ TaskGivenUp(c)
  PROVE  QueueInv' /\ invokeQueue' \in [Sessions -> Seq(Calls)]
<1>1. /\ (Runs(c) \/ MyTurn(c)) /\ Leave(c) /\ UNCHANGED <<task, signal>>
      /\ closing \subseteq closing' /\ closeSignal \subseteq closeSignal'
      /\ \/ handler' = handler
         \/ handler' = [handler EXCEPT ![c] = "answered"]
      /\ execution[c] = "queued" => handler' = [handler EXCEPT ![c] = "answered"]
  BY DEF TaskRefused, TaskGivenUp, Refuse, GiveUp, Closes, Go, Runs, MyTurn
<1>2. \A d \in Calls : CallOK(d)
  BY DEF QueueInv
<1>3. /\ execution' = [execution EXCEPT ![c] = "over"] /\ First(c)
      /\ invokeQueue' \in [Sessions -> Seq(Calls)]
      /\ \A d \in Calls : d # c => (Chained(d) => Chained(d)')
      /\ \A d \in Calls : Of[d] # Of[c] => (First(d) => First(d)')
  BY <1>1, <1>2, Left DEF CallTypes
<1>4. Live(c) => execution[c] = "draining" /\ Closed(Of[c])'
  BY <1>1, <1>2 DEF TaskRefused, TaskGivenUp, Refuse, GiveUp, MyTurn, CallOK, Live, Closes, Closed
<1>5. \A d \in Calls : Closed(Of[d]) => Closed(Of[d])'
  BY <1>1 DEF Closed
<1>6. ASSUME NEW d \in Calls PROVE CallOK(d)'
  <2>1. CASE d = c
    <3>1. execution'[c] = "over"
      BY <1>3 DEF CallTypes, QueueTypeOK
    <3>2. handler'[c] \notin Early
      BY <1>1, <1>2 DEF CallOK, Runs, MyTurn, Early, CallTypes
    <3> QED
      BY <1>1, <1>2, <1>4, <2>1, <3>1, <3>2 DEF CallOK, Runs, Live
  <2>2. CASE d # c
    <3>1. execution'[d] = execution[d] /\ handler'[d] = handler[d]
      BY <1>1, <1>3, <2>2 DEF CallTypes, QueueTypeOK
    <3>2. Runs(d) => First(d)'
      BY <1>2, <1>3, <2>2 DEF CallOK, First
    <3> QED
      BY <1>1, <1>2, <1>3, <1>5, <2>2, <3>1, <3>2 DEF CallOK, Live, Runs
  <2> QED
    BY <2>1, <2>2
<1> QED
  BY <1>1, <1>3, <1>6 DEF QueueInv, OneTask, Live

-----------------------------------------------------------------------------
(* Which of these each action is.                                          *)

\* Sessions are closed: their calls are aborted and answered.
LEMMA AbortKept ==
  ASSUME CallTypes, NEW S \in SUBSET Sessions, AbortSessions(S), Answer(Active(S)),
         \/ task' = task
         \/ \E c \in Calls, l \in {"work", "closing"} : task[c] = "begin" /\ Do(c, l)
  PROVE  Kept
<1>1. \A d \in Active(S) : d \in Calls /\ execution[d] = "active"
  BY DEF Active
<1>2. /\ invokeQueue' = invokeQueue /\ signal' = signal \cup Active(S)
      /\ closing \subseteq closing' /\ closeSignal \subseteq closeSignal'
      /\ \A d \in Calls : \/ d \in Active(S) /\ execution'[d] = "draining" /\ handler'[d] = "answered"
                          \/ d \notin Active(S) /\ execution'[d] = execution[d] /\ handler'[d] = handler[d]
  BY DEF AbortSessions, Signals, Answer
<1>3. \A d \in Calls : task'[d] = task[d] \/ (task[d] = "begin" /\ task'[d] \in {"work", "closing"})
  BY DEF Do, CallTypes
<1>4. CallTypes'
  <2>1. /\ invokeQueue' \in [Sessions -> Seq(Calls)] /\ execution' \in [Calls -> Executions]
        /\ signal' \subseteq Calls /\ closing' \subseteq Sessions /\ closeSignal' \subseteq Sessions
    BY <1>1 DEF AbortSessions, Signals, CallTypes, QueueTypeOK, Executions
  <2>2. handler' \in [Calls -> Handlers]
    BY DEF Answer, CallTypes, Handlers
  <2>3. task' \in [Calls -> Tasks]
    BY DEF Do, CallTypes, Tasks
  <2> QED
    BY <2>1, <2>2, <2>3 DEF CallTypes, QueueTypeOK
<1> QED
  BY <1>1, <1>2, <1>3, <1>4 DEF Kept, Early

LEMMA HandlerKept ==
  ASSUME CallTypes, QueueInv, NEW c \in Calls,
         \/ QueryFails(c) \/ Remove(c) \/ Store(c)
         \/ handler[c] = "prune" /\ Go(c, "reserve") /\ UNCHANGED <<queueVars, task>>
         \/ handler[c] = "idle" /\ Go(c, "prune") /\ UNCHANGED <<queueVars, task>>
         \/ handler[c] = "reserve" /\ Go(c, "insert") /\ UNCHANGED <<queueVars, task>>
         \/ handler[c] = "reserve" /\ Go(c, "answered") /\ UNCHANGED <<queueVars, task>>
  PROVE  Kept
<1>1. execution[c] # "queued"
  BY DEF QueueInv, CallOK, QueryFails, Remove, Store
<1>2. /\ UNCHANGED <<queueVars, task>>
      /\ \A d \in Calls : handler'[d] = handler[d] \/ (d = c /\ (handler'[c] \in Early => handler[c] \in Early))
  BY DEF QueryFails, Remove, Store, Go, CallTypes, Early
<1>3. CallTypes'
  BY <1>2 DEF QueryFails, Remove, Store, Go, CallTypes, QueueTypeOK, Handlers
<1> QED
  BY <1>1, <1>2, <1>3 DEF Kept

LEMMA TaskKept ==
  ASSUME CallTypes, QueueInv, NEW c \in Calls,
         \/ Live(c) /\ (\E l \in Tasks : Do(c, l)) /\ UNCHANGED <<invokeQueue, execution, signal, closeSignal, handler>>
              /\ closing \subseteq closing' /\ closing' \subseteq Sessions
         \/ TaskTimesOut(c)
         \/ UNCHANGED <<queueVars, handler, task>>
  PROVE  Kept
<1>1. CASE Live(c) /\ (\E l \in Tasks : Do(c, l)) /\ UNCHANGED <<invokeQueue, execution, signal, closeSignal, handler>>
              /\ closing \subseteq closing' /\ closing' \subseteq Sessions
  BY <1>1 DEF Kept, Do, CallTypes, QueueTypeOK, Live
<1>2. CASE TaskTimesOut(c)
  <2>1. /\ invokeQueue' = invokeQueue /\ signal' = signal \cup {c} /\ UNCHANGED <<closing, closeSignal, task>>
        /\ execution[c] = "active"
        /\ \A d \in Calls : \/ d = c /\ execution'[c] = "draining" /\ handler'[c] = "answered"
                            \/ d # c /\ execution'[d] = execution[d] /\ handler'[d] = handler[d]
    BY <1>2 DEF TaskTimesOut, TimeOut, Go, CallTypes, QueueTypeOK
  <2>2. CallTypes'
    BY <1>2 DEF TaskTimesOut, TimeOut, Go, CallTypes, QueueTypeOK, Handlers, Executions
  <2> QED
    BY <2>1, <2>2 DEF Kept, Early
<1>3. CASE UNCHANGED <<queueVars, handler, task>>
  BY <1>3 DEF Kept, CallTypes, QueueTypeOK
<1> QED
  BY <1>1, <1>2, <1>3

LEMMA FlushKept ==
  ASSUME CallTypes, QueueInv, NEW c \in Calls, Flush(c)
  PROVE  Kept
<1>1. handler[c] = "answered" /\ execution[c] # "queued" /\ task' = task
  BY DEF Flush, QueueInv, CallOK
<1>2. CASE Go(c, "done") /\ UNCHANGED queueVars
  BY <1>1, <1>2 DEF Kept, Go, CallTypes, QueueTypeOK, Handlers, Early
<1>3. CASE /\ Unlist({Of[c]}, "drain")
           /\ handler' = [d \in Calls |-> IF d = c THEN "done"
                                          ELSE IF d \in Active({Of[c]}) THEN "answered"
                                          ELSE handler[d]]
  <2>1. \A d \in Active({Of[c]}) : d \in Calls /\ execution[d] = "active"
    BY DEF Active
  <2>2. /\ invokeQueue' = invokeQueue /\ signal' = signal \cup Active({Of[c]})
        /\ closing \subseteq closing' /\ closeSignal \subseteq closeSignal'
        /\ \A d \in Calls : \/ d \in Active({Of[c]}) /\ execution'[d] = "draining"
                            \/ d \notin Active({Of[c]}) /\ execution'[d] = execution[d]
        /\ \A d \in Calls : \/ (d = c \/ d \in Active({Of[c]})) /\ handler'[d] \in {"done", "answered"}
                            \/ handler'[d] = handler[d]
    BY <1>3 DEF Unlist, AbortSessions, Signals
  <2>3. /\ invokeQueue' \in [Sessions -> Seq(Calls)] /\ execution' \in [Calls -> Executions]
        /\ signal' \subseteq Calls /\ closing' \subseteq Sessions /\ closeSignal' \subseteq Sessions
    BY <1>3, <2>1, Symbols DEF Unlist, AbortSessions, Signals, CallTypes, QueueTypeOK, Executions
  <2>4. handler' \in [Calls -> Handlers]
    BY <1>3 DEF CallTypes, Handlers
  <2>5. CallTypes'
    BY <1>1, <2>3, <2>4 DEF CallTypes, QueueTypeOK
  <2> QED
    BY <1>1, <2>1, <2>2, <2>5 DEF Kept, Early
<1> QED
  BY <1>2, <1>3 DEF Flush

\* The one kind of step that each action takes in the queue.
QueueKind ==
  \/ Kept
  \/ \E c \in Calls, l \in {"answered", "remove"} : Live(c) /\ Settle(c, l)
  \/ \E c \in Calls : handler[c] \in Early /\ Admit(c) /\ task' = task
  \/ \E c \in Calls : TaskStarts(c) \/ TaskRefused(c) \/ TaskGivenUp(c)

LEMMA SessionKinds ==
  ASSUME CallTypes, QueueInv,
         NEW s \in Sessions,
         \/ Acquired(s) \/ Shown(s) \/ Sweep(s) \/ Drained(s) \/ Purge(s)
         \/ Create(s) \/ Initialize(s) \/ Delete(s)
  PROVE  Kept
<1>1. CASE Sweep(s) \/ Delete(s)
  <2>1. AbortSessions({s}) /\ Answer(Active({s})) /\ task' = task
    BY <1>1 DEF Sweep, Delete, Unlist
  <2> QED
    BY <2>1, AbortKept
<1>2. CASE Acquired(s) \/ Shown(s) \/ Drained(s) \/ Purge(s) \/ Create(s) \/ Initialize(s)
  <2>1. UNCHANGED <<queueVars, handler, task>>
    BY <1>2 DEF Acquired, Shown, Drained, Purge, Create, Initialize
  <2> QED
    BY <2>1 DEF Kept, CallTypes, QueueTypeOK
<1> QED
  BY <1>1, <1>2

LEMMA CallKinds ==
  ASSUME CallTypes, QueueInv, NEW c \in Calls,
         \/ Prune(c) \/ Reserve(c) \/ Insert(c) \/ Remove(c) \/ Store(c) \/ QueryFails(c)
         \/ Request(c) \/ CloseOther(c) \/ Flush(c) \/ TaskTimesOut(c) \/ BeginMcp(c)
  PROVE  Kept \/ (handler[c] \in Early /\ Admit(c) /\ task' = task)
<1>1. CASE Prune(c)
  BY <1>1, HandlerKept DEF Prune, Early
<1>2. CASE Reserve(c)
  BY <1>2, HandlerKept DEF Reserve, Early
<1>3. CASE Insert(c)
  BY <1>3 DEF Insert, Early
<1>4. CASE Remove(c) \/ Store(c) \/ QueryFails(c)
  BY <1>4, HandlerKept
<1>5. CASE Request(c)
  BY <1>5, HandlerKept DEF Request, Early
<1>6. CASE Flush(c)
  BY <1>6, FlushKept
<1>7. CASE TaskTimesOut(c)
  BY <1>7, TaskKept
<1>8. CASE BeginMcp(c)
  <2>1. Live(c) /\ (\E l \in Tasks : Do(c, l)) /\ closing \subseteq closing' /\ closing' \subseteq Sessions
    BY <1>8, Symbols DEF BeginMcp, Live, Tasks, CallTypes, QueueTypeOK
  <2>2. UNCHANGED <<invokeQueue, execution, signal, closeSignal, handler>>
    BY <1>8 DEF BeginMcp
  <2> QED
    BY <2>1, <2>2, TaskKept
<1>9. CASE CloseOther(c)
  <2>1. CASE session[Target[c]] = "open"
    <3>1. /\ AbortSessions({Target[c]}) /\ Answer(Active({Target[c]})) /\ task[c] = "begin" /\ Do(c, "closing")
          /\ Target[c] \in Sessions
      BY <1>9, <2>1, Symbols DEF CloseOther, Unlist
    <3> QED
      BY <3>1, AbortKept
  <2>2. CASE session[Target[c]] # "open"
    <3>1. Live(c) /\ Do(c, "work") /\ UNCHANGED <<queueVars, handler>>
      BY <1>9, <2>2 DEF CloseOther, Live
    <3> QED
      BY <3>1, TaskKept DEF Tasks, CallTypes, QueueTypeOK
  <2> QED
    BY <2>1, <2>2
<1> QED
  BY <1>1, <1>2, <1>3, <1>4, <1>5, <1>6, <1>7, <1>8, <1>9

LEMMA TaskKinds ==
  ASSUME CallTypes, QueueInv, NEW c \in Calls,
         \/ TaskAborted(c) \/ BeginRest(c) \/ Ensure(c) \/ WorkEnds(c)
         \/ RawAcquired(c) \/ RawShown(c) \/ CloseReturns(c)
  PROVE  Kept \/ \E l \in {"answered", "remove"} : Live(c) /\ Settle(c, l)
<1>1. CASE TaskAborted(c)
  BY <1>1 DEF TaskAborted, Waiting, Live
<1>2. CASE BeginRest(c)
  BY <1>2, TaskKept DEF BeginRest, Live, Tasks, CallTypes, QueueTypeOK
<1>3. CASE Ensure(c)
  BY <1>3, TaskKept DEF Ensure, Live, Tasks, CallTypes, QueueTypeOK
<1>4. CASE WorkEnds(c)
  BY <1>4 DEF WorkEnds, Live
<1>5. CASE CloseReturns(c)
  BY <1>5 DEF CloseReturns, Live
<1>6. ASSUME RawFails(c) PROVE Kept \/ \E l \in {"answered", "remove"} : Live(c) /\ Settle(c, l)
  BY <1>6, TaskKept DEF RawFails, Live
<1>7. CASE RawAcquired(c)
  BY <1>6, <1>7, TaskKept DEF RawAcquired
<1>8. CASE RawShown(c)
  BY <1>6, <1>8, TaskKept DEF RawShown, Live, Tasks, CallTypes, QueueTypeOK
<1> QED
  BY <1>1, <1>2, <1>3, <1>4, <1>5, <1>7, <1>8

LEMMA Kinds ==
  ASSUME CallTypes, QueueInv, [Next]_vars
  PROVE  QueueKind
<1>1. ASSUME NEW s \in Sessions,
             \/ Acquired(s) \/ Shown(s) \/ Sweep(s) \/ Drained(s) \/ Purge(s)
             \/ Create(s) \/ Initialize(s) \/ Delete(s)
      PROVE  QueueKind
  BY <1>1, SessionKinds DEF QueueKind
<1>2. ASSUME NEW c \in Calls,
             \/ Prune(c) \/ Reserve(c) \/ Insert(c) \/ Remove(c) \/ Store(c) \/ QueryFails(c)
             \/ Request(c) \/ CloseOther(c) \/ Flush(c) \/ TaskTimesOut(c) \/ BeginMcp(c)
      PROVE  QueueKind
  BY <1>2, CallKinds DEF QueueKind
<1>3. ASSUME NEW c \in Calls,
             \/ TaskAborted(c) \/ BeginRest(c) \/ Ensure(c) \/ WorkEnds(c)
             \/ RawAcquired(c) \/ RawShown(c) \/ CloseReturns(c)
      PROVE  QueueKind
  BY <1>3, TaskKinds DEF QueueKind
<1>4. ASSUME NEW c \in Calls, TaskStarts(c) \/ TaskRefused(c) \/ TaskGivenUp(c)
      PROVE  QueueKind
  BY <1>4 DEF QueueKind
<1>5. CASE UNCHANGED <<queueVars, handler, task>>
  BY <1>5 DEF QueueKind, Kept, CallTypes, QueueTypeOK
<1>6. CASE Stop
  <2>1. \E S \in SUBSET Sessions : AbortSessions(S) /\ Answer(Active(S)) /\ task' = task
    BY <1>6 DEF Stop, Unlist
  <2> QED
    BY <2>1, AbortKept DEF QueueKind
<1>7. ASSUME NEW h \in Owners, Crash(h) PROVE UNCHANGED <<queueVars, handler, task>>
  BY <1>7 DEF Crash
<1>8. ASSUME StopReturns PROVE UNCHANGED <<queueVars, handler, task>>
  BY <1>8 DEF StopReturns
<1>9. ASSUME UNCHANGED vars PROVE UNCHANGED <<queueVars, handler, task>>
  BY <1>9 DEF vars
<1> QED
  BY <1>1, <1>2, <1>3, <1>4, <1>5, <1>6, <1>7, <1>8, <1>9 DEF Next, ServerStep, Others

LEMMA QueueStep ==
  ASSUME CallTypes, QueueInv, [Next]_vars
  PROVE  QueueInv' /\ CallTypes'
<1>1. CASE Kept
  BY <1>1, KeptQueue DEF Kept
<1>2. ASSUME NEW c \in Calls, NEW l \in {"answered", "remove"}, Live(c), Settle(c, l)
      PROVE  QueueInv' /\ CallTypes'
  <2>1. Settled(c, l) /\ invokeQueue' \in [Sessions -> Seq(Calls)] /\ QueueInv'
    BY <1>2, SettleEffect, SettleQueue
  <2> QED
    BY <2>1 DEF Settled, CallTypes, QueueTypeOK, Executions, Tasks, Handlers
<1>3. ASSUME NEW c \in Calls, handler[c] \in Early, Admit(c), task' = task
      PROVE  QueueInv' /\ CallTypes'
  <2>1. Admitted(c) /\ invokeQueue' \in [Sessions -> Seq(Calls)] /\ QueueInv'
    BY <1>3, AdmitQueue
  <2> QED
    BY <1>3, <2>1 DEF Admitted, CallTypes, QueueTypeOK, Executions, Handlers
<1>4. ASSUME NEW c \in Calls, TaskStarts(c)
      PROVE  QueueInv' /\ CallTypes'
  <2>1. QueueInv'
    BY <1>4, StartQueue
  <2> QED
    BY <1>4, <2>1 DEF TaskStarts, Start, Do, CallTypes, QueueTypeOK, Executions, Tasks
<1>5. ASSUME NEW c \in Calls, TaskRefused(c) \/ TaskGivenUp(c)
      PROVE  QueueInv' /\ CallTypes'
  <2>1. QueueInv' /\ invokeQueue' \in [Sessions -> Seq(Calls)]
    BY <1>5, OutQueue
  <2>2. /\ execution' = [execution EXCEPT ![c] = "over"] /\ UNCHANGED <<task, signal>>
        /\ closing' = closing \/ closing' = closing \cup {Of[c]}
        /\ closeSignal' = closeSignal \/ closeSignal' = closeSignal \cup {Of[c]}
        /\ handler' = handler \/ handler' = [handler EXCEPT ![c] = "answered"]
    <3>1. CASE TaskRefused(c)
      BY <3>1 DEF TaskRefused, Refuse, Leave, Go
    <3>2. CASE TaskGivenUp(c)
      BY <3>2 DEF TaskGivenUp, GiveUp, Leave, Closes
    <3> QED
      BY <1>5, <3>1, <3>2
  <2>3. execution' \in [Calls -> Executions] /\ handler' \in [Calls -> Handlers]
    BY <2>2 DEF CallTypes, QueueTypeOK, Executions, Handlers
  <2>4. closing' \subseteq Sessions /\ closeSignal' \subseteq Sessions
    <3>1. Of[c] \in Sessions /\ closing \subseteq Sessions /\ closeSignal \subseteq Sessions
      BY Symbols DEF CallTypes, QueueTypeOK
    <3>2. closing' \subseteq Sessions
      BY <2>2, <3>1
    <3> QED
      BY <2>2, <3>1, <3>2
  <2> QED
    BY <2>1, <2>2, <2>3, <2>4 DEF CallTypes, QueueTypeOK
<1> QED
  BY <1>1, <1>2, <1>3, <1>4, <1>5, Kinds DEF QueueKind

-----------------------------------------------------------------------------
(* The types of the rest.                                                  *)

SessionTypes ==
  /\ scene \in Scenes /\ stop \in {"no", "cleaning", "closed"}
  /\ session \in [Sessions -> {"no", "acquiring", "showing", "open", "gone"}]
  /\ terminate \subseteq Mcp
  /\ cleanup \in [Sessions -> Cleanups]
BrowserTypes ==
  /\ handle \in [Sessions -> Owners \cup {None}]
  /\ uses \in [Calls -> Owners \cup {None}]
  /\ raw \in [Calls -> {"no", "acquiring", "showing", "over"}]
  /\ browser \in [Owners -> {"none", "held", "closed", "released"}]
  /\ adrift \subseteq Sessions
KeyTypes ==
  /\ row \in [Keys -> {"none", "done"} \cup Calls]
  /\ cache \in [Sessions -> SUBSET Keys]

LEMMA Parts == TypeOK <=> CallTypes /\ SessionTypes /\ BrowserTypes /\ KeyTypes
BY DEF TypeOK, CallTypes, SessionTypes, BrowserTypes, KeyTypes

LEMMA UnlistTypes ==
  ASSUME SessionTypes, NEW S \in SUBSET Sessions, NEW l \in Cleanups, Unlist(S, l)
  PROVE  /\ session' \in [Sessions -> {"no", "acquiring", "showing", "open", "gone"}]
         /\ cleanup' \in [Sessions -> Cleanups]
BY DEF Unlist, SessionTypes

\* The steps that sessions open and end by.
LEMMA OpeningStep ==
  ASSUME [Next]_vars
  PROVE  \/ UNCHANGED opening
         \/ \E s \in Sessions : \/ Create(s) \/ Acquired(s) \/ Shown(s) \/ Initialize(s)
                                \/ Delete(s) \/ Sweep(s) \/ Drained(s) \/ Purge(s)
         \/ \E c \in Calls : BeginMcp(c) \/ CloseOther(c) \/ Flush(c)
         \/ Stop \/ StopReturns
<1>1. ASSUME NEW c \in Calls,
             \/ Prune(c) \/ Reserve(c) \/ Insert(c) \/ Remove(c) \/ Store(c) \/ QueryFails(c)
             \/ Request(c) \/ TaskStarts(c) \/ TaskRefused(c) \/ TaskTimesOut(c)
             \/ TaskGivenUp(c) \/ TaskAborted(c)
      PROVE  UNCHANGED opening
  BY <1>1 DEF Prune, Reserve, Insert, Remove, Store, QueryFails, Request, TaskStarts,
              TaskRefused, TaskTimesOut, TaskGivenUp, TaskAborted
<1>2. ASSUME NEW c \in Calls,
             \/ BeginRest(c) \/ Ensure(c) \/ WorkEnds(c) \/ RawAcquired(c) \/ RawShown(c)
             \/ CloseReturns(c)
      PROVE  UNCHANGED opening
  BY <1>2 DEF BeginRest, Ensure, WorkEnds, RawAcquired, RawShown, CloseReturns
<1>3. ASSUME NEW h \in Owners, Crash(h) PROVE UNCHANGED opening
  BY <1>3 DEF Crash
<1>4. ASSUME UNCHANGED vars PROVE UNCHANGED opening
  BY <1>4 DEF vars
<1> QED
  BY <1>1, <1>2, <1>3, <1>4 DEF Next, ServerStep, Others

LEMMA SessionTypesKept ==
  ASSUME TypeOK, [Next]_vars
  PROVE  SessionTypes'
<1>0. SessionTypes
  BY Parts
<1>1. CASE UNCHANGED opening
  BY <1>0, <1>1 DEF SessionTypes
<1>2. ASSUME NEW s \in Sessions, Create(s) \/ Acquired(s) \/ Shown(s) \/ Initialize(s)
      PROVE  SessionTypes'
  BY <1>0, <1>2 DEF Create, Acquired, Shown, Initialize, Register, SessionTypes
<1>3. ASSUME NEW s \in Sessions, Delete(s) \/ Sweep(s)
      PROVE  SessionTypes'
  <2>1. (\E l \in Cleanups : Unlist({s}, l)) /\ UNCHANGED <<scene, stop, terminate>>
    BY <1>3 DEF Delete, Sweep, Cleanups
  <2> QED
    BY <1>0, <2>1, UnlistTypes DEF SessionTypes
<1>4. ASSUME NEW s \in Sessions, Drained(s) \/ Purge(s)
      PROVE  SessionTypes'
  BY <1>0, <1>4 DEF Drained, Purge, SessionTypes, Cleanups
<1>5. ASSUME NEW c \in Calls, BeginMcp(c)
      PROVE  SessionTypes'
  BY <1>0, <1>5 DEF BeginMcp, SessionTypes
<1>6. ASSUME NEW c \in Calls, CloseOther(c)
      PROVE  SessionTypes'
  <2>1. UNCHANGED <<scene, stop, terminate>>
    BY <1>6 DEF CloseOther
  <2>2. CASE Unlist({Target[c]}, "drain")
    <3>1. {Target[c]} \in SUBSET Sessions /\ "drain" \in Cleanups
      BY <1>6, Symbols DEF CloseOther, Cleanups
    <3> QED
      BY <1>0, <2>1, <2>2, <3>1, UnlistTypes DEF SessionTypes
  <2>3. CASE UNCHANGED <<session, cleanup>>
    BY <1>0, <2>1, <2>3 DEF SessionTypes
  <2> QED
    BY <1>6, <2>2, <2>3 DEF CloseOther
<1>7. ASSUME NEW c \in Calls, Flush(c)
      PROVE  SessionTypes'
  <2>1. UNCHANGED <<scene, stop>> /\ terminate' \subseteq Mcp
    BY <1>0, <1>7 DEF Flush, SessionTypes
  <2>2. CASE Unlist({Of[c]}, "drain")
    <3>1. {Of[c]} \in SUBSET Sessions /\ "drain" \in Cleanups
      BY Symbols DEF Cleanups
    <3> QED
      BY <1>0, <2>1, <2>2, <3>1, UnlistTypes DEF SessionTypes
  <2>3. CASE UNCHANGED <<session, cleanup>>
    BY <1>0, <2>1, <2>3 DEF SessionTypes
  <2> QED
    BY <1>7, <2>2, <2>3 DEF Flush
<1>8. CASE Stop
  <2>1. /\ \E S \in SUBSET Sessions : Unlist(S, "drain")
        /\ UNCHANGED <<scene, terminate>> /\ stop' = "cleaning"
    BY <1>8 DEF Stop
  <2> QED
    BY <1>0, <2>1, UnlistTypes DEF SessionTypes, Cleanups
<1>9. CASE StopReturns
  BY <1>0, <1>9 DEF StopReturns, SessionTypes
<1> QED
  BY <1>1, <1>2, <1>3, <1>4, <1>5, <1>6, <1>7, <1>8, <1>9, OpeningStep

\* The steps that browsers are acquired, used and released by.
LEMMA BrowserStep ==
  ASSUME [Next]_vars
  PROVE  \/ UNCHANGED <<handle, uses, raw, browser>>
         \/ \E s \in Sessions : Acquired(s) \/ Shown(s) \/ Drained(s)
         \/ \E c \in Calls : \/ BeginRest(c) \/ Ensure(c) \/ WorkEnds(c)
                             \/ RawAcquired(c) \/ RawShown(c)
         \/ \E h \in Owners : Crash(h)
<1>1. ASSUME NEW c \in Calls,
             \/ Prune(c) \/ Reserve(c) \/ Insert(c) \/ Remove(c) \/ Store(c) \/ QueryFails(c)
             \/ Request(c) \/ TaskStarts(c) \/ TaskRefused(c) \/ TaskTimesOut(c)
             \/ TaskGivenUp(c) \/ TaskAborted(c)
      PROVE  UNCHANGED <<handle, uses, raw, browser>>
  BY <1>1 DEF Prune, Reserve, Insert, Remove, Store, QueryFails, Request, TaskStarts,
              TaskRefused, TaskTimesOut, TaskGivenUp, TaskAborted
<1>2. ASSUME NEW c \in Calls, BeginMcp(c) \/ CloseOther(c) \/ CloseReturns(c) \/ Flush(c)
      PROVE  UNCHANGED <<handle, uses, raw, browser>>
  BY <1>2 DEF BeginMcp, CloseOther, CloseReturns, Flush
<1>3. ASSUME NEW s \in Sessions, \/ Create(s) \/ Initialize(s) \/ Delete(s) \/ Sweep(s) \/ Purge(s)
      PROVE  UNCHANGED <<handle, uses, raw, browser>>
  BY <1>3 DEF Create, Initialize, Delete, Sweep, Purge
<1>4. ASSUME Stop \/ StopReturns \/ UNCHANGED vars PROVE UNCHANGED <<handle, uses, raw, browser>>
  BY <1>4 DEF Stop, StopReturns, vars
<1> QED
  BY <1>1, <1>2, <1>3, <1>4 DEF Next, ServerStep, Others

LEMMA BrowserTypesKept ==
  ASSUME TypeOK, [Next]_vars
  PROVE  BrowserTypes'
<1>0. BrowserTypes /\ SessionTypes /\ Owners = Sessions \cup Calls /\ \A c \in Calls : Of[c] \in Sessions
  BY Parts, Symbols DEF Owners
<1>1. adrift' \subseteq Sessions
  <2>1. CASE adrift' = adrift
    BY <1>0, <2>1 DEF BrowserTypes
  <2>2. ASSUME NEW s \in Sessions, Register(s) PROVE adrift' \subseteq Sessions
    BY <1>0, <2>2 DEF Register, BrowserTypes
  <2>3. ASSUME NEW c \in Calls, RawShown(c) PROVE adrift' \subseteq Sessions
    BY <1>0, <2>3 DEF RawShown, BrowserTypes
  <2>4. ASSUME NEW c \in Calls,
               \/ Prune(c) \/ Reserve(c) \/ Insert(c) \/ Remove(c) \/ Store(c) \/ QueryFails(c)
               \/ Request(c) \/ TaskStarts(c) \/ TaskRefused(c) \/ TaskTimesOut(c)
               \/ TaskGivenUp(c) \/ TaskAborted(c)
        PROVE  adrift' = adrift
    BY <2>4 DEF Prune, Reserve, Insert, Remove, Store, QueryFails, Request, TaskStarts,
                TaskRefused, TaskTimesOut, TaskGivenUp, TaskAborted
  <2>5. ASSUME NEW c \in Calls,
               \/ BeginRest(c) \/ Ensure(c) \/ WorkEnds(c) \/ RawAcquired(c)
               \/ CloseReturns(c) \/ BeginMcp(c) \/ CloseOther(c) \/ Flush(c)
        PROVE  adrift' = adrift
    BY <2>5 DEF BeginRest, Ensure, WorkEnds, RawAcquired, CloseReturns, BeginMcp, CloseOther, Flush
  <2>6. ASSUME NEW s \in Sessions, Create(s) \/ Acquired(s) \/ Delete(s) \/ Sweep(s) \/ Drained(s) \/ Purge(s)
        PROVE  adrift' = adrift
    BY <2>6 DEF Create, Acquired, Delete, Sweep, Drained, Purge
  <2>7. ASSUME NEW s \in Sessions, Shown(s) \/ Initialize(s) PROVE adrift' = adrift \/ Register(s)
    BY <2>7 DEF Shown, Initialize
  <2>8. ASSUME Stop \/ StopReturns \/ UNCHANGED vars PROVE adrift' = adrift
    BY <2>8 DEF Stop, StopReturns, vars
  <2>9. ASSUME NEW h \in Owners, Crash(h) PROVE adrift' = adrift
    BY <2>9 DEF Crash
  <2> QED
    BY <2>1, <2>2, <2>3, <2>4, <2>5, <2>6, <2>7, <2>8, <2>9 DEF Next, ServerStep, Others
<1> DEFINE Rest4 == /\ handle' \in [Sessions -> Owners \cup {None}]
                    /\ uses' \in [Calls -> Owners \cup {None}]
                    /\ raw' \in [Calls -> {"no", "acquiring", "showing", "over"}]
                    /\ browser' \in [Owners -> {"none", "held", "closed", "released"}]
<1>2. ASSUME UNCHANGED <<handle, uses, raw, browser>> PROVE Rest4
  BY <1>0, <1>2 DEF BrowserTypes
<1>3. ASSUME NEW s \in Sessions, Recycle(s)
      PROVE  /\ handle' \in [Sessions -> Owners \cup {None}]
             /\ browser' \in [Owners -> {"none", "held", "closed", "released"}]
  BY <1>0, <1>3 DEF Recycle, Release, BrowserTypes
<1>4. ASSUME NEW s \in Sessions, Acquired(s) PROVE Rest4
  BY <1>0, <1>4 DEF Acquired, BrowserTypes
<1>5. ASSUME NEW s \in Sessions, Shown(s) PROVE Rest4
  BY <1>0, <1>5 DEF Shown, Release, BrowserTypes
<1>6. ASSUME NEW s \in Sessions, Drained(s) PROVE Rest4
  BY <1>0, <1>3, <1>6 DEF Drained, BrowserTypes
<1>7. ASSUME NEW c \in Calls, BeginRest(c) PROVE Rest4
  BY <1>0, <1>7 DEF BeginRest, BrowserTypes
<1>8. ASSUME NEW c \in Calls, Ensure(c) PROVE Rest4
  <2>1. CASE Recycle(Of[c]) /\ UNCHANGED <<uses, raw>>
    BY <1>0, <1>3, <2>1 DEF BrowserTypes
  <2>2. CASE raw' = [raw EXCEPT ![c] = "acquiring"] /\ UNCHANGED <<handle, uses, browser>>
    BY <1>0, <2>2 DEF BrowserTypes
  <2>3. CASE uses' = [uses EXCEPT ![c] = handle[Of[c]]] /\ UNCHANGED <<handle, raw, browser>>
    BY <1>0, <2>3 DEF BrowserTypes
  <2> QED
    BY <1>2, <1>8, <2>1, <2>2, <2>3 DEF Ensure
<1>9. ASSUME NEW c \in Calls, WorkEnds(c) PROVE Rest4
  <2>1. UNCHANGED <<uses, raw>> /\ (Recycle(Of[c]) \/ UNCHANGED <<handle, browser>>)
    BY <1>9 DEF WorkEnds
  <2> QED
    BY <1>0, <1>3, <2>1 DEF BrowserTypes
<1>10. ASSUME NEW c \in Calls, RawAcquired(c) \/ RawShown(c) PROVE Rest4
  <2>1. /\ handle' = handle \/ handle' = [handle EXCEPT ![Of[c]] = c]
        /\ uses' = uses \/ uses' = [uses EXCEPT ![c] = c]
        /\ raw' = [raw EXCEPT ![c] = "over"] \/ raw' = [raw EXCEPT ![c] = "showing"]
        /\ browser' = browser \/ browser' = [browser EXCEPT ![c] = "held"]
           \/ browser' = [browser EXCEPT ![c] = "released"]
    BY <1>10 DEF RawAcquired, RawShown, RawFails, Release
  <2>2. handle' \in [Sessions -> Owners \cup {None}] /\ uses' \in [Calls -> Owners \cup {None}]
    BY <1>0, <2>1 DEF BrowserTypes
  <2>3. raw' \in [Calls -> {"no", "acquiring", "showing", "over"}]
    BY <1>0, <2>1 DEF BrowserTypes
  <2>4. browser' \in [Owners -> {"none", "held", "closed", "released"}]
    BY <1>0, <2>1 DEF BrowserTypes
  <2> QED
    BY <2>2, <2>3, <2>4
<1>11. ASSUME NEW h \in Owners, Crash(h) PROVE Rest4
  BY <1>0, <1>11 DEF Crash, BrowserTypes
<1>12. Rest4
  BY <1>2, <1>4, <1>5, <1>6, <1>7, <1>8, <1>9, <1>10, <1>11, BrowserStep
<1> QED
  BY <1>1, <1>12 DEF BrowserTypes

\* The steps by which rows and caches change.
LEMMA KeyStep ==
  ASSUME [Next]_vars
  PROVE  \/ UNCHANGED keeping
         \/ \E s \in Sessions : Purge(s)
         \/ \E c \in Calls : \/ Request(c) \/ Prune(c) \/ Reserve(c) \/ Insert(c) \/ Remove(c) \/ Store(c)
                             \/ WorkEnds(c)
<1>1. ASSUME NEW c \in Calls,
             \/ QueryFails(c) \/ TaskStarts(c) \/ TaskRefused(c) \/ TaskTimesOut(c)
             \/ TaskGivenUp(c) \/ TaskAborted(c) \/ BeginRest(c) \/ Ensure(c) \/ RawAcquired(c)
      PROVE  UNCHANGED keeping
  BY <1>1 DEF QueryFails, TaskStarts, TaskRefused, TaskTimesOut, TaskGivenUp, TaskAborted,
              BeginRest, Ensure, RawAcquired
<1>2. ASSUME NEW c \in Calls, RawShown(c) \/ BeginMcp(c) \/ CloseOther(c) \/ CloseReturns(c) \/ Flush(c)
      PROVE  UNCHANGED keeping
  BY <1>2 DEF RawShown, BeginMcp, CloseOther, CloseReturns, Flush
<1>3. ASSUME NEW s \in Sessions, Create(s) \/ Acquired(s) \/ Shown(s) \/ Initialize(s) \/ Delete(s)
                                 \/ Sweep(s) \/ Drained(s)
      PROVE  UNCHANGED keeping
  BY <1>3 DEF Create, Acquired, Shown, Initialize, Delete, Sweep, Drained
<1>4. ASSUME Stop \/ StopReturns \/ UNCHANGED vars PROVE UNCHANGED keeping
  BY <1>4 DEF Stop, StopReturns, vars
<1>5. ASSUME NEW h \in Owners, Crash(h) PROVE UNCHANGED keeping
  BY <1>5 DEF Crash
<1> QED
  BY <1>1, <1>2, <1>3, <1>4, <1>5 DEF Next, ServerStep, Others

LEMMA KeyTypesKept ==
  ASSUME TypeOK, KeyInv, [Next]_vars
  PROVE  KeyTypes'
<1>0. /\ KeyTypes /\ (\A c \in Calls : Of[c] \in Sessions)
      /\ \A c \in Calls : handler[c] \in {"reserve", "insert", "remove", "store"} => KeyOf[c] \in Keys
  BY Parts, Symbols DEF KeyInv, KeyOK
<1>1. ASSUME NEW s \in Sessions, Purge(s) PROVE KeyTypes'
  BY <1>0, <1>1 DEF Purge, KeyTypes
<1>2. ASSUME NEW c \in Calls, Prune(c) PROVE KeyTypes'
  BY <1>0, <1>2 DEF Prune, KeyTypes
<1>3. ASSUME NEW c \in Calls, Insert(c) \/ Remove(c) \/ Store(c) PROVE KeyTypes'
  BY <1>0, <1>3 DEF Insert, Remove, Store, KeyTypes
<1>4. ASSUME NEW c \in Calls, Request(c) PROVE KeyTypes'
  <2>1. row' = row /\ (cache' = cache \/ \E K : cache' = [cache EXCEPT ![Of[c]] = cache[Of[c]] \ K])
    BY <1>4 DEF Request
  <2> QED
    BY <1>0, <2>1 DEF KeyTypes
<1>5. ASSUME NEW c \in Calls, Reserve(c) \/ WorkEnds(c) PROVE KeyTypes'
  <2>1. row' = row /\ (cache' = cache \/ (KeyOf[c] \in Keys /\ cache' = [cache EXCEPT ![Of[c]] = cache[Of[c]] \cup {KeyOf[c]}]))
    BY <1>0, <1>5, Symbols DEF Reserve, WorkEnds
  <2> QED
    BY <1>0, <2>1 DEF KeyTypes
<1>6. CASE UNCHANGED keeping
  BY <1>0, <1>6 DEF KeyTypes
<1> QED
  BY <1>1, <1>2, <1>3, <1>4, <1>5, <1>6, KeyStep

-----------------------------------------------------------------------------
(* Cleanups.                                                               *)

\* Nobody takes back that a call or session is to end, and no task starts in a
\* closed session.
LEMMA QueueMoves ==
  ASSUME CallTypes, QueueInv, [Next]_vars
  PROVE  /\ signal \subseteq signal' /\ closing \subseteq closing' /\ closeSignal \subseteq closeSignal'
         /\ \A d \in Calls : Live(d)' => Live(d) \/ ~Closed(Of[d])'
<1>1. CASE Kept
  BY <1>1 DEF Kept, Live
<1>2. ASSUME NEW c \in Calls, NEW l \in {"answered", "remove"}, Live(c), Settle(c, l)
      PROVE  UNCHANGED <<signal, closing, closeSignal>> /\ \A d \in Calls : Live(d)' => Live(d)
  BY <1>2, SettleEffect DEF Settled, CallTypes, Live
<1>3. ASSUME NEW c \in Calls, handler[c] \in Early, Admit(c), task' = task
      PROVE  UNCHANGED <<signal, closing, closeSignal>> /\ \A d \in Calls : Live(d)' => Live(d)
  BY <1>3, AdmitQueue DEF Admitted, Live
<1>4. ASSUME NEW c \in Calls, TaskStarts(c)
      PROVE  /\ UNCHANGED <<signal, closing, closeSignal>>
             /\ \A d \in Calls : Live(d)' => Live(d) \/ ~Closed(Of[d])'
  BY <1>4 DEF TaskStarts, Start, Do, Live, Closed, CallTypes
<1>5. ASSUME NEW c \in Calls, TaskRefused(c) \/ TaskGivenUp(c)
      PROVE  /\ signal = signal' /\ closing \subseteq closing' /\ closeSignal \subseteq closeSignal'
             /\ task' = task
  BY <1>5 DEF TaskRefused, TaskGivenUp, Refuse, GiveUp, Closes
<1> QED
  BY <1>1, <1>2, <1>3, <1>4, <1>5, Kinds DEF QueueKind, Live

\* Sessions end by Unlist, and one that has been unlisted stays so.
LEMMA EndingStep ==
  ASSUME TypeOK, [Next]_vars
  PROVE  \/ \A s \in Sessions : /\ cleanup'[s] # "no" => cleanup[s] # "no"
                                /\ cleanup[s] = "done" => cleanup'[s] = "done"
                                /\ session[s] = "gone" => session'[s] = "gone"
         \/ \E S \in SUBSET Sessions : (\E l : Unlist(S, l)) /\ \A s \in S : session[s] = "open"
<1> DEFINE Quiet == \A s \in Sessions : /\ cleanup'[s] # "no" => cleanup[s] # "no"
                                        /\ cleanup[s] = "done" => cleanup'[s] = "done"
                                        /\ session[s] = "gone" => session'[s] = "gone"
<1>0. SessionTypes
  BY Parts
<1>1. ASSUME UNCHANGED <<session, cleanup>> PROVE Quiet
  BY <1>1
<1>2. ASSUME NEW s \in Sessions, Create(s) \/ Acquired(s) \/ Shown(s) \/ Initialize(s)
      PROVE  Quiet
  BY <1>0, <1>2 DEF Create, Acquired, Shown, Initialize, Register, SessionTypes
<1>3. ASSUME NEW s \in Sessions, Drained(s) \/ Purge(s)
      PROVE  Quiet
  BY <1>0, <1>3 DEF Drained, Purge, SessionTypes
<1>4. ASSUME NEW c \in Calls, BeginMcp(c) PROVE Quiet
  BY <1>4 DEF BeginMcp
<1>5. ASSUME NEW x \in Sessions, Delete(x) \/ Sweep(x)
      PROVE  \E S \in SUBSET Sessions : (\E l : Unlist(S, l)) /\ \A s \in S : session[s] = "open"
  <2>1. (\E l : Unlist({x}, l)) /\ session[x] = "open" /\ {x} \in SUBSET Sessions
    BY <1>5 DEF Delete, Sweep
  <2> QED
    BY <2>1
<1>6. ASSUME NEW c \in Calls, CloseOther(c) \/ Flush(c)
      PROVE  Quiet \/ \E S \in SUBSET Sessions : (\E l : Unlist(S, l)) /\ \A s \in S : session[s] = "open"
  <2>1. ASSUME CloseOther(c) PROVE Target[c] \in Sessions
    BY <2>1, Symbols DEF CloseOther
  <2>2. Of[c] \in Sessions
    BY Symbols
  <2>3. CASE CloseOther(c)
    BY <1>1, <2>1, <2>3 DEF CloseOther
  <2>4. CASE Flush(c)
    BY <1>1, <2>2, <2>4 DEF Flush
  <2> QED
    BY <1>6, <2>3, <2>4
<1>7. ASSUME Stop PROVE \E S \in SUBSET Sessions : (\E l : Unlist(S, l)) /\ \A s \in S : session[s] = "open"
  BY <1>7 DEF Stop
<1>8. ASSUME StopReturns PROVE Quiet
  BY <1>8 DEF StopReturns
<1> QED
  BY <1>1, <1>2, <1>3, <1>4, <1>5, <1>6, <1>7, <1>8, OpeningStep

LEMMA CleanupStep ==
  ASSUME TypeOK, QueueInv, CleanupInv, [Next]_vars
  PROVE  CleanupInv'
<1>1. /\ CallTypes /\ \A c \in Calls : CallOK(c) /\ Of[c] \in Sessions
      /\ signal \subseteq signal' /\ closing \subseteq closing' /\ closeSignal \subseteq closeSignal'
      /\ \A d \in Calls : Live(d)' => Live(d) \/ ~Closed(Of[d])'
  BY Parts, QueueMoves, Symbols DEF QueueInv
<1>2. \A s : Closed(s) => Closed(s)'
  BY <1>1 DEF Closed
<1>3. CASE \A s \in Sessions : /\ cleanup'[s] # "no" => cleanup[s] # "no"
                               /\ cleanup[s] = "done" => cleanup'[s] = "done"
                               /\ session[s] = "gone" => session'[s] = "gone"
  BY <1>1, <1>2, <1>3 DEF CleanupInv
<1>4. ASSUME NEW S \in SUBSET Sessions, NEW l, Unlist(S, l) PROVE CleanupInv'
  <2>1. /\ \A s \in S : session'[s] = "gone" /\ Closed(s)'
        /\ \A s \in Sessions \ S : session'[s] = session[s] /\ cleanup'[s] = cleanup[s]
    BY <1>4 DEF Unlist, AbortSessions, Closed
  <2>2. ASSUME NEW c \in Calls, Of[c] \in S, Live(c) PROVE c \in signal'
    <3>1. CASE execution[c] = "active"
      BY <1>4, <2>2, <3>1 DEF Unlist, AbortSessions, Signals, Active
    <3>2. CASE execution[c] # "active"
      BY <1>1, <2>2, <3>2 DEF CallOK
    <3> QED
      BY <3>1, <3>2
  <2>3. ASSUME NEW s \in Sessions, cleanup'[s] # "no" PROVE session'[s] = "gone" /\ Closed(s)'
    BY <1>2, <2>1, <2>3 DEF CleanupInv
  <2>4. ASSUME NEW c \in Calls, cleanup'[Of[c]] # "no", Live(c)' PROVE c \in signal'
    <3>1. Live(c)
      BY <1>1, <2>3, <2>4
    <3>2. CASE Of[c] \in S
      BY <2>2, <3>1, <3>2
    <3>3. CASE Of[c] \notin S
      BY <1>1, <2>1, <2>4, <3>1, <3>3 DEF CleanupInv
    <3> QED
      BY <3>2, <3>3
  <2> QED
    BY <2>3, <2>4 DEF CleanupInv
<1> QED
  BY <1>3, <1>4, EndingStep

-----------------------------------------------------------------------------
(* Keys.                                                                   *)

LEMMA DroppedForGood ==
  ASSUME TypeOK, CleanupInv, [Next]_vars
  PROVE  \A k \in Keys : (Dropped(k) => Dropped(k)') /\ (Fine(k)' => Fine(k))
<1>1. \A s \in Sessions : cleanup[s] = "done" => cleanup'[s] = "done"
  <2>1. ASSUME NEW S \in SUBSET Sessions, NEW l, Unlist(S, l), \A s \in S : session[s] = "open"
        PROVE  \A s \in Sessions : cleanup[s] = "done" => cleanup'[s] = "done"
    BY <2>1 DEF Unlist, CleanupInv
  <2> QED
    BY <2>1, EndingStep
<1>2. \A k \in Keys : Namespace[k] # None => Namespace[k] \in Sessions
  BY Symbols
<1>3. \A k \in Keys : Dropped(k) => Dropped(k)'
  BY <1>1, <1>2 DEF Dropped
<1>4. \A k : Borrowed(k)' <=> Borrowed(k)
  BY DEF Borrowed
<1> QED
  BY <1>3, <1>4 DEF Fine

\* One step and one call: what the step may do to its key without harm.
Harmless(c) == LET k == KeyOf[c] IN
  /\ handler'[c] \in {"reserve", "insert", "remove", "store"} => handler'[c] = handler[c]
  /\ k # None =>
       /\ task'[c] \notin {"ensure", "await", "closing"}
       /\ Pends(c)' => Pends(c)
       /\ task'[c] = "work" => task[c] = "work"
       /\ task[c] = "ended" => task'[c] = "ended"
       /\ row[k] = c /\ Fine(k) /\ ~Over(c) /\ row'[k] # c => Free(k)'
       /\ k \in cache[Of[c]] /\ ~Over(c) => k \in cache'[Of[c]]
       /\ Free(k) /\ Fine(k) => Free(k)' \/ (k \in cache'[Of[c]] /\ task'[c] # "work")
       /\ \A d \in Calls : KeyOf[d] = k /\ Of[d] = Of[c] /\ task'[c] = "work" =>
            (handler'[d] \in {"remove", "store"} => handler[d] \in {"remove", "store"})

LEMMA HarmlessOK ==
  ASSUME CallTypes, NEW c \in Calls, CallOK(c), KeyOK(c), Harmless(c),
         KeyOf[c] # None => (Dropped(KeyOf[c]) => Dropped(KeyOf[c])') /\ (Fine(KeyOf[c])' => Fine(KeyOf[c]))
  PROVE  KeyOK(c)'
<1> DEFINE k == KeyOf[c]
<1>1. handler'[c] \in {"reserve", "insert", "remove", "store"} => k # None
  BY DEF Harmless, KeyOK
<1>2. ASSUME k # None, Pends(c)', Fine(k)' PROVE row'[k] = c \/ k \in cache'[Of[c]] \/ Free(k)'
  <2>1. Pends(c) /\ Fine(k) /\ ~Over(c)
    BY <1>2 DEF Harmless, Pends, Over, CallOK
  <2>2. row[k] = c \/ k \in cache[Of[c]] \/ Free(k)
    BY <1>2, <2>1 DEF KeyOK
  <2> QED
    BY <1>2, <2>1, <2>2 DEF Harmless
<1>3. ASSUME k # None, task'[c] = "work", Fine(k)' PROVE row'[k] = c \/ Free(k)'
  <2>1. task[c] = "work" /\ Fine(k) /\ ~Over(c)
    BY <1>3 DEF Harmless, Over
  <2>2. row[k] = c \/ Free(k)
    BY <1>3, <2>1 DEF KeyOK
  <2> QED
    BY <1>3, <2>1, <2>2 DEF Harmless
<1>4. ASSUME k # None, handler'[c] \in {"remove", "store"}
      PROVE  task'[c] = "ended" /\ k \in cache'[Of[c]]
  <2>1. handler[c] \in {"remove", "store"} /\ ~Over(c)
    BY <1>4 DEF Harmless, Over
  <2> QED
    BY <1>4, <2>1 DEF Harmless, KeyOK
<1>5. ASSUME k # None, handler'[c] = "remove", Fine(k)' PROVE row'[k] = c \/ Dropped(k)'
  <2>1. handler[c] = "remove" /\ ~Over(c) /\ Fine(k)
    BY <1>5 DEF Harmless, Over
  <2> QED
    BY <1>5, <2>1 DEF Harmless, KeyOK, Free
<1>6. ASSUME k # None, NEW d \in Calls, KeyOf[d] = k, Of[d] = Of[c], task'[c] = "work"
      PROVE  handler'[d] \notin {"remove", "store"}
  BY <1>6 DEF Harmless, KeyOK
<1> QED
  BY <1>1, <1>2, <1>3, <1>4, <1>5, <1>6 DEF KeyOK, Harmless

\* Harmless steps, without the facts of HarmlessOK.
LEMMA HarmlessFor ==
  ASSUME TypeOK, QueueInv, CleanupInv, KeyInv, [Next]_vars, NEW d \in Calls, Harmless(d)
  PROVE  KeyOK(d)'
<1>1. CallTypes /\ CallOK(d) /\ KeyOK(d) /\ (KeyOf[d] # None => KeyOf[d] \in Keys)
  BY Parts, Symbols DEF QueueInv, KeyInv
<1>2. KeyOf[d] # None => (Dropped(KeyOf[d]) => Dropped(KeyOf[d])') /\ (Fine(KeyOf[d])' => Fine(KeyOf[d]))
  BY <1>1, DroppedForGood
<1> QED
  BY <1>1, <1>2, HarmlessOK

\* A step that has nothing to do with keys.
Aside ==
  /\ UNCHANGED keeping
  /\ \A d \in Calls :
       /\ handler'[d] \in {"reserve", "insert", "remove", "store"} => handler'[d] = handler[d]
       /\ task[d] = "ended" => task'[d] = "ended"
       /\ KeyOf[d] # None => /\ task'[d] \in {"ensure", "await", "closing"} => task'[d] = task[d]
                             /\ Pends(d)' => Pends(d)
                             /\ task'[d] = "work" => task[d] = "work"

LEMMA AsideOK ==
  ASSUME TypeOK, QueueInv, CleanupInv, KeyInv, [Next]_vars, Aside
  PROVE  KeyInv'
<1>1. ASSUME NEW c \in Calls PROVE Harmless(c)
  <2>1. KeyOK(c) /\ (KeyOf[c] # None => KeyOf[c] \in Keys)
    BY Symbols DEF KeyInv
  <2>2. KeyOf[c] # None => (Free(KeyOf[c]) => Free(KeyOf[c])')
    BY <2>1, DroppedForGood DEF Aside, Free
  <2> QED
    BY <2>1, <2>2 DEF Harmless, Aside, KeyOK
<1> QED
  BY <1>1, HarmlessFor DEF KeyInv

LEMMA SettleAside ==
  ASSUME CallTypes, QueueInv, NEW c \in Calls, Live(c), Settle(c, "answered"), UNCHANGED keeping
  PROVE  Aside
<1>1. Settled(c, "answered")
  BY SettleEffect
<1>2. \A d \in Calls : d # c => task'[d] = task[d] /\ execution'[d] = execution[d] /\ handler'[d] = handler[d]
  BY <1>1 DEF Settled, CallTypes, QueueTypeOK
<1>3. /\ task'[c] = "ended" /\ execution'[c] = "over"
      /\ handler'[c] = handler[c] \/ handler'[c] = "answered"
  BY <1>1 DEF Settled, CallTypes, QueueTypeOK
<1> QED
  BY <1>2, <1>3 DEF Aside, Pends

LEMMA SessionAside ==
  ASSUME TypeOK, QueueInv,
         \/ \E s \in Sessions : \/ Create(s) \/ Acquired(s) \/ Shown(s) \/ Initialize(s) \/ Delete(s)
                                \/ Sweep(s) \/ Drained(s)
         \/ Stop \/ StopReturns \/ UNCHANGED vars \/ \E h \in Owners : Crash(h)
  PROVE  Aside
<1>1. ASSUME UNCHANGED <<handler, task, execution, keeping>> PROVE Aside
  BY <1>1 DEF Aside, Pends
<1>2. ASSUME NEW S, Signals(S), Answer(Active(S)), UNCHANGED <<task, keeping>> PROVE Aside
  <2>1. \A d \in Calls : /\ handler'[d] = handler[d] \/ handler'[d] = "answered"
                         /\ execution'[d] = execution[d] \/ execution'[d] = "draining"
    BY <1>2 DEF Signals, Answer
  <2> QED
    BY <1>2, <2>1 DEF Aside, Pends
<1>3. ASSUME NEW s \in Sessions, Create(s) \/ Acquired(s) \/ Shown(s) \/ Initialize(s) \/ Drained(s)
      PROVE  UNCHANGED <<handler, task, execution, keeping>>
  BY <1>3 DEF Create, Acquired, Shown, Initialize, Drained
<1>4. ASSUME NEW s \in Sessions, Delete(s) \/ Sweep(s)
      PROVE  Signals({s}) /\ Answer(Active({s})) /\ UNCHANGED <<task, keeping>>
  BY <1>4 DEF Delete, Sweep, Unlist, AbortSessions
<1>5. ASSUME Stop PROVE \E S : Signals(S) /\ Answer(Active(S)) /\ UNCHANGED <<task, keeping>>
  BY <1>5 DEF Stop, Unlist, AbortSessions
<1>6. ASSUME StopReturns \/ UNCHANGED vars PROVE UNCHANGED <<handler, task, execution, keeping>>
  BY <1>6 DEF StopReturns, vars
<1>7. ASSUME NEW h \in Owners, Crash(h) PROVE UNCHANGED <<handler, task, execution, keeping>>
  BY <1>7 DEF Crash
<1> QED
  BY <1>1, <1>2, <1>3, <1>4, <1>5, <1>6, <1>7

LEMMA CallAside ==
  ASSUME TypeOK, QueueInv, KeyInv, NEW c \in Calls,
         \/ QueryFails(c) \/ TaskStarts(c) \/ TaskRefused(c) \/ TaskTimesOut(c) \/ TaskGivenUp(c)
         \/ TaskAborted(c) \/ Ensure(c) \/ RawAcquired(c) \/ RawShown(c) \/ BeginMcp(c)
         \/ CloseOther(c) \/ CloseReturns(c) \/ Flush(c)
  PROVE  Aside
<1>0. CallTypes /\ CallOK(c) /\ KeyOK(c) /\ Of[c] \in Sessions
  BY Parts, Symbols DEF QueueInv, KeyInv
<1>1. CASE QueryFails(c) \/ TaskStarts(c) \/ TaskTimesOut(c)
  BY <1>0, <1>1 DEF QueryFails, TaskStarts, Start, MyTurn, TaskTimesOut, TimeOut, Go, Do, Aside, Pends,
                    CallTypes, QueueTypeOK, CallOK
<1>2. CASE TaskRefused(c) \/ TaskGivenUp(c)
  BY <1>0, <1>2 DEF TaskRefused, TaskGivenUp, Refuse, GiveUp, Leave, Go, Aside, Pends, CallTypes, QueueTypeOK
<1>3. ASSUME KeyOf[c] = None, task[c] # "ended", \E l : Do(c, l), UNCHANGED <<handler, execution, keeping>>
      PROVE  Aside
  BY <1>0, <1>3 DEF Do, Aside, Pends, CallTypes
<1>4. ASSUME UNCHANGED <<handler, task, execution, keeping>> PROVE Aside
  BY <1>4 DEF Aside, Pends
<1>5. CASE TaskAborted(c) \/ CloseReturns(c)
  BY <1>0, <1>5, SettleAside DEF TaskAborted, Waiting, CloseReturns, Live
<1>6. CASE Ensure(c)
  <2>1. KeyOf[c] = None /\ UNCHANGED keeping /\ Live(c) /\ task[c] # "ended"
    BY <1>0, <1>6 DEF Ensure, KeyOK, Live
  <2>2. \/ Settle(c, "answered")
        \/ UNCHANGED <<handler, task, execution>>
        \/ (\E l : Do(c, l)) /\ UNCHANGED <<handler, execution>>
    BY <1>6 DEF Ensure
  <2> QED
    BY <1>0, <1>3, <1>4, <2>1, <2>2, SettleAside
<1>7. ASSUME RawFails(c), UNCHANGED keeping PROVE Aside
  <2>1. \/ task[c] = "await" /\ Settle(c, "answered")
        \/ UNCHANGED <<handler, task, execution>>
    BY <1>7 DEF RawFails
  <2> QED
    BY <1>0, <1>4, <1>7, <2>1, SettleAside DEF Live
<1>8. CASE RawAcquired(c)
  BY <1>4, <1>7, <1>8 DEF RawAcquired
<1>9. CASE RawShown(c)
  <2>1. UNCHANGED keeping
    BY <1>9 DEF RawShown
  <2>2. \/ RawFails(c)
        \/ task[c] = "await" /\ Do(c, "work") /\ UNCHANGED <<handler, execution>>
        \/ UNCHANGED <<handler, task, execution>>
    BY <1>9 DEF RawShown
  <2>3. task[c] = "await" => KeyOf[c] = None
    BY <1>0 DEF KeyOK
  <2> QED
    BY <1>3, <1>4, <1>7, <2>1, <2>2, <2>3
<1>10. CASE BeginMcp(c)
  <2>1. KeyOf[c] = None /\ task[c] # "ended" /\ UNCHANGED <<handler, execution, keeping>>
    BY <1>10, Symbols DEF BeginMcp, Rest
  <2>2. \E l : Do(c, l)
    BY <1>10 DEF BeginMcp
  <2> QED
    BY <1>3, <2>1, <2>2
<1>11. CASE CloseOther(c)
  <2>1. KeyOf[c] = None /\ task[c] = "begin" /\ UNCHANGED keeping
    BY <1>11, Symbols DEF CloseOther
  <2>2. CASE Do(c, "work") /\ UNCHANGED <<handler, execution>>
    BY <1>3, <2>1, <2>2
  <2>3. CASE Do(c, "closing") /\ Signals({Target[c]}) /\ Answer(Active({Target[c]}))
    <3>1. \A d \in Calls : /\ handler'[d] = handler[d] \/ handler'[d] = "answered"
                           /\ execution'[d] = execution[d] \/ execution'[d] = "draining"
                           /\ d # c => task'[d] = task[d]
      BY <1>0, <2>3 DEF Signals, Answer, Do, CallTypes
    <3> QED
      BY <2>1, <3>1 DEF Aside, Pends
  <2> QED
    BY <1>11, <2>2, <2>3 DEF CloseOther, Unlist, AbortSessions
<1>12. CASE Flush(c)
  <2>1. UNCHANGED <<task, keeping>>
    BY <1>12 DEF Flush
  <2>2. CASE Go(c, "done") /\ UNCHANGED execution
    BY <1>0, <2>1, <2>2 DEF Go, Aside, Pends, CallTypes
  <2>3. CASE /\ Signals({Of[c]})
             /\ handler' = [d \in Calls |-> IF d = c THEN "done"
                                            ELSE IF d \in Active({Of[c]}) THEN "answered"
                                            ELSE handler[d]]
    <3>1. \A d \in Calls : /\ handler'[d] = handler[d] \/ handler'[d] \in {"answered", "done"}
                           /\ execution'[d] = execution[d] \/ execution'[d] = "draining"
      BY <2>3 DEF Signals
    <3> QED
      BY <2>1, <3>1 DEF Aside, Pends
  <2> QED
    BY <1>12, <2>2, <2>3 DEF Flush, Unlist, AbortSessions
<1> QED
  BY <1>1, <1>2, <1>5, <1>6, <1>8, <1>9, <1>10, <1>11, <1>12

\* What the proofs use of the state before a step, and of what it leaves alone.
LEMMA KeyFacts ==
  ASSUME TypeOK, QueueInv, CleanupInv, KeyInv, [Next]_vars
  PROVE  /\ CallTypes /\ KeyTypes
         /\ \A d \in Calls : /\ CallOK(d) /\ KeyOK(d) /\ Of[d] \in Sessions
                             /\ KeyOf[d] # None => KeyOf[d] \in Keys
         /\ \A k \in Keys : (Dropped(k) => Dropped(k)') /\ (Fine(k)' => Fine(k))
BY Parts, Symbols, DroppedForGood DEF QueueInv, KeyInv

LEMMA RequestKeys ==
  ASSUME TypeOK, QueueInv, CleanupInv, KeyInv, [Next]_vars, NEW c \in Calls, Request(c)
  PROVE  KeyInv'
<1>0. /\ CallTypes /\ KeyTypes
      /\ \A d \in Calls : /\ CallOK(d) /\ KeyOK(d) /\ Of[d] \in Sessions
                          /\ KeyOf[d] # None => KeyOf[d] \in Keys
      /\ \A k \in Keys : (Dropped(k) => Dropped(k)') /\ (Fine(k)' => Fine(k))
  BY KeyFacts
<1>1. CASE Of[c] \in Mcp
  <2>1. Admitted(c)
    BY <1>0, <1>1, AdmitQueue DEF Request, Early
  <2>2. \A d \in Calls : /\ d # c => execution'[d] = execution[d] /\ handler'[d] = handler[d]
                         /\ handler'[c] \in {"wait", "answered"}
    BY <1>0, <2>1 DEF Admitted, CallTypes, QueueTypeOK
  <2>3. KeyOf[c] = None /\ UNCHANGED <<task, keeping>>
    BY <1>1, Symbols DEF Request, Rest
  <2>4. Aside
    BY <2>2, <2>3 DEF Aside, Pends
  <2> QED
    BY <2>4, AsideOK
<1>2. CASE Of[c] \notin Mcp
  <2>1. /\ UNCHANGED <<execution, task, row>> /\ Go(c, "prune")
        /\ \E K \in SUBSET Expired(Of[c]) : cache' = [cache EXCEPT ![Of[c]] = @ \ K]
    BY <1>2 DEF Request
  <2>2. \A d \in Calls : handler'[d] = handler[d] \/ handler'[d] = "prune"
    BY <1>0, <2>1 DEF Go, CallTypes
  <2>3. ASSUME NEW d \in Calls, KeyOf[d] # None, KeyOf[d] \in cache[Of[d]], ~Over(d)
        PROVE  KeyOf[d] \in cache'[Of[d]]
    <3>1. KeyOf[d] \notin Expired(Of[d])
      BY <2>3 DEF Expired
    <3> QED
      BY <1>0, <2>1, <2>3, <3>1 DEF KeyTypes
  <2>4. ASSUME NEW d \in Calls, KeyOf[d] # None, Free(KeyOf[d]) PROVE Free(KeyOf[d])'
    BY <1>0, <2>1, <2>4 DEF Free
  <2>5. ASSUME NEW d \in Calls PROVE Harmless(d)
    BY <1>0, <2>1, <2>2, <2>3, <2>4 DEF Harmless, Pends, KeyOK
  <2> QED
    BY <2>5, HarmlessFor DEF KeyInv
<1> QED
  BY <1>1, <1>2

LEMMA PurgeKeys ==
  ASSUME TypeOK, QueueInv, CleanupInv, KeyInv, [Next]_vars, NEW s \in Sessions, Purge(s)
  PROVE  KeyInv'
<1>0. /\ CallTypes /\ KeyTypes
      /\ \A d \in Calls : /\ CallOK(d) /\ KeyOK(d) /\ Of[d] \in Sessions
                          /\ KeyOf[d] # None => KeyOf[d] \in Keys
      /\ \A k \in Keys : (Dropped(k) => Dropped(k)') /\ (Fine(k)' => Fine(k))
  BY KeyFacts
<1>1. /\ UNCHANGED <<execution, handler, task, cache>> /\ cleanup'[s] = "done"
      /\ row' = [k \in Keys |-> IF Namespace[k] = s THEN "none" ELSE row[k]]
  BY Parts DEF Purge, SessionTypes
<1>2. ASSUME NEW d \in Calls, KeyOf[d] # None, Free(KeyOf[d]) PROVE Free(KeyOf[d])'
  BY <1>0, <1>1, <1>2 DEF Free
<1>3. ASSUME NEW d \in Calls, KeyOf[d] # None, row[KeyOf[d]] = d, row'[KeyOf[d]] # d PROVE Free(KeyOf[d])'
  BY <1>0, <1>1, <1>3, Symbols DEF Free, Dropped
<1>4. ASSUME NEW d \in Calls PROVE Harmless(d)
  BY <1>0, <1>1, <1>2, <1>3 DEF Harmless, Pends, KeyOK
<1> QED
  BY <1>4, HarmlessFor DEF KeyInv

\* A call that has not come to the queue, or has come back from it, has no rights.
LEMMA NoRights ==
  ASSUME NEW c \in Calls, execution'[c] # "queued", task'[c] \in {"off", "ended"},
         handler'[c] \notin {"remove", "store"},
         handler'[c] \in {"reserve", "insert"} => KeyOf[c] # None
  PROVE  KeyOK(c)'
BY DEF KeyOK, Pends

LEMMA PruneKeys ==
  ASSUME TypeOK, QueueInv, CleanupInv, KeyInv, [Next]_vars, NEW c \in Calls, Prune(c)
  PROVE  KeyInv'
<1>0. /\ CallTypes /\ KeyTypes
      /\ \A d \in Calls : /\ CallOK(d) /\ KeyOK(d) /\ Of[d] \in Sessions
                          /\ KeyOf[d] # None => KeyOf[d] \in Keys
      /\ \A k \in Keys : (Dropped(k) => Dropped(k)') /\ (Fine(k)' => Fine(k))
  BY KeyFacts
<1>1. /\ UNCHANGED <<task, cache>> /\ handler[c] = "prune" /\ task[c] = "off" /\ execution[c] = "none"
      /\ \E K \in SUBSET Expirable : row' = [k \in Keys |-> IF k \in K THEN "none" ELSE row[k]]
  BY <1>0 DEF Prune, CallOK, Early
<1>2. /\ \A d \in Calls : d # c => execution'[d] = execution[d] /\ handler'[d] = handler[d]
      /\ KeyOf[c] = None => handler'[c] \in {"wait", "answered"}
      /\ KeyOf[c] # None => handler'[c] = "reserve" /\ execution' = execution
  <2>1. CASE KeyOf[c] = None
    <3>1. Admitted(c)
      BY <1>0, <1>1, <2>1, AdmitQueue DEF Prune, Early
    <3> QED
      BY <1>0, <2>1, <3>1 DEF Admitted, CallTypes, QueueTypeOK
  <2>2. CASE KeyOf[c] # None
    BY <1>0, <2>2 DEF Prune, Go, CallTypes
  <2> QED
    BY <2>1, <2>2
<1>3. ASSUME NEW d \in Calls, KeyOf[d] # None, Free(KeyOf[d]) PROVE Free(KeyOf[d])'
  BY <1>0, <1>1, <1>3 DEF Free
<1>4. ASSUME NEW d \in Calls, KeyOf[d] # None, row[KeyOf[d]] = d, ~Over(d) PROVE row'[KeyOf[d]] = d
  <2>1. KeyOf[d] \notin Expirable
    BY <1>4, Symbols DEF Expirable
  <2> QED
    BY <1>0, <1>1, <1>4, <2>1
<1>5. ASSUME NEW d \in Calls, d # c PROVE Harmless(d)
  <2>1. \A e \in Calls : handler'[e] \in {"remove", "store"} => handler[e] \in {"remove", "store"}
    BY <1>2
  <2> QED
    BY <1>0, <1>1, <1>2, <1>3, <1>4, <1>5, <2>1 DEF Harmless, Pends, KeyOK
<1>6. KeyOK(c)'
  BY <1>1, <1>2, NoRights DEF KeyOK
<1> QED
  BY <1>5, <1>6, HarmlessFor DEF KeyInv

LEMMA ReserveKeys ==
  ASSUME TypeOK, QueueInv, CleanupInv, KeyInv, [Next]_vars, NEW c \in Calls, Reserve(c)
  PROVE  KeyInv'
<1>0. /\ CallTypes /\ KeyTypes
      /\ \A d \in Calls : /\ CallOK(d) /\ KeyOK(d) /\ Of[d] \in Sessions
                          /\ KeyOf[d] # None => KeyOf[d] \in Keys
      /\ \A k \in Keys : (Dropped(k) => Dropped(k)') /\ (Fine(k)' => Fine(k))
  BY KeyFacts
<1> DEFINE k == KeyOf[c]
<1>1. UNCHANGED <<task, row>> /\ handler[c] = "reserve" /\ task[c] = "off" /\ execution[c] = "none" /\ k \in Keys
  BY <1>0 DEF Reserve, CallOK, Early, KeyOK
<1>2. /\ \A d \in Calls : d # c => execution'[d] = execution[d] /\ handler'[d] = handler[d]
      /\ \/ handler'[c] \in {"insert", "answered"} /\ execution'[c] # "queued" /\ cache' = cache
         \/ /\ handler'[c] \in {"wait", "answered"}
            /\ cache' = [cache EXCEPT ![Of[c]] = @ \cup {k}]
  <2>1. CASE Admit(c) /\ cache' = [cache EXCEPT ![Of[c]] = @ \cup {k}]
    <3>1. Admitted(c)
      BY <1>0, <1>1, <2>1, AdmitQueue DEF Early
    <3> QED
      BY <1>0, <2>1, <3>1 DEF Admitted, CallTypes, QueueTypeOK
  <2>2. CASE (Go(c, "insert") \/ Go(c, "answered")) /\ UNCHANGED <<queueVars, cache>>
    BY <1>0, <1>1, <2>2 DEF Go, CallTypes
  <2> QED
    BY <2>1, <2>2 DEF Reserve
<1>3. ASSUME NEW d \in Calls, KeyOf[d] # None, Free(KeyOf[d]) PROVE Free(KeyOf[d])'
  BY <1>0, <1>1, <1>3 DEF Free
<1>4. ASSUME NEW d \in Calls PROVE cache[Of[d]] \subseteq cache'[Of[d]]
  BY <1>0, <1>2 DEF KeyTypes
<1>5. ASSUME NEW d \in Calls, d # c PROVE Harmless(d)
  <2>1. \A e \in Calls : handler'[e] \in {"remove", "store"} => handler[e] \in {"remove", "store"}
    BY <1>2
  <2> QED
    BY <1>0, <1>1, <1>2, <1>3, <1>4, <1>5, <2>1 DEF Harmless, Pends, KeyOK
<1>6. KeyOK(c)'
  <2>1. CASE handler'[c] \in {"insert", "answered"} /\ execution'[c] # "queued"
    BY <1>1, <2>1, NoRights, Symbols
  <2>2. CASE handler'[c] \in {"wait", "answered"} /\ cache' = [cache EXCEPT ![Of[c]] = @ \cup {k}]
    <3>1. k \in cache'[Of[c]]
      BY <1>0, <2>2 DEF KeyTypes
    <3> QED
      BY <1>1, <2>2, <3>1 DEF KeyOK
  <2> QED
    BY <1>2, <2>1, <2>2
<1> QED
  BY <1>5, <1>6, HarmlessFor DEF KeyInv


LEMMA InsertKeys ==
  ASSUME TypeOK, QueueInv, CleanupInv, KeyInv, [Next]_vars, NEW c \in Calls, Insert(c)
  PROVE  KeyInv'
<1>0. /\ CallTypes /\ KeyTypes
      /\ \A d \in Calls : /\ CallOK(d) /\ KeyOK(d) /\ Of[d] \in Sessions
                          /\ KeyOf[d] # None => KeyOf[d] \in Keys
      /\ \A k \in Keys : (Dropped(k) => Dropped(k)') /\ (Fine(k)' => Fine(k))
  BY KeyFacts
<1> DEFINE k == KeyOf[c]
<1>1. /\ UNCHANGED <<task, cache>> /\ handler[c] = "insert" /\ task[c] = "off" /\ execution[c] = "none"
      /\ k \in Keys /\ row[k] = "none" /\ row' = [row EXCEPT ![k] = c]
  BY <1>0 DEF Insert, CallOK, Early, KeyOK
<1>2. /\ \A d \in Calls : d # c => execution'[d] = execution[d] /\ handler'[d] = handler[d]
      /\ handler'[c] \in {"wait", "answered"}
  <2>1. Admitted(c)
    BY <1>0, <1>1, AdmitQueue DEF Insert, Early
  <2> QED
    BY <1>0, <2>1 DEF Admitted, CallTypes, QueueTypeOK
<1>3. ASSUME NEW d \in Calls, KeyOf[d] # None, Free(KeyOf[d]) PROVE Free(KeyOf[d])'
  BY <1>0, <1>1, <1>3, Symbols DEF Free, KeyTypes
<1>4. ASSUME NEW d \in Calls, KeyOf[d] # None, row[KeyOf[d]] = d PROVE row'[KeyOf[d]] = d
  BY <1>0, <1>1, <1>4, Symbols DEF KeyTypes
<1>5. ASSUME NEW d \in Calls, d # c PROVE Harmless(d)
  <2>1. \A e \in Calls : handler'[e] \in {"remove", "store"} => handler[e] \in {"remove", "store"}
    BY <1>2
  <2> QED
    BY <1>0, <1>1, <1>2, <1>3, <1>4, <1>5, <2>1 DEF Harmless, Pends, KeyOK
<1>6. KeyOK(c)'
  <2>1. row'[k] = c
    BY <1>0, <1>1 DEF KeyTypes
  <2> QED
    BY <1>1, <1>2, <2>1 DEF KeyOK
<1> QED
  BY <1>5, <1>6, HarmlessFor DEF KeyInv


LEMMA RemoveKeys ==
  ASSUME TypeOK, QueueInv, CleanupInv, KeyInv, [Next]_vars, NEW c \in Calls, Remove(c)
  PROVE  KeyInv'
<1>0. /\ CallTypes /\ KeyTypes
      /\ \A d \in Calls : /\ CallOK(d) /\ KeyOK(d) /\ Of[d] \in Sessions
                          /\ KeyOf[d] # None => KeyOf[d] \in Keys
      /\ \A k \in Keys : (Dropped(k) => Dropped(k)') /\ (Fine(k)' => Fine(k))
  BY KeyFacts
<1> DEFINE k == KeyOf[c]
<1>1. /\ UNCHANGED <<task, execution, cache>> /\ handler[c] = "remove" /\ k \in Keys
      /\ task[c] = "ended" /\ k \in cache[Of[c]] /\ row' = [row EXCEPT ![k] = "none"]
      /\ \A d \in Calls : d # c => handler'[d] = handler[d]
      /\ handler'[c] = "store"
  BY <1>0 DEF Remove, Go, KeyOK, CallTypes
<1>2. ASSUME NEW d \in Calls, KeyOf[d] # None, Free(KeyOf[d]) PROVE Free(KeyOf[d])'
  BY <1>0, <1>1, <1>2, Symbols DEF Free, KeyTypes
<1>3. ASSUME NEW d \in Calls, d # c, KeyOf[d] # None, row[KeyOf[d]] = d, Fine(KeyOf[d]), row'[KeyOf[d]] # d
      PROVE  Free(KeyOf[d])'
  <2>1. KeyOf[d] = k /\ row'[k] = "none"
    BY <1>0, <1>1, <1>3 DEF KeyTypes
  <2>2. Dropped(k)
    BY <1>0, <1>1, <1>3, <2>1 DEF KeyOK
  <2> QED
    BY <1>0, <1>1, <2>1, <2>2 DEF Free
<1>4. ASSUME NEW d \in Calls, d # c PROVE Harmless(d)
  <2>1. \A e \in Calls : handler'[e] \in {"remove", "store"} => handler[e] \in {"remove", "store"}
    BY <1>1
  <2> QED
    BY <1>0, <1>1, <1>2, <1>3, <1>4, <2>1 DEF Harmless, Pends, KeyOK
<1>5. KeyOK(c)'
  <2>1. execution[c] # "queued"
    BY <1>0, <1>1 DEF CallOK
  <2> QED
    BY <1>0, <1>1, <2>1, Symbols DEF KeyOK, Pends
<1> QED
  BY <1>4, <1>5, HarmlessFor DEF KeyInv


\* A fine key that has been dropped is used by calls of one session only.
LEMMA OneSession ==
  ASSUME NEW c \in Calls, NEW d \in Calls, KeyOf[c] = KeyOf[d], Fine(KeyOf[c]), Dropped(KeyOf[c])
  PROVE  Of[c] = Of[d]
BY DEF Fine, Borrowed, Dropped

LEMMA StoreKeys ==
  ASSUME TypeOK, QueueInv, CleanupInv, KeyInv, [Next]_vars, NEW c \in Calls, Store(c)
  PROVE  KeyInv'
<1>0. /\ CallTypes /\ KeyTypes
      /\ \A d \in Calls : /\ CallOK(d) /\ KeyOK(d) /\ Of[d] \in Sessions
                          /\ KeyOf[d] # None => KeyOf[d] \in Keys
      /\ \A k \in Keys : (Dropped(k) => Dropped(k)') /\ (Fine(k)' => Fine(k))
  BY KeyFacts
<1> DEFINE k == KeyOf[c]
<1>1. /\ UNCHANGED <<task, execution, cache>> /\ handler[c] = "store" /\ k \in Keys /\ k \in cache[Of[c]]
      /\ row[k] = "none" /\ row' = [row EXCEPT ![k] = "done"]
      /\ \A d \in Calls : d # c => handler'[d] = handler[d]
      /\ handler'[c] = "answered" /\ task[c] = "ended"
  BY <1>0 DEF Store, Go, KeyOK, CallTypes
<1>2. ASSUME NEW d \in Calls, KeyOf[d] # None, row[KeyOf[d]] = d PROVE row'[KeyOf[d]] = d
  BY <1>0, <1>1, <1>2, Symbols DEF KeyTypes
<1>3. ASSUME NEW d \in Calls, KeyOf[d] # None, Free(KeyOf[d]), Fine(KeyOf[d])
      PROVE  Free(KeyOf[d])' \/ (KeyOf[d] \in cache'[Of[d]] /\ task'[d] # "work")
  <2>1. CASE KeyOf[d] = k
    <3>1. Of[c] = Of[d]
      BY <1>3, <2>1, OneSession DEF Free
    <3> QED
      BY <1>0, <1>1, <1>3, <2>1, <3>1 DEF KeyOK
  <2>2. CASE KeyOf[d] # k
    <3>1. row'[KeyOf[d]] = row[KeyOf[d]] /\ (Dropped(KeyOf[d]) => Dropped(KeyOf[d])')
      BY <1>0, <1>1, <1>3, <2>2 DEF KeyTypes
    <3> QED
      BY <1>3, <3>1 DEF Free
  <2> QED
    BY <2>1, <2>2
<1>4. ASSUME NEW d \in Calls PROVE Harmless(d)
  <2>1. \A e \in Calls : handler'[e] \in {"remove", "store"} => handler[e] \in {"remove", "store"}
    BY <1>1
  <2>2. handler'[d] = handler[d] \/ handler'[d] = "answered"
    BY <1>1
  <2> QED
    BY <1>0, <1>1, <1>2, <1>3, <1>4, <2>1, <2>2 DEF Harmless, Pends, KeyOK
<1> QED
  BY <1>4, HarmlessFor DEF KeyInv


LEMMA WorkEndsKeys ==
  ASSUME TypeOK, QueueInv, CleanupInv, KeyInv, [Next]_vars, NEW c \in Calls, WorkEnds(c)
  PROVE  KeyInv'
<1>0. /\ CallTypes /\ KeyTypes
      /\ \A d \in Calls : /\ CallOK(d) /\ KeyOK(d) /\ Of[d] \in Sessions
                          /\ KeyOf[d] # None => KeyOf[d] \in Keys
      /\ \A k \in Keys : (Dropped(k) => Dropped(k)') /\ (Fine(k)' => Fine(k))
  BY KeyFacts
<1> DEFINE k == KeyOf[c]
<1>1. task[c] = "work" /\ Live(c) /\ UNCHANGED row
  BY DEF WorkEnds, Live
<1>2. ASSUME Settle(c, "answered"), UNCHANGED cache PROVE KeyInv'
  <2>1. Aside
    BY <1>0, <1>1, <1>2, SettleAside
  <2> QED
    BY <2>1, AsideOK
<1>3. ASSUME k # None, cache' = [cache EXCEPT ![Of[c]] = @ \cup {k}], Settle(c, "remove") PROVE KeyInv'
  <2>1. Settled(c, "remove")
    BY <1>0, <1>1, <1>3, SettleEffect
  <2>2. /\ \A d \in Calls : d # c => task'[d] = task[d] /\ execution'[d] = execution[d] /\ handler'[d] = handler[d]
        /\ task'[c] = "ended" /\ execution'[c] = "over"
        /\ handler'[c] = handler[c] \/ handler'[c] = "remove"
    BY <1>0, <2>1 DEF Settled, CallTypes, QueueTypeOK
  <2>3. k \in Keys /\ k \in cache'[Of[c]] /\ \A d \in Calls : cache[Of[d]] \subseteq cache'[Of[d]]
    BY <1>0, <1>3 DEF KeyTypes
  <2>4. ASSUME NEW d \in Calls, KeyOf[d] # None, Free(KeyOf[d]) PROVE Free(KeyOf[d])'
    BY <1>0, <1>1, <2>4 DEF Free
  <2>5. ASSUME NEW d \in Calls, d # c PROVE Harmless(d)
    <3>1. Of[d] = Of[c] => task[d] # "work"
      BY <1>1, <2>5 DEF QueueInv, OneTask, Live
    <3>2. /\ handler'[d] \in {"reserve", "insert", "remove", "store"} => handler'[d] = handler[d]
          /\ Pends(d)' => Pends(d)
      BY <2>2, <2>5 DEF Pends
    <3>3. ASSUME NEW e \in Calls, Of[e] = Of[d], task'[d] = "work", handler'[e] \in {"remove", "store"}
          PROVE  handler[e] \in {"remove", "store"}
      BY <2>2, <2>5, <3>1, <3>3
    <3> QED
      BY <1>0, <1>1, <2>2, <2>3, <2>4, <2>5, <3>2, <3>3 DEF Harmless, KeyOK
  <2>6. KeyOK(c)'
    <3>1. Fine(k)' => row'[k] = c \/ Dropped(k)'
      BY <1>0, <1>1, <1>3, <2>3 DEF KeyOK, Free
    <3>2. handler[c] \notin {"reserve", "insert", "remove", "store"}
      BY <1>0, <1>1, <1>3 DEF KeyOK, CallOK, Early, Live, Runs
    <3> QED
      BY <1>0, <1>3, <2>2, <2>3, <3>1, <3>2 DEF KeyOK, Pends
  <2> QED
    BY <2>5, <2>6, HarmlessFor DEF KeyInv
<1> QED
  BY <1>2, <1>3 DEF WorkEnds


LEMMA BeginRestKeys ==
  ASSUME TypeOK, QueueInv, CleanupInv, KeyInv, [Next]_vars, NEW c \in Calls, BeginRest(c)
  PROVE  KeyInv'
<1>0. /\ CallTypes /\ KeyTypes
      /\ \A d \in Calls : /\ CallOK(d) /\ KeyOK(d) /\ Of[d] \in Sessions
                          /\ KeyOf[d] # None => KeyOf[d] \in Keys
      /\ \A k \in Keys : (Dropped(k) => Dropped(k)') /\ (Fine(k)' => Fine(k))
  BY KeyFacts
<1> DEFINE k == KeyOf[c]
<1>1. task[c] = "begin" /\ Live(c) /\ UNCHANGED keeping
  BY DEF BeginRest, Live
<1>2. ASSUME Settle(c, "answered") PROVE KeyInv'
  <2>1. Aside
    BY <1>0, <1>1, <1>2, SettleAside
  <2> QED
    BY <2>1, AsideOK
<1>3. ASSUME k \notin cache[Of[c]], Do(c, "work"), UNCHANGED <<queueVars, handler>> PROVE KeyInv'
  <2>1. task'[c] = "work" /\ \A d \in Calls : d # c => task'[d] = task[d]
    BY <1>0, <1>3 DEF Do, CallTypes
  <2>2. ASSUME NEW d \in Calls, KeyOf[d] # None, Free(KeyOf[d]) PROVE Free(KeyOf[d])'
    BY <1>0, <1>1, <2>2 DEF Free
  <2>3. ASSUME NEW d \in Calls, d # c PROVE Harmless(d)
    BY <1>0, <1>1, <1>3, <2>1, <2>2, <2>3 DEF Harmless, Pends, KeyOK
  <2>4. KeyOK(c)'
    <3>1. execution[c] # "queued"
      BY <1>0, <1>1 DEF CallOK
    <3>2. k # None /\ Fine(k)' => row'[k] = c \/ Free(k)'
      BY <1>0, <1>1, <1>3, <2>2 DEF KeyOK, Pends
    <3>3. k # None => /\ handler[c] \notin {"remove", "store"}
                      /\ \A d \in Calls : KeyOf[d] = k /\ Of[d] = Of[c] => handler[d] \notin {"remove", "store"}
      BY <1>0, <1>1, <1>3 DEF KeyOK
    <3>4. handler[c] \in {"reserve", "insert", "remove", "store"} => k # None
      BY <1>0 DEF KeyOK
    <3> QED
      BY <1>3, <2>1, <3>1, <3>2, <3>3, <3>4 DEF KeyOK, Pends
  <2> QED
    BY <2>3, <2>4, HarmlessFor DEF KeyInv
<1> QED
  BY <1>2, <1>3 DEF BeginRest


LEMMA KeyInvStep ==
  ASSUME TypeOK, QueueInv, CleanupInv, KeyInv, [Next]_vars
  PROVE  KeyInv'
<1>1. ASSUME NEW c \in Calls,
             \/ QueryFails(c) \/ TaskStarts(c) \/ TaskRefused(c) \/ TaskTimesOut(c) \/ TaskGivenUp(c)
             \/ TaskAborted(c) \/ Ensure(c) \/ RawAcquired(c) \/ RawShown(c) \/ BeginMcp(c)
             \/ CloseOther(c) \/ CloseReturns(c) \/ Flush(c)
      PROVE  KeyInv'
  BY <1>1, CallAside, AsideOK
<1>2. ASSUME \/ \E s \in Sessions : \/ Create(s) \/ Acquired(s) \/ Shown(s) \/ Initialize(s) \/ Delete(s)
                                    \/ Sweep(s) \/ Drained(s)
             \/ Stop \/ StopReturns \/ UNCHANGED vars \/ \E h \in Owners : Crash(h)
      PROVE  KeyInv'
  BY <1>2, SessionAside, AsideOK
<1> QED
  BY <1>1, <1>2, RequestKeys, PurgeKeys, PruneKeys, ReserveKeys, InsertKeys, RemoveKeys, StoreKeys,
     WorkEndsKeys, BeginRestKeys
     DEF Next, ServerStep, Others

-----------------------------------------------------------------------------
(* Browsers.                                                               *)

\* The conjuncts of BrowserInv, for a session and for a call.
SessionOK(s) ==
  /\ handle[s] # None => SessionOfBrowser(handle[s]) = s /\ Usable(handle[s])
  /\ session[s] \in {"no", "acquiring", "showing"} => Unused(s)
  /\ session[s] = "showing" => Usable(s)
BrowserOK(c) ==
  /\ uses[c] # None => SessionOfBrowser(uses[c]) = Of[c]
  /\ raw[c] # "over" => Unused(c)
  /\ raw[c] = "showing" => Usable(c)
  /\ task[c] \in {"off", "begin", "ensure"} => raw[c] = "no"
  /\ task[c] \in {"off", "begin", "ensure", "await"} => uses[c] = None
  /\ task[c] = "work" /\ uses[c] # None /\ ~Usable(uses[c]) => c \in signal

LEMMA BrowserParts == BrowserInv <=> /\ \A s \in Sessions : SessionOK(s)
                                     /\ \A c \in Calls : BrowserOK(c)
BY DEF BrowserInv, SessionOK, BrowserOK

\* Steps of tasks and sessions that have nothing to do with browsers.
TameTask(d) ==
  /\ task'[d] \in {"off", "begin", "ensure"} => task[d] \in {"off", "begin", "ensure"}
  /\ task'[d] = "await" => task[d] = "await"
  /\ task'[d] = "work" => task[d] \in {"work", "begin"}
TameSession(s) ==
  /\ session'[s] \in {"no", "acquiring", "showing"} => session[s] \in {"no", "acquiring", "showing"}
  /\ session'[s] = "showing" => session[s] = "showing"

LEMMA TameOK ==
  ASSUME BrowserInv, UNCHANGED <<handle, uses, raw, browser>>, signal \subseteq signal',
         \A d \in Calls : TameTask(d), \A s \in Sessions : TameSession(s)
  PROVE  BrowserInv'
<1>1. \A h : (Unused(h) <=> Unused(h)') /\ (Usable(h) <=> Usable(h)') /\ SessionOfBrowser(h)' = SessionOfBrowser(h)
  BY DEF Unused, Usable, SessionOfBrowser
<1>2. ASSUME NEW s \in Sessions PROVE SessionOK(s)'
  BY <1>1, <1>2, BrowserParts DEF SessionOK, TameSession
<1>3. ASSUME NEW c \in Calls PROVE BrowserOK(c)'
  BY <1>1, <1>3, BrowserParts DEF BrowserOK, TameTask
<1> QED
  BY <1>2, <1>3, BrowserParts DEF BrowserInv, SessionOK, BrowserOK

LEMMA TameSteps ==
  ASSUME TypeOK, QueueInv, BrowserInv, [Next]_vars,
         \/ \E s \in Sessions : Create(s) \/ Initialize(s) \/ Delete(s) \/ Sweep(s) \/ Purge(s)
         \/ \E c \in Calls : \/ Prune(c) \/ Reserve(c) \/ Insert(c) \/ Remove(c) \/ Store(c)
                             \/ QueryFails(c) \/ Request(c)
                             \/ TaskStarts(c) \/ TaskRefused(c) \/ TaskTimesOut(c)
                             \/ TaskGivenUp(c) \/ TaskAborted(c)
                             \/ BeginMcp(c) \/ CloseOther(c) \/ CloseReturns(c) \/ Flush(c)
         \/ Stop \/ StopReturns \/ UNCHANGED vars
  PROVE  BrowserInv'
<1>0. CallTypes /\ SessionTypes /\ (\A c \in Calls : CallOK(c) /\ Of[c] \in Sessions) /\ signal \subseteq signal'
  BY Parts, Symbols, QueueMoves DEF QueueInv
<1>1. UNCHANGED <<handle, uses, raw, browser>>
  BY DEF Create, Initialize, Delete, Sweep, Purge, Prune, Reserve, Insert, Remove, Store, QueryFails,
         Request, TaskStarts, TaskRefused, TaskTimesOut, TaskGivenUp, TaskAborted, BeginMcp, CloseOther,
         CloseReturns, Flush, Stop, StopReturns, vars
<1>2. ASSUME NEW d \in Calls PROVE TameTask(d)
  <2>1. CASE task' = task
    BY <2>1 DEF TameTask
  <2>2. ASSUME NEW c \in Calls, Live(c), Settle(c, "answered") PROVE TameTask(d)
    BY <1>0, <2>2, SettleEffect DEF Settled, TameTask, CallTypes
  <2>3. ASSUME NEW c \in Calls, TaskAborted(c) \/ CloseReturns(c) PROVE TameTask(d)
    BY <2>2, <2>3 DEF TaskAborted, Waiting, CloseReturns, Live
  <2>4. ASSUME NEW c \in Calls, TaskStarts(c) PROVE TameTask(d)
    BY <1>0, <2>4 DEF TaskStarts, Start, MyTurn, Do, TameTask, CallTypes, CallOK
  <2>5. ASSUME NEW c \in Calls, BeginMcp(c) \/ CloseOther(c) PROVE TameTask(d)
    <3>1. task[c] = "begin" /\ \E l \in {"ensure", "work", "closing"} : task' = [task EXCEPT ![c] = l]
      BY <2>5 DEF BeginMcp, CloseOther, Do
    <3> QED
      BY <1>0, <3>1 DEF TameTask, CallTypes
  <2>6. ASSUME NEW c \in Calls,
               \/ Prune(c) \/ Reserve(c) \/ Insert(c) \/ Remove(c) \/ Store(c) \/ QueryFails(c) \/ Request(c)
               \/ TaskRefused(c) \/ TaskTimesOut(c) \/ TaskGivenUp(c) \/ Flush(c)
        PROVE  task' = task
    BY <2>6 DEF Prune, Reserve, Insert, Remove, Store, QueryFails, Request, TaskRefused, TaskTimesOut,
                TaskGivenUp, Flush
  <2>7. ASSUME NEW s \in Sessions, Create(s) \/ Initialize(s) \/ Delete(s) \/ Sweep(s) \/ Purge(s)
        PROVE  task' = task
    BY <2>7 DEF Create, Initialize, Delete, Sweep, Purge
  <2>8. ASSUME Stop \/ StopReturns \/ UNCHANGED vars PROVE task' = task
    BY <2>8 DEF Stop, StopReturns, vars
  <2> QED
    BY <2>1, <2>3, <2>4, <2>5, <2>6, <2>7, <2>8
<1>3. ASSUME NEW s \in Sessions PROVE TameSession(s)
  <2>1. CASE session' = session
    BY <2>1 DEF TameSession
  <2>2. ASSUME NEW S, NEW l, Unlist(S, l) PROVE TameSession(s)
    BY <2>2 DEF Unlist, TameSession
  <2>3. ASSUME NEW x \in Sessions, Create(x) \/ Initialize(x) PROVE TameSession(s)
    BY <1>0, <2>3 DEF Create, Initialize, Register, TameSession, SessionTypes
  <2>4. ASSUME NEW x \in Sessions, Delete(x) \/ Sweep(x) PROVE \E S, l : Unlist(S, l)
    BY <2>4 DEF Delete, Sweep
  <2>5. ASSUME NEW c \in Calls, CloseOther(c) \/ Flush(c) PROVE session' = session \/ \E S, l : Unlist(S, l)
    BY <2>5 DEF CloseOther, Flush
  <2>6. ASSUME Stop PROVE \E S, l : Unlist(S, l)
    BY <2>6 DEF Stop
  <2>7. ASSUME NEW c \in Calls,
               \/ Prune(c) \/ Reserve(c) \/ Insert(c) \/ Remove(c) \/ Store(c) \/ QueryFails(c) \/ Request(c)
               \/ TaskRefused(c) \/ TaskTimesOut(c) \/ TaskGivenUp(c)
        PROVE  session' = session
    BY <2>7 DEF Prune, Reserve, Insert, Remove, Store, QueryFails, Request, TaskRefused, TaskTimesOut,
                TaskGivenUp
  <2>8. ASSUME NEW c \in Calls, TaskStarts(c) \/ TaskAborted(c) \/ BeginMcp(c) \/ CloseReturns(c)
        PROVE  session' = session
    BY <2>8 DEF TaskStarts, TaskAborted, BeginMcp, CloseReturns
  <2>9. ASSUME StopReturns \/ UNCHANGED vars \/ \E x \in Sessions : Purge(x) PROVE session' = session
    BY <2>9 DEF StopReturns, vars, Purge
  <2> QED
    BY <2>1, <2>2, <2>3, <2>4, <2>5, <2>6, <2>7, <2>8, <2>9
<1> QED
  BY <1>0, <1>1, <1>2, <1>3, TameOK

LEMMA BrowserFacts ==
  ASSUME TypeOK, QueueInv, BrowserInv, [Next]_vars
  PROVE  /\ CallTypes /\ SessionTypes /\ BrowserTypes /\ None \notin Owners /\ Owners = Sessions \cup Calls
         /\ (\A c \in Calls : CallOK(c) /\ Of[c] \in Sessions /\ c \notin Sessions /\ BrowserOK(c))
         /\ (\A r \in Sessions : SessionOK(r)) /\ signal \subseteq signal'
BY Parts, Symbols, QueueMoves, BrowserParts DEF QueueInv, Owners

\* A browser that is in nobody's hands is released.
LEMMA ReleaseUnused ==
  ASSUME BrowserTypes, BrowserInv, NEW h \in Owners, Unused(h), Release(h),
         Sessions \cap Calls = {}, None \notin Owners,
         handle' = handle, uses' = uses, signal \subseteq signal',
         \A d \in Calls : TameTask(d), \A s \in Sessions : TameSession(s),
         \A d \in Calls : raw'[d] = raw[d] \/ raw'[d] = "over",
         \A d \in Calls : raw'[d] = "showing" => d # h,
         \A d \in Calls : task'[d] \in {"off", "begin", "ensure"} => raw'[d] = raw[d],
         \A s \in Sessions : session'[s] = "showing" => s # h
  PROVE  BrowserInv'
<1>1. /\ \A x : (Unused(x) <=> Unused(x)') /\ SessionOfBrowser(x)' = SessionOfBrowser(x)
      /\ \A x \in Owners : x # h => (Usable(x)' <=> Usable(x))
  BY DEF Unused, Usable, SessionOfBrowser, Release, BrowserTypes
<1>2. ASSUME NEW s \in Sessions PROVE SessionOK(s)'
  <2>1. SessionOK(s) /\ (handle[s] # None => handle[s] \in Owners) /\ s \in Owners
    BY BrowserParts DEF BrowserTypes, Owners
  <2>2. handle[s] # h
    BY <2>1 DEF SessionOK, Unused
  <2> QED
    BY <1>1, <2>1, <2>2 DEF SessionOK, TameSession
<1>3. ASSUME NEW c \in Calls PROVE BrowserOK(c)'
  <2>1. BrowserOK(c) /\ uses[c] # h /\ c \in Owners /\ (uses[c] # None => uses[c] \in Owners)
    BY BrowserParts DEF BrowserTypes, Owners, Unused
  <2> QED
    BY <1>1, <2>1 DEF BrowserOK, TameTask
<1> QED
  BY <1>2, <1>3, BrowserParts DEF BrowserInv, SessionOK, BrowserOK

\* The browser of a session is recycled; the calls that use it have been told, or
\* have ended.
LEMMA RecycleOK ==
  ASSUME TypeOK, QueueInv, BrowserInv, [Next]_vars, NEW s \in Sessions, Recycle(s),
         UNCHANGED <<uses, raw, session>>, \A d \in Calls : TameTask(d),
         \A d \in Calls : Of[d] = s /\ task'[d] = "work" => d \in signal'
  PROVE  BrowserInv'
<1>0. /\ CallTypes /\ SessionTypes /\ BrowserTypes /\ None \notin Owners /\ Owners = Sessions \cup Calls
      /\ (\A c \in Calls : CallOK(c) /\ Of[c] \in Sessions /\ c \notin Sessions /\ BrowserOK(c))
      /\ (\A r \in Sessions : SessionOK(r)) /\ signal \subseteq signal'
  BY BrowserFacts
<1>1. CASE handle[s] = None
  BY <1>0, <1>1, TameOK DEF Recycle, TameSession
<1>2. CASE handle[s] # None
  <2> DEFINE h == handle[s]
  <2>1. /\ handle' = [handle EXCEPT ![s] = None] /\ browser' = [browser EXCEPT ![h] = "released"]
        /\ h \in Owners /\ SessionOfBrowser(h) = s
    BY <1>0, <1>2 DEF Recycle, Release, BrowserTypes, SessionOK
  <2>2. /\ \A x \in Owners : Unused(x) => Unused(x)' /\ x # h
        /\ \A x : SessionOfBrowser(x)' = SessionOfBrowser(x)
        /\ \A x \in Owners : x # h => (Usable(x)' <=> Usable(x))
    BY <1>0, <2>1 DEF Unused, Usable, SessionOfBrowser, BrowserTypes
  <2>3. ASSUME NEW x \in Sessions PROVE SessionOK(x)'
    <3>1. SessionOK(x) /\ (handle[x] # None => handle[x] \in Owners) /\ x \in Owners
      BY <1>0 DEF BrowserTypes
    <3>2. handle'[x] # None => handle'[x] = handle[x] /\ handle[x] # h
      BY <1>0, <2>1, <3>1 DEF SessionOK, BrowserTypes
    <3> QED
      BY <2>2, <3>1, <3>2 DEF SessionOK
  <2>4. ASSUME NEW c \in Calls PROVE BrowserOK(c)'
    <3>1. BrowserOK(c) /\ (uses[c] # None => uses[c] \in Owners) /\ c \in Owners
      BY <1>0 DEF BrowserTypes
    <3>2. uses[c] = h /\ uses[c] # None => Of[c] = s
      BY <2>1, <3>1 DEF BrowserOK
    <3> QED
      BY <1>0, <2>2, <3>1, <3>2 DEF BrowserOK, TameTask
  <2> QED
    BY <2>3, <2>4, BrowserParts DEF BrowserInv, SessionOK, BrowserOK
<1> QED
  BY <1>1, <1>2


LEMMA AcquiredOK ==
  ASSUME TypeOK, QueueInv, BrowserInv, [Next]_vars, NEW s \in Sessions, Acquired(s)
  PROVE  BrowserInv'
<1>0. /\ CallTypes /\ SessionTypes /\ BrowserTypes /\ None \notin Owners /\ Owners = Sessions \cup Calls
      /\ (\A c \in Calls : CallOK(c) /\ Of[c] \in Sessions /\ c \notin Sessions /\ BrowserOK(c))
      /\ (\A r \in Sessions : SessionOK(r)) /\ signal \subseteq signal'
  BY BrowserFacts
<1>1. /\ session[s] = "acquiring" /\ UNCHANGED <<handle, uses, raw, task>>
      /\ \A x \in Sessions : x # s => session'[x] = session[x]
      /\ \/ session'[s] = "showing" /\ browser' = [browser EXCEPT ![s] = "held"]
         \/ session'[s] = "gone" /\ browser' = browser
  BY <1>0 DEF Acquired, SessionTypes
<1>2. /\ \A x : (Unused(x) <=> Unused(x)') /\ SessionOfBrowser(x)' = SessionOfBrowser(x)
      /\ \A x \in Owners : Usable(x) => Usable(x)'
      /\ session'[s] = "showing" => Usable(s)'
  BY <1>0, <1>1 DEF Unused, Usable, SessionOfBrowser, BrowserTypes
<1>3. ASSUME NEW x \in Sessions PROVE SessionOK(x)'
  <2>1. SessionOK(x) /\ (handle[x] # None => handle[x] \in Owners) /\ x \in Owners
    BY <1>0 DEF BrowserTypes
  <2> QED
    BY <1>1, <1>2, <2>1 DEF SessionOK
<1>4. ASSUME NEW c \in Calls PROVE BrowserOK(c)'
  <2>1. BrowserOK(c) /\ (uses[c] # None => uses[c] \in Owners) /\ c \in Owners
    BY <1>0 DEF BrowserTypes
  <2> QED
    BY <1>0, <1>1, <1>2, <2>1 DEF BrowserOK
<1> QED
  BY <1>3, <1>4, BrowserParts DEF BrowserInv, SessionOK, BrowserOK

LEMMA ShownOK ==
  ASSUME TypeOK, QueueInv, BrowserInv, [Next]_vars, NEW s \in Sessions, Shown(s)
  PROVE  BrowserInv'
<1>0. /\ CallTypes /\ SessionTypes /\ BrowserTypes /\ None \notin Owners /\ Owners = Sessions \cup Calls
      /\ (\A c \in Calls : CallOK(c) /\ Of[c] \in Sessions /\ c \notin Sessions /\ BrowserOK(c))
      /\ (\A r \in Sessions : SessionOK(r)) /\ signal \subseteq signal'
  BY BrowserFacts
<1>1. /\ session[s] = "showing" /\ UNCHANGED <<uses, raw, task>> /\ Unused(s) /\ Usable(s)
      /\ \A x \in Sessions : x # s => session'[x] = session[x]
      /\ session'[s] \in {"open", "gone"}
  BY <1>0 DEF Shown, Register, SessionTypes, SessionOK
<1>2. CASE handle' = [handle EXCEPT ![s] = s] /\ browser' = browser
  <2>1. /\ \A x \in Owners : Unused(x) /\ x # s => Unused(x)'
        /\ \A x : SessionOfBrowser(x)' = SessionOfBrowser(x) /\ (Usable(x)' <=> Usable(x))
        /\ SessionOfBrowser(s) = s
    BY <1>0, <1>1, <1>2 DEF Unused, Usable, SessionOfBrowser, BrowserTypes
  <2>2. ASSUME NEW x \in Sessions PROVE SessionOK(x)'
    <3>1. SessionOK(x) /\ x \in Owners /\ (x # s => handle'[x] = handle[x]) /\ handle'[s] = s
      BY <1>0, <1>2 DEF BrowserTypes
    <3> QED
      BY <1>1, <2>1, <3>1 DEF SessionOK
  <2>3. ASSUME NEW c \in Calls PROVE BrowserOK(c)'
    BY <1>0, <1>1, <2>1 DEF BrowserOK
  <2> QED
    BY <2>2, <2>3, BrowserParts DEF BrowserInv, SessionOK, BrowserOK
<1>3. CASE Release(s) /\ handle' = handle
  <2>1. \A d \in Calls : TameTask(d) /\ d # s
    BY <1>0, <1>1 DEF TameTask
  <2>2. \A x \in Sessions : TameSession(x) /\ (session'[x] = "showing" => x # s)
    BY <1>1 DEF TameSession
  <2>3. s \in Owners /\ Sessions \cap Calls = {}
    BY <1>0
  <2> QED
    BY <1>0, <1>1, <1>3, <2>1, <2>2, <2>3, ReleaseUnused
<1> QED
  BY <1>2, <1>3 DEF Shown

LEMMA DrainedOK ==
  ASSUME TypeOK, QueueInv, CleanupInv, BrowserInv, [Next]_vars, NEW s \in Sessions, Drained(s)
  PROVE  BrowserInv'
<1>0. /\ CallTypes /\ SessionTypes /\ BrowserTypes /\ None \notin Owners /\ Owners = Sessions \cup Calls
      /\ (\A c \in Calls : CallOK(c) /\ Of[c] \in Sessions /\ c \notin Sessions /\ BrowserOK(c))
      /\ (\A r \in Sessions : SessionOK(r)) /\ signal \subseteq signal'
  BY BrowserFacts
<1>1. Recycle(s) /\ UNCHANGED <<uses, raw, session, task>> /\ cleanup[s] # "no"
  BY DEF Drained
<1>2. \A d \in Calls : TameTask(d)
  BY <1>1 DEF TameTask
<1>3. \A d \in Calls : Of[d] = s /\ task'[d] = "work" => d \in signal'
  BY <1>0, <1>1 DEF CleanupInv, Live
<1> QED
  BY <1>1, <1>2, <1>3, RecycleOK

LEMMA CrashOK ==
  ASSUME TypeOK, QueueInv, BrowserInv, [Next]_vars, NEW h \in Owners, Crash(h)
  PROVE  BrowserInv'
<1>0. /\ CallTypes /\ SessionTypes /\ BrowserTypes /\ None \notin Owners /\ Owners = Sessions \cup Calls
      /\ (\A c \in Calls : CallOK(c) /\ Of[c] \in Sessions /\ c \notin Sessions /\ BrowserOK(c))
      /\ (\A r \in Sessions : SessionOK(r)) /\ signal \subseteq signal'
  BY BrowserFacts
<1>1. UNCHANGED <<handle, uses, raw, session, task>> /\ browser' = [browser EXCEPT ![h] = "closed"]
  BY DEF Crash
<1>2. /\ \A x : (Unused(x) <=> Unused(x)') /\ SessionOfBrowser(x)' = SessionOfBrowser(x)
      /\ \A x \in Owners : Usable(x) => Usable(x)'
  BY <1>0, <1>1 DEF Unused, Usable, SessionOfBrowser, BrowserTypes
<1>3. ASSUME NEW x \in Sessions PROVE SessionOK(x)'
  <2>1. SessionOK(x) /\ (handle[x] # None => handle[x] \in Owners) /\ x \in Owners
    BY <1>0 DEF BrowserTypes
  <2> QED
    BY <1>1, <1>2, <2>1 DEF SessionOK
<1>4. ASSUME NEW c \in Calls PROVE BrowserOK(c)'
  <2>1. BrowserOK(c) /\ (uses[c] # None => uses[c] \in Owners) /\ c \in Owners
    BY <1>0 DEF BrowserTypes
  <2> QED
    BY <1>0, <1>1, <1>2, <2>1 DEF BrowserOK
<1> QED
  BY <1>3, <1>4, BrowserParts DEF BrowserInv, SessionOK, BrowserOK

\* A task begins to work with its session's browser, if there is one.
LEMMA UseOK ==
  ASSUME TypeOK, QueueInv, BrowserInv, [Next]_vars, NEW c \in Calls, Live(c),
         Do(c, "work"), uses' = [uses EXCEPT ![c] = handle[Of[c]]],
         UNCHANGED <<handle, raw, browser, session>>
  PROVE  BrowserInv'
<1>0. /\ CallTypes /\ SessionTypes /\ BrowserTypes /\ None \notin Owners /\ Owners = Sessions \cup Calls
      /\ (\A d \in Calls : CallOK(d) /\ Of[d] \in Sessions /\ d \notin Sessions /\ BrowserOK(d))
      /\ (\A r \in Sessions : SessionOK(r)) /\ signal \subseteq signal'
  BY BrowserFacts
<1> DEFINE h == handle[Of[c]]
<1>1. /\ uses'[c] = h /\ task'[c] = "work" /\ (h # None => h \in Owners /\ SessionOfBrowser(h) = Of[c] /\ Usable(h))
      /\ \A d \in Calls : d # c => uses'[d] = uses[d] /\ task'[d] = task[d]
  BY <1>0 DEF Do, CallTypes, BrowserTypes, SessionOK
<1>2. ASSUME NEW x \in Owners, Unused(x) PROVE Unused(x)'
  <2>1. h # x
    BY <1>0, <1>1, <1>2 DEF Unused
  <2> QED
    BY <1>1, <1>2, <2>1 DEF Unused, SessionOfBrowser
<1>3. \A x : (Usable(x) <=> Usable(x)') /\ SessionOfBrowser(x)' = SessionOfBrowser(x)
  BY DEF Usable, SessionOfBrowser
<1>4. ASSUME NEW x \in Sessions PROVE SessionOK(x)'
  BY <1>0, <1>2, <1>3 DEF SessionOK
<1>5. ASSUME NEW d \in Calls PROVE BrowserOK(d)'
  BY <1>0, <1>1, <1>2, <1>3 DEF BrowserOK
<1> QED
  BY <1>4, <1>5, BrowserParts DEF BrowserInv, SessionOK, BrowserOK

\* The task of a call settles.
LEMMA SettleTame ==
  ASSUME CallTypes, QueueInv, NEW c \in Calls, Live(c), NEW l \in {"answered", "remove"}, Settle(c, l)
  PROVE  (\A d \in Calls : TameTask(d)) /\ task'[c] = "ended"
BY SettleEffect DEF Settled, TameTask, CallTypes

LEMMA SettleTameOK ==
  ASSUME TypeOK, QueueInv, BrowserInv, [Next]_vars,
         NEW c \in Calls, Live(c), NEW l \in {"answered", "remove"}, Settle(c, l),
         UNCHANGED <<session, handle, uses, raw, browser>>
  PROVE  BrowserInv'
<1>1. CallTypes /\ signal \subseteq signal'
  BY BrowserFacts
<1>2. \A s \in Sessions : TameSession(s)
  BY DEF TameSession
<1> QED
  BY <1>1, <1>2, SettleTame, TameOK


LEMMA BeginRestOK ==
  ASSUME TypeOK, QueueInv, BrowserInv, [Next]_vars, NEW c \in Calls, BeginRest(c)
  PROVE  BrowserInv'
<1>0. /\ CallTypes /\ SessionTypes /\ BrowserTypes /\ None \notin Owners /\ Owners = Sessions \cup Calls
      /\ (\A d \in Calls : CallOK(d) /\ Of[d] \in Sessions /\ d \notin Sessions /\ BrowserOK(d))
      /\ (\A r \in Sessions : SessionOK(r)) /\ signal \subseteq signal'
  BY BrowserFacts
<1>1. Live(c) /\ UNCHANGED <<handle, raw, browser, session>>
  BY DEF BeginRest, Live
<1>2. CASE Settle(c, "answered") /\ uses' = uses
  BY <1>1, <1>2, SettleTameOK
<1>3. CASE Do(c, "work") /\ uses' = [uses EXCEPT ![c] = handle[Of[c]]]
  BY <1>1, <1>3, UseOK
<1> QED
  BY <1>2, <1>3 DEF BeginRest


LEMMA EnsureOK ==
  ASSUME TypeOK, QueueInv, BrowserInv, [Next]_vars, NEW c \in Calls, Ensure(c)
  PROVE  BrowserInv'
<1>0. /\ CallTypes /\ SessionTypes /\ BrowserTypes /\ None \notin Owners /\ Owners = Sessions \cup Calls
      /\ (\A d \in Calls : CallOK(d) /\ Of[d] \in Sessions /\ d \notin Sessions /\ BrowserOK(d))
      /\ (\A r \in Sessions : SessionOK(r)) /\ signal \subseteq signal'
  BY BrowserFacts
<1>1. Live(c) /\ task[c] = "ensure" /\ session' = session
  BY DEF Ensure, Live
<1>2. CASE Settle(c, "answered") /\ UNCHANGED <<handle, uses, raw, browser>>
  BY <1>1, <1>2, SettleTameOK
<1>3. CASE Do(c, "work") /\ uses' = [uses EXCEPT ![c] = handle[Of[c]]] /\ UNCHANGED <<handle, raw, browser>>
  BY <1>1, <1>3, UseOK
<1>4. CASE Recycle(Of[c]) /\ UNCHANGED <<task, uses, raw>>
  <2>1. \A d \in Calls : TameTask(d)
    BY <1>4 DEF TameTask
  <2>2. \A d \in Calls : Of[d] = Of[c] /\ task'[d] = "work" => d \in signal'
    BY <1>1, <1>4 DEF QueueInv, OneTask, Live
  <2> QED
    BY <1>0, <1>1, <1>4, <2>1, <2>2, RecycleOK
<1>5. CASE Do(c, "await") /\ raw' = [raw EXCEPT ![c] = "acquiring"] /\ UNCHANGED <<handle, uses, browser>>
  <2>1. /\ \A d \in Calls : d # c => task'[d] = task[d] /\ raw'[d] = raw[d]
        /\ task'[c] = "await" /\ raw'[c] = "acquiring"
    BY <1>0, <1>5 DEF Do, CallTypes, BrowserTypes
  <2>2. \A x : (Unused(x) <=> Unused(x)') /\ (Usable(x) <=> Usable(x)') /\ SessionOfBrowser(x)' = SessionOfBrowser(x)
    BY <1>5 DEF Unused, Usable, SessionOfBrowser
  <2>3. ASSUME NEW x \in Sessions PROVE SessionOK(x)'
    BY <1>0, <1>1, <1>5, <2>2 DEF SessionOK
  <2>4. ASSUME NEW d \in Calls PROVE BrowserOK(d)'
    BY <1>0, <1>1, <1>5, <2>1, <2>2 DEF BrowserOK
  <2> QED
    BY <2>3, <2>4, BrowserParts DEF BrowserInv, SessionOK, BrowserOK
<1> QED
  BY <1>2, <1>3, <1>4, <1>5 DEF Ensure


LEMMA WorkEndsOK ==
  ASSUME TypeOK, QueueInv, BrowserInv, [Next]_vars, NEW c \in Calls, WorkEnds(c)
  PROVE  BrowserInv'
<1>0. /\ CallTypes /\ SessionTypes /\ BrowserTypes /\ None \notin Owners /\ Owners = Sessions \cup Calls
      /\ (\A d \in Calls : CallOK(d) /\ Of[d] \in Sessions /\ d \notin Sessions /\ BrowserOK(d))
      /\ (\A r \in Sessions : SessionOK(r)) /\ signal \subseteq signal'
  BY BrowserFacts
<1>1. task[c] = "work" /\ Live(c) /\ UNCHANGED <<session, uses, raw>>
  BY DEF WorkEnds, Live
<1>2. ASSUME NEW l \in {"answered", "remove"}, Settle(c, l), UNCHANGED <<handle, browser>> PROVE BrowserInv'
  BY <1>1, <1>2, SettleTameOK
<1>3. CASE Settle(c, "answered") /\ Recycle(Of[c])
  <2>1. (\A d \in Calls : TameTask(d)) /\ task'[c] = "ended"
    BY <1>0, <1>1, <1>3, SettleTame
  <2>2. ASSUME NEW d \in Calls, Of[d] = Of[c], task'[d] = "work" PROVE d \in signal'
    <3>1. task[d] = "work" \/ task[d] = "begin"
      BY <2>1, <2>2 DEF TameTask
    <3>2. d = c
      BY <1>1, <2>2, <3>1 DEF QueueInv, OneTask, Live
    <3> QED
      BY <2>1, <2>2, <3>2
  <2> QED
    BY <1>0, <1>1, <1>3, <2>1, <2>2, RecycleOK
<1> QED
  BY <1>2, <1>3 DEF WorkEnds


\* An acquire is over, and its browser, if there was one, is released.
LEMMA RawFailsOK ==
  ASSUME TypeOK, QueueInv, BrowserInv, [Next]_vars, NEW c \in Calls, raw[c] \in {"acquiring", "showing"},
         RawFails(c), session' = session, browser' = browser \/ Release(c)
  PROVE  BrowserInv'
<1>0. /\ CallTypes /\ SessionTypes /\ BrowserTypes /\ None \notin Owners /\ Owners = Sessions \cup Calls
      /\ (\A d \in Calls : CallOK(d) /\ Of[d] \in Sessions /\ d \notin Sessions /\ BrowserOK(d))
      /\ (\A r \in Sessions : SessionOK(r)) /\ signal \subseteq signal'
  BY BrowserFacts
<1>1. /\ Unused(c) /\ task[c] \notin {"off", "begin", "ensure"} /\ UNCHANGED <<handle, uses>>
      /\ raw'[c] = "over" /\ \A d \in Calls : d # c => raw'[d] = raw[d]
  BY <1>0 DEF RawFails, BrowserOK, BrowserTypes
<1>2. (\A d \in Calls : TameTask(d)) /\ task'[c] \notin {"off", "begin", "ensure"}
  <2>1. CASE task' = task
    BY <1>1, <2>1 DEF TameTask
  <2>2. CASE task[c] = "await" /\ Settle(c, "answered")
    BY <1>0, <2>2, SettleTame DEF Live
  <2> QED
    BY <2>1, <2>2 DEF RawFails
<1>3. \A s \in Sessions : TameSession(s) /\ s # c
  BY <1>0 DEF TameSession
<1>4. CASE Release(c)
  <2>1. /\ c \in Owners /\ Sessions \cap Calls = {}
        /\ \A d \in Calls : raw'[d] = raw[d] \/ raw'[d] = "over"
        /\ \A d \in Calls : raw'[d] = "showing" => d # c
        /\ \A d \in Calls : task'[d] \in {"off", "begin", "ensure"} => raw'[d] = raw[d]
        /\ \A s \in Sessions : session'[s] = "showing" => s # c
    BY <1>0, <1>1, <1>2
  <2> QED
    BY <1>0, <1>1, <1>2, <1>3, <1>4, <2>1, ReleaseUnused
<1>5. CASE browser' = browser
  <2>1. \A x : (Unused(x) <=> Unused(x)') /\ (Usable(x) <=> Usable(x)') /\ SessionOfBrowser(x)' = SessionOfBrowser(x)
    BY <1>1, <1>5 DEF Unused, Usable, SessionOfBrowser
  <2>2. ASSUME NEW x \in Sessions PROVE SessionOK(x)'
    BY <1>0, <1>1, <2>1 DEF SessionOK
  <2>3. ASSUME NEW d \in Calls PROVE BrowserOK(d)'
    BY <1>0, <1>1, <1>2, <2>1 DEF BrowserOK, TameTask
  <2> QED
    BY <2>2, <2>3, BrowserParts DEF BrowserInv, SessionOK, BrowserOK
<1> QED
  BY <1>4, <1>5


LEMMA RawAcquiredOK ==
  ASSUME TypeOK, QueueInv, BrowserInv, [Next]_vars, NEW c \in Calls, RawAcquired(c)
  PROVE  BrowserInv'
<1>0. /\ CallTypes /\ SessionTypes /\ BrowserTypes /\ None \notin Owners /\ Owners = Sessions \cup Calls
      /\ (\A d \in Calls : CallOK(d) /\ Of[d] \in Sessions /\ d \notin Sessions /\ BrowserOK(d))
      /\ (\A r \in Sessions : SessionOK(r)) /\ signal \subseteq signal'
  BY BrowserFacts
<1>1. raw[c] = "acquiring" /\ session' = session
  BY DEF RawAcquired
<1>2. CASE RawFails(c) /\ (browser' = browser \/ Release(c))
  BY <1>1, <1>2, RawFailsOK
<1>3. CASE /\ raw' = [raw EXCEPT ![c] = "showing"] /\ browser' = [browser EXCEPT ![c] = "held"]
           /\ UNCHANGED <<handle, task, uses>>
  <2>1. /\ \A d \in Calls : d # c => raw'[d] = raw[d]
        /\ raw'[c] = "showing" /\ Usable(c)'
        /\ \A x \in Owners : Usable(x) => Usable(x)'
        /\ \A x : (Unused(x) <=> Unused(x)') /\ SessionOfBrowser(x)' = SessionOfBrowser(x)
    BY <1>0, <1>3 DEF Unused, Usable, SessionOfBrowser, BrowserTypes
  <2>2. ASSUME NEW x \in Sessions PROVE SessionOK(x)'
    <3>1. (handle[x] # None => handle[x] \in Owners) /\ x \in Owners
      BY <1>0 DEF BrowserTypes
    <3> QED
      BY <1>0, <1>1, <1>3, <2>1, <3>1 DEF SessionOK
  <2>3. ASSUME NEW d \in Calls PROVE BrowserOK(d)'
    <3>1. (uses[d] # None => uses[d] \in Owners) /\ d \in Owners
      BY <1>0 DEF BrowserTypes
    <3> QED
      BY <1>0, <1>1, <1>3, <2>1, <3>1 DEF BrowserOK
  <2> QED
    BY <2>2, <2>3, BrowserParts DEF BrowserInv, SessionOK, BrowserOK
<1> QED
  BY <1>2, <1>3 DEF RawAcquired


LEMMA RawShownOK ==
  ASSUME TypeOK, QueueInv, BrowserInv, [Next]_vars, NEW c \in Calls, RawShown(c)
  PROVE  BrowserInv'
<1>0. /\ CallTypes /\ SessionTypes /\ BrowserTypes /\ None \notin Owners /\ Owners = Sessions \cup Calls
      /\ (\A d \in Calls : CallOK(d) /\ Of[d] \in Sessions /\ d \notin Sessions /\ BrowserOK(d))
      /\ (\A r \in Sessions : SessionOK(r)) /\ signal \subseteq signal'
  BY BrowserFacts
<1>1. raw[c] = "showing" /\ session' = session
  BY DEF RawShown
<1>2. CASE RawFails(c) /\ Release(c)
  BY <1>1, <1>2, RawFailsOK
<1>3. ASSUME raw' = [raw EXCEPT ![c] = "over"], handle' = [handle EXCEPT ![Of[c]] = c], browser' = browser,
             \/ task[c] = "await" /\ Do(c, "work") /\ uses' = [uses EXCEPT ![c] = c]
             \/ UNCHANGED <<task, uses>>
      PROVE  BrowserInv'
  <2>1. /\ \A d \in Calls : d # c => raw'[d] = raw[d] /\ task'[d] = task[d] /\ uses'[d] = uses[d]
        /\ raw'[c] = "over" /\ ((task'[c] = "work" /\ uses'[c] = c) \/ (task'[c] = task[c] /\ uses'[c] = uses[c]))
        /\ handle'[Of[c]] = c /\ \A x \in Sessions : x # Of[c] => handle'[x] = handle[x]
    BY <1>0, <1>3 DEF Do, CallTypes, BrowserTypes
  <2>2. Usable(c) /\ SessionOfBrowser(c) = Of[c] /\ task[c] \notin {"off", "begin", "ensure"}
    BY <1>0, <1>1 DEF BrowserOK, SessionOfBrowser
  <2>3. \A x : (Usable(x)' <=> Usable(x)) /\ SessionOfBrowser(x)' = SessionOfBrowser(x)
    BY <1>3 DEF Usable, SessionOfBrowser
  <2>4. ASSUME NEW x \in Owners, x # c, Unused(x) PROVE Unused(x)'
    <3>1. SessionOfBrowser(x) \in Sessions
      BY <1>0 DEF SessionOfBrowser
    <3>2. handle'[SessionOfBrowser(x)] # x
      BY <2>1, <2>4, <3>1 DEF Unused
    <3>3. \A d \in Calls : uses'[d] # x
      BY <2>1, <2>4 DEF Unused
    <3> QED
      BY <2>3, <3>2, <3>3 DEF Unused
  <2>5. ASSUME NEW x \in Sessions PROVE SessionOK(x)'
    <3>1. handle'[x] = handle[x] \/ (x = Of[c] /\ handle'[x] = c)
      BY <2>1
    <3> QED
      BY <1>0, <1>1, <2>2, <2>3, <2>4, <3>1 DEF SessionOK
  <2>6. ASSUME NEW d \in Calls PROVE BrowserOK(d)'
    <3>1. CASE d = c
      BY <1>0, <2>1, <2>2, <2>3, <3>1 DEF BrowserOK
    <3>2. CASE d # c
      BY <1>0, <2>1, <2>3, <2>4, <3>2 DEF BrowserOK
    <3> QED
      BY <3>1, <3>2
  <2> QED
    BY <2>5, <2>6, BrowserParts DEF BrowserInv, SessionOK, BrowserOK
<1> QED
  BY <1>2, <1>3 DEF RawShown


LEMMA BrowserInvStep ==
  ASSUME TypeOK, QueueInv, CleanupInv, BrowserInv, [Next]_vars
  PROVE  BrowserInv'
<1>1. ASSUME NEW c \in Calls,
             \/ Prune(c) \/ Reserve(c) \/ Insert(c) \/ Remove(c) \/ Store(c)
             \/ QueryFails(c) \/ Request(c)
             \/ TaskStarts(c) \/ TaskRefused(c) \/ TaskTimesOut(c)
             \/ TaskGivenUp(c) \/ TaskAborted(c)
             \/ BeginMcp(c) \/ CloseOther(c) \/ CloseReturns(c) \/ Flush(c)
      PROVE  BrowserInv'
  BY <1>1, TameSteps
<1>2. ASSUME NEW s \in Sessions, Create(s) \/ Initialize(s) \/ Delete(s) \/ Sweep(s) \/ Purge(s)
      PROVE  BrowserInv'
  BY <1>2, TameSteps
<1>3. ASSUME Stop \/ StopReturns \/ UNCHANGED vars PROVE BrowserInv'
  BY <1>3, TameSteps
<1> QED
  BY <1>1, <1>2, <1>3, AcquiredOK, ShownOK, DrainedOK, CrashOK, BeginRestOK, EnsureOK, WorkEndsOK,
     RawAcquiredOK, RawShownOK
     DEF Next, ServerStep, Others

-----------------------------------------------------------------------------
LEMMA InitInv == Init => Inv
<1> SUFFICES ASSUME Init PROVE Inv
  OBVIOUS
<1>1. TypeOK
  BY DEF Init, QueueInit, TypeOK, QueueTypeOK, Executions, Cleanups, Handlers, Tasks
<1>2. QueueInv /\ CleanupInv
  BY Symbols DEF Init, QueueInit, QueueInv, CallOK, OneTask, Live, Runs, CleanupInv
<1>3. KeyInv
  BY Symbols DEF Init, QueueInit, KeyInv, KeyOK, Pends
<1>4. BrowserInv
  BY Symbols DEF Init, BrowserInv, Unused, SessionOfBrowser, Owners
<1> QED
  BY <1>1, <1>2, <1>3, <1>4 DEF Inv

LEMMA StepInv == Inv /\ [Next]_vars => Inv'
<1> SUFFICES ASSUME Inv, [Next]_vars PROVE Inv'
  OBVIOUS
<1>1. TypeOK /\ QueueInv /\ CleanupInv /\ KeyInv /\ BrowserInv /\ CallTypes
  BY Parts DEF Inv
<1>2. QueueInv' /\ CallTypes'
  BY <1>1, QueueStep
<1>3. TypeOK'
  BY <1>1, <1>2, SessionTypesKept, BrowserTypesKept, KeyTypesKept
     DEF TypeOK, CallTypes, SessionTypes, BrowserTypes, KeyTypes
<1> QED
  BY <1>1, <1>2, <1>3, CleanupStep, KeyInvStep, BrowserInvStep DEF Inv

\* The inductive invariant: the calls of a queue, the cleanup of a session, the
\* rights of a call to its key's row, and whose a browser is (HttpSessionManager).
THEOREM SessionsInv == Spec => []Inv
BY InitInv, StepInv, PTL DEF Spec

\* The variables have their types, whatever sessions, calls and keys there are.
THEOREM SessionTypesHold == Spec => []TypeOK
<1>1. Inv => TypeOK
  BY DEF Inv
<1> QED
  BY <1>1, SessionsInv, PTL

\* The tasks of a session never overlap, nor do those of an idempotency key, and none
\* works while the key's result is stored, in sessions whose id no other session
\* uses for a namespace (enqueueInvokeTask, reserve, set).
THEOREM CallsExclude == Spec => []TasksDoNotOverlap
<1>1. Inv => TasksDoNotOverlap
  <2> SUFFICES ASSUME Inv PROVE TasksDoNotOverlap
    OBVIOUS
  <2>1. \A c, d \in Calls : Of[c] = Of[d] /\ Live(c) /\ Live(d) => c = d
    BY DEF Inv, QueueInv, OneTask
  <2>2. ASSUME NEW k \in Keys, Fine(k)
        PROVE  LET working == {c \in Calls : KeyOf[c] = k /\ task[c] = "work"}
               IN Cardinality(working) <= 1 /\ (row[k] = "done" => working = {})
    <3> DEFINE working == {c \in Calls : KeyOf[c] = k /\ task[c] = "work"}
    <3>1. \A c \in working : c \in Calls /\ KeyOf[c] = k /\ Live(c) /\ (row[k] = c \/ Free(k))
      BY <2>2, Symbols DEF Inv, KeyInv, KeyOK, Live
    <3>2. ASSUME NEW c \in working, NEW d \in working PROVE c = d
      <4>1. CASE Dropped(k)
        <5>1. Of[c] = Of[d]
          BY <2>2, <3>1, <4>1, OneSession
        <5> QED
          BY <2>1, <3>1, <5>1
      <4>2. CASE ~Dropped(k)
        BY <3>1, <4>2 DEF Free
      <4> QED
        BY <4>1, <4>2
    <3>3. row[k] = "done" => working = {}
      BY <3>1, Symbols DEF Free
    <3>4. Cardinality(working) <= 1
      <4>1. CASE working = {}
        BY <4>1, FS_EmptySet
      <4>2. ASSUME NEW c \in working PROVE Cardinality(working) <= 1
        <5>1. working = {c}
          BY <3>2, <4>2
        <5> QED
          BY <5>1, FS_Singleton
      <4> QED
        BY <4>1, <4>2
    <3> QED
      BY <3>3, <3>4
  <2>3. ASSUME NEW k \in Keys, ~Fine(k) PROVE Borrowed(k) /\ Dropped(k)
    BY <2>3 DEF Fine
  <2> QED
    BY <2>1, <2>2, <2>3 DEF TasksDoNotOverlap, Live
<1> QED
  BY <1>1, SessionsInv, PTL

\* No browser is released while a task works with it that has not been told to stop
\* (cleanupMcpSession, cleanupOrchestrationSession, recycleSessionBrowserHandle).
THEOREM ToldBeforeRelease == Spec => []NotUnderCalls
<1>1. Inv => NotUnderCalls
  BY DEF Inv, BrowserInv, Usable, NotUnderCalls
<1> QED
  BY <1>1, SessionsInv, PTL
=============================================================================
