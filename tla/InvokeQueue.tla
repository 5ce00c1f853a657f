---------------------------- MODULE InvokeQueue ----------------------------
(***************************************************************************)
(* The invoke queue of a session (src/src/main/http-session-manager.ts):   *)
(* enqueueInvokeTask chains the calls of a session on one promise, so that *)
(* they execute one after the other.  A call that times out is aborted and *)
(* drained for 1500 ms; if it has not stopped by then the session is       *)
(* closed, which aborts the call that executes and refuses all others.     *)
(*                                                                         *)
(* The module holds the queue's own state.  HttpSessions adds the tasks,   *)
(* whose ends it ties to Finish, and the requests, which it answers.       *)
(***************************************************************************)
EXTENDS Naturals, Sequences

CONSTANTS
  Sessions,      \* session ids
  Calls,         \* invocations
  Of,            \* the session of each call
  MaxQueueSize   \* session.maxQueueSize, the same for every session

ASSUME QueueAssumption ==
  /\ Of \in [Calls -> Sessions]
  /\ MaxQueueSize \in Nat \ {0}

VARIABLES
  invokeQueue,   \* the calls chained on session.invokeQueue, first to last
  execution,     \* how far execute() of a call is
  signal,        \* calls whose invocation controller has been aborted
  closing,       \* sessions with the closing flag
  closeSignal    \* sessions whose closeController has been aborted

queueVars == <<invokeQueue, execution, signal, closing, closeSignal>>

Executions == {"none", "queued", "active", "draining", "over"}

QueueTypeOK ==
  /\ invokeQueue \in [Sessions -> Seq(Calls)]
  /\ execution \in [Calls -> Executions]
  /\ signal \subseteq Calls
  /\ closing \subseteq Sessions
  /\ closeSignal \subseteq Sessions

QueueInit ==
  /\ invokeQueue = [s \in Sessions |-> <<>>]
  /\ execution = [c \in Calls |-> "none"]
  /\ signal = {}
  /\ closing = {}
  /\ closeSignal = {}

-----------------------------------------------------------------------------
\* pendingInvocations counts the calls that are chained and not over.
Pending(s) == Len(invokeQueue[s])

\* The call with the session's activeInvocationController.
Executing(s) == {c \in Calls : Of[c] = s /\ execution[c] \in {"active", "draining"}}

\* Calls of these sessions that execute and have not been rejected yet.
Active(S) == {c \in Calls : Of[c] \in S /\ execution[c] = "active"}

\* enqueueInvokeTask chains the call, unless the queue is full.
Full(s) == Pending(s) >= MaxQueueSize

Enqueue(c) ==
  /\ ~Full(Of[c])
  /\ execution' = [execution EXCEPT ![c] = "queued"]
  /\ invokeQueue' = [invokeQueue EXCEPT ![Of[c]] = Append(@, c)]
  /\ UNCHANGED <<signal, closing, closeSignal>>

\* The call before it is over.
MyTurn(c) == execution[c] = "queued" /\ Head(invokeQueue[Of[c]]) = c

\* The finally block: the next call of the chain may execute.
Leave(c) ==
  /\ execution' = [execution EXCEPT ![c] = "over"]
  /\ invokeQueue' = [invokeQueue EXCEPT ![Of[c]] = Tail(@)]

\* execute() in a session that is being closed throws before it starts.
Closed(s) == s \in closing \cup closeSignal

Refuse(c) ==
  /\ MyTurn(c)
  /\ Closed(Of[c])
  /\ Leave(c)
  /\ UNCHANGED <<signal, closing, closeSignal>>

Start(c) ==
  /\ MyTurn(c)
  /\ ~Closed(Of[c])
  /\ execution' = [execution EXCEPT ![c] = "active"]
  /\ UNCHANGED <<invokeQueue, signal, closing, closeSignal>>

\* The task has settled, of itself or while it was drained.
Finish(c) ==
  IF execution[c] \in {"active", "draining"}
  THEN Leave(c) /\ UNCHANGED <<signal, closing, closeSignal>>
  ELSE UNCHANGED queueVars

\* waitForAbortableTask: the time limit aborts the call and rejects its answer.
TimeOut(c) ==
  /\ execution[c] = "active"
  /\ execution' = [execution EXCEPT ![c] = "draining"]
  /\ signal' = signal \cup {c}
  /\ UNCHANGED <<invokeQueue, closing, closeSignal>>

\* waitForTaskDrain gives the task up, and closes the session because of it.
NoClosing(s) == UNCHANGED <<closing, closeSignal>>  \* mutant: the session stays open
Closes(s) == closing' = closing \cup {s} /\ closeSignal' = closeSignal \cup {s}

NoGiveUp(c) == FALSE /\ Leave(c) /\ Closes(Of[c])  \* mutant: waits for the task
GiveUp(c) ==
  /\ execution[c] = "draining"
  /\ Leave(c)
  /\ Closes(Of[c])
  /\ UNCHANGED signal

\* abortSession, for a set of sessions: the call of each that executes is
\* aborted, and its answer rejected.
NoSignals(S) == UNCHANGED <<execution, signal>>  \* mutant: nobody is told
Signals(S) ==
  /\ signal' = signal \cup Active(S)
  /\ execution' = [c \in Calls |-> IF c \in Active(S) THEN "draining" ELSE execution[c]]

AbortSessions(S) ==
  /\ closing' = closing \cup S
  /\ closeSignal' = closeSignal \cup S
  /\ Signals(S)
  /\ UNCHANGED invokeQueue
=============================================================================
