----------------------------- MODULE RelayEvents -----------------------------
(***************************************************************************)
(* How what the extension observes in a tab reaches the main process: the  *)
(* service worker queues captured entries and posts them in batches, one   *)
(* batch at a time; a failed batch is put back; a start of the capture     *)
(* posts network-reset by itself, past the queue.                          *)
(* src/src/main/profile/extension-control-extension-background-prelude.ts  *)
(* (the queue), -command-network.ts (startNetworkCapture), the relay's     *)
(* handleEvent, and the list of entries in                                 *)
(* src/src/core/browser-automation/transport-backed-browser-base.ts.       *)
(*                                                                         *)
(* Entries are numbered in the order in which they are queued.  Each post  *)
(* has a connection of its own: two posts under way are read by the relay  *)
(* in either order, and one that fails for the worker has been read or     *)
(* never is.                                                               *)
(***************************************************************************)
EXTENDS Naturals, Sequences, FiniteSetsExt

CONSTANTS
  MaxBatch,   \* RELAY_EVENT_MAX_BATCH_SIZE
  Limit,      \* RELAY_EVENT_QUEUE_LIMIT
  MaxEvents,  \* bound: entries captured
  MaxFails    \* bound: posts that fail

ASSUME EventsAssumption ==
  /\ MaxBatch \in Nat \ {0} /\ Limit \in Nat /\ Limit >= MaxBatch
  /\ MaxEvents \in Nat /\ MaxFails \in Nat

VARIABLES
  made,             \* entries captured so far
  relayEventQueue,
  flushTimer,       \* relayEventFlushTimer is set
  batch,            \* relayEventFlushInFlight: the events being posted, or <<>>
  batchRead,        \* the relay has handled them
  dropped,          \* relayDroppedEventCount
  received,         \* entries the main process has been told of,
  newest,           \* the one it was told of last,
  networkEntries,   \* and those it shows
  start,            \* a start of the capture with clearExisting
  cleared,          \* entries captured when the worker cleared its own, if none
                    \* was on its way to the main process; else 0
  fails

queueVars == <<made, relayEventQueue, flushTimer, batch, batchRead, dropped>>
viewVars == <<received, newest, networkEntries>>
vars == <<queueVars, viewVars, start, cleared, fails>>

Events == 1..MaxEvents

TypeOK ==
  /\ made \in 0..MaxEvents
  /\ relayEventQueue \in Seq(Events) /\ Len(relayEventQueue) <= Limit
  /\ batch \in Seq(Events) /\ Len(batch) <= MaxBatch
  /\ flushTimer \in BOOLEAN /\ batchRead \in BOOLEAN
  /\ dropped \in Nat
  /\ received \subseteq Events /\ networkEntries \subseteq received
  /\ newest \in 0..MaxEvents
  /\ start \in {"none", "called", "posted", "read", "done", "failed"}
  /\ cleared \in 0..MaxEvents
  /\ fails \in 0..MaxFails

Init ==
  /\ made = 0
  /\ relayEventQueue = <<>> /\ flushTimer = FALSE
  /\ batch = <<>> /\ batchRead = FALSE
  /\ dropped = 0
  /\ received = {} /\ newest = 0 /\ networkEntries = {}
  /\ start = "none" /\ cleared = 0
  /\ fails = 0

-----------------------------------------------------------------------------
(* The queue.                                                              *)

\* scheduleRelayEventFlush, for the queue q and the batch b
Schedule(q, b) == flushTimer' = (flushTimer \/ (b = <<>> /\ q # <<>>))

\* flushQueuedRelayEvents, with the queue q: nothing while a batch is under way.
Flush(q) ==
  LET n == IF batch # <<>> THEN 0 ELSE Min({MaxBatch, Len(q)})
  IN /\ relayEventQueue' = SubSeq(q, n + 1, Len(q))
     /\ batch' = IF batch # <<>> THEN batch ELSE SubSeq(q, 1, n)
     /\ batchRead' = (batch # <<>> /\ batchRead)

\* handleNetworkEvent: an entry is captured; queueRelayEvent.
Capture ==
  /\ made < MaxEvents
  /\ made' = made + 1
  /\ LET q == Append(relayEventQueue, made + 1)
     IN \/ /\ Len(relayEventQueue) >= Limit
           /\ dropped' = dropped + 1
           /\ UNCHANGED <<relayEventQueue, flushTimer, batch, batchRead>>
        \/ /\ Len(relayEventQueue) < Limit /\ Len(q) >= MaxBatch
           /\ flushTimer' = FALSE
           /\ Flush(q)
           /\ UNCHANGED dropped
        \/ /\ Len(relayEventQueue) < Limit /\ Len(q) < MaxBatch
           /\ relayEventQueue' = q
           /\ Schedule(q, batch)
           /\ UNCHANGED <<batch, batchRead, dropped>>
  /\ UNCHANGED <<viewVars, start, cleared, fails>>

FlushTimer ==
  /\ flushTimer
  /\ flushTimer' = FALSE
  /\ Flush(relayEventQueue)
  /\ UNCHANGED <<made, dropped, viewVars, start, cleared, fails>>

\* mutant: only a batch that was delivered schedules the next.
ScheduleOnSuccess(q, delivered) ==
  IF delivered THEN Schedule(q, <<>>) ELSE UNCHANGED flushTimer
\* The finally of a flush: what is left in the queue q is scheduled.
ScheduleAfter(q, delivered) == Schedule(q, <<>>)

BatchDelivered ==
  /\ batch # <<>> /\ batchRead
  /\ batch' = <<>> /\ batchRead' = FALSE
  /\ ScheduleAfter(relayEventQueue, TRUE)
  /\ UNCHANGED <<made, relayEventQueue, dropped, viewVars, start, cleared, fails>>

\* The batch goes back before the queue q, the newest of it first, as far as the
\* limit allows.
\* mutant: it is put back from its oldest on.
PutBackReversed(q, b) ==
  LET n == Min({Len(b), Limit - Len(q)}) IN [i \in 1..n |-> b[n + 1 - i]] \o q
PutBack(q, b) ==
  LET n == Min({Len(b), Limit - Len(q)}) IN SubSeq(b, Len(b) - n + 1, Len(b)) \o q

\* mutant: what does not fit is counted as one event.
LostOne(q, b) == IF Len(b) + Len(q) > Limit THEN 1 ELSE 0
Lost(q, b) == Max({0, Len(b) + Len(q) - Limit})

BatchFails ==
  /\ batch # <<>> /\ fails < MaxFails
  /\ relayEventQueue' = PutBack(relayEventQueue, batch)
  /\ dropped' = dropped + Lost(relayEventQueue, batch)
  /\ batch' = <<>> /\ batchRead' = FALSE
  /\ ScheduleAfter(relayEventQueue', FALSE)
  /\ fails' = fails + 1
  /\ UNCHANGED <<made, viewVars, start, cleared>>

-----------------------------------------------------------------------------
(* The relay and the browser object of the main process.                   *)

InBatch == {batch[i] : i \in DOMAIN batch}
Queued == {relayEventQueue[i] : i \in DOMAIN relayEventQueue}

\* handleEvent: the events of the batch one by one; upsertNetworkEntry.
ReadBatch ==
  /\ batch # <<>> /\ ~batchRead
  /\ batchRead' = TRUE
  /\ received' = received \cup InBatch
  /\ networkEntries' = networkEntries \cup InBatch
  /\ newest' = batch[Len(batch)]
  /\ UNCHANGED <<made, relayEventQueue, flushTimer, batch, dropped, start, cleared,
                 fails>>

\* startNetworkCapture of the browser object: its list is emptied, and the
\* command sent.
StartCapture ==
  /\ start \in {"none", "done", "failed"}
  /\ start' = "called"
  /\ networkEntries' = {}
  /\ UNCHANGED <<queueVars, received, newest, cleared, fails>>

\* startNetworkCapture of the worker: its entries are cleared, and the reset
\* posted.
ClearEntries ==
  /\ start = "called"
  /\ start' = "posted"
  /\ cleared' = IF relayEventQueue = <<>> /\ batch = <<>> THEN made ELSE 0
  /\ UNCHANGED <<queueVars, viewVars, fails>>

\* mutant: the list of the main process stays.
NotEmptied == networkEntries
Emptied == {}

ReadReset ==
  /\ start = "posted"
  /\ start' = "read"
  /\ networkEntries' = Emptied
  /\ UNCHANGED <<queueVars, received, newest, cleared, fails>>

ResetDelivered ==
  /\ start = "read"
  /\ start' = "done"
  /\ UNCHANGED <<queueVars, viewVars, cleared, fails>>

\* The command fails with it.
ResetFails ==
  /\ start \in {"posted", "read"} /\ fails < MaxFails
  /\ start' = "failed"
  /\ fails' = fails + 1
  /\ UNCHANGED <<queueVars, viewVars, cleared>>

-----------------------------------------------------------------------------

BatchEnds == BatchDelivered \/ BatchFails
Clearing == ClearEntries \/ ReadReset \/ ResetDelivered \/ ResetFails

Next ==
  \/ Capture \/ FlushTimer
  \/ ReadBatch \/ BatchEnds
  \/ StartCapture \/ Clearing

Spec == Init /\ [][Next]_vars

\* Timers fire, and a post is read and answered, or fails.
FairSpec ==
  Spec /\ WF_vars(FlushTimer) /\ WF_vars(ReadBatch) /\ WF_vars(BatchEnds)
-----------------------------------------------------------------------------
(* Properties.                                                             *)

\* relayDroppedEventCount, which the diagnostics report, never hides a loss: the
\* entries that reach nobody are at most as many (queueRelayEvent and the catch
\* of flushQueuedRelayEvents).
Unheard == 1..made \ (received \cup Queued \cup InBatch)
LossesCounted == Cardinality(Unheard) <= dropped

\* Failures and re-deliveries keep the order: the last told is the newest told,
\* and nothing older that was never told is still to come (flushQueuedRelayEvents).
InOrder ==
  /\ \A e \in received : e <= newest
  /\ \A e \in Queued \cup InBatch : e < newest => e \in received

\* What is queued is being posted in the end, also when a batch fails and no
\* further entry is captured (scheduleRelayEventFlush).
QueueIsPosted == relayEventQueue # <<>> ~> batch # <<>>

\* A start that has cleared the capture shows nothing captured before ("Clear
\* previous capture state before starting"), unless entries were queued or being
\* posted then: the reset passes them by.
ClearedIsFresh == start = "done" => \A e \in networkEntries : e > cleared
=============================================================================
