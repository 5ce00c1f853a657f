----------------------------- MODULE ExtensionTab -----------------------------
(***************************************************************************)
(* A tab under the control extension: who keeps the debugger attached to   *)
(* it (NetworkTracking), and how what the debugger reports reaches the     *)
(* main process (RelayEvents).  They meet in the start of a capture, whose *)
(* post of network-reset decides whether the debugger is asked for at all, *)
(* and in the events, which are captured only while a start is served.     *)
(***************************************************************************)
EXTENDS RelayEvents

CONSTANT Scenes  \* bounds: a behaviour has the events, failures and commands of one

ASSUME ScenesAssumption ==
  Scenes \subseteq [events : 0..MaxEvents, fails : 0..MaxFails, others : BOOLEAN]

VARIABLES scene, enabled, users, cdpEnabled, debuggerAttached, console, attached,
          domain, pageDomain, inbox, run, capture, left

Tab == INSTANCE NetworkTracking

tabVars == <<scene, enabled, users, cdpEnabled, debuggerAttached, console, attached,
             domain, pageDomain, inbox, run, capture, left>>

TabInit == scene \in Scenes /\ Init /\ Tab!Init

\* handleNetworkEvent: an event of the capture, which Chrome may have reported
\* before it was told to stop.
Observe ==
  /\ enabled /\ users > 0 /\ (domain \/ inbox # <<>>)
  /\ Capture
  /\ UNCHANGED tabVars

\* startNetworkCapture: the entries are cleared, network-reset is posted, and the
\* command goes on, or fails with the post.
Clear == ClearEntries /\ Tab!Start(TRUE)
Cleared == ResetDelivered /\ Tab!StartPosted(TRUE)
NotCleared == ResetFails /\ Tab!StartPosted(FALSE)

\* What the queue, the relay and the main process do by themselves.
Posting == UNCHANGED tabVars /\ (FlushTimer \/ ReadBatch \/ BatchEnds)
Relayed == UNCHANGED tabVars /\ (StartCapture \/ ReadReset)

TabStep ==
  /\ UNCHANGED <<vars, scene>>
  /\ \/ Tab!Start(FALSE) \/ Tab!Stop \/ Tab!Answers
     \/ scene.others /\ Tab!Others

TabNext ==
  /\ \/ Observe
     \/ UNCHANGED scene /\ (Clear \/ Cleared \/ NotCleared)
     \/ Posting \/ Relayed
     \/ TabStep
  /\ made' <= scene.events /\ fails' <= scene.fails

TabSpec ==
  /\ TabInit /\ [][TabNext]_<<vars, tabVars>>
  /\ WF_<<vars, tabVars>>(Posting /\ fails' <= scene.fails)
-----------------------------------------------------------------------------
(* Properties: those of the events, and those of the debugger.             *)

\* Once nothing is under way, the count, the flag and Chrome agree, and the debugger
\* is attached only if something wants it, or left it so for a dialog or in a failed
\* navigation, though an event's post makes a start of the capture fail
\* (acquireNetworkTracking, detachDebuggerIfIdle, onDetach).
DebuggerSettles == Tab!UsersBalanced /\ Tab!FlagIsTrue /\ Tab!NothingLeftAttached

\* A capture that has been started with success is served (startNetworkCapture).
CaptureIsServed == Tab!CaptureIsServed

\* The main process hears of the entries in order, and of the loss of those that it
\* never hears of; and what it heard before a clearing start, it shows no longer
\* (queueRelayEvent, flushQueuedRelayEvents, startNetworkCapture).
EventsAreHeard == InOrder /\ LossesCounted /\ ClearedIsFresh
=============================================================================
