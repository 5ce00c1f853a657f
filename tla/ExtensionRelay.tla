---------------------------- MODULE ExtensionRelay ----------------------------
(***************************************************************************)
(* The relay through which a Chromium extension is remote-controlled: the  *)
(* main process queues commands, the extension's offscreen page fetches    *)
(* them by long polling, has its service worker execute them one at a time *)
(* and posts the results; and the launch and the closing of that browser.  *)
(* src/src/main/profile/extension-control-relay.ts,                        *)
(* extension-control-extension-bundle.ts (the page),                       *)
(* browser-pool-integration-extension.ts (launch and closing).             *)
(*                                                                         *)
(* Relay and page talk over HTTP connections that may break.  The page has *)
(* one request under way (wire); a request whose connection broke before   *)
(* the relay read it may still be read (strays), and the relay does not    *)
(* notice that a poll it keeps waiting is dead.                            *)
(*                                                                         *)
(* Commands are numbered in the order of their dispatch; the last is the   *)
(* one that cleanup() sends.  Time is abstract: a timer may fire whenever  *)
(* it is set.  Events of the extension are in RelayEvents.                 *)
(***************************************************************************)
EXTENDS Naturals, Sequences

CONSTANTS
  Last,       \* number of the command cleanup() sends
  MaxBreaks   \* bound: broken connections and reloads of the page

ASSUME RelayAssumption == Last \in Nat \ {0} /\ MaxBreaks \in Nat

Commands == 1..Last
Nothing == 0   \* no command

VARIABLES
  call,          \* command -> the promise of dispatchCommand
  commandQueue,
  pendingPoll,   \* the poll kept waiting: "none", of a "live" connection or "dead"
  server,        \* "up", "closing" after stop(), "closed" when stop() returns
  page,          \* where the page's loop stands
  wire,          \* the page's request: "none", "sent", "parked", or its answer
  current,       \* the command the page was given last
  strays,        \* requests of broken connections the relay has still to read
  outcome,       \* command -> how its execution by the service worker stands
  chrome,        \* "up", "killed" (will exit), "gone"
  launch,        \* the factory: "waiting" for the client, "ready", "failed"
  cleanup,       \* how far cleanup() is
  breaks

relayVars == <<call, commandQueue, pendingPoll, server>>
pageVars == <<page, wire, current>>
launchVars == <<chrome, launch, cleanup>>
controlVars == <<relayVars, pageVars, strays, outcome, launchVars, breaks>>

Calls == {"none", "open", "resolved", "rejected", "timed out", "stopped"}
Answers == {"ok", "empty", "gone", "command"}
Requests == [kind : {"register", "poll", "result"}, cmd : Commands \cup {Nothing},
             break : 0..MaxBreaks]

RelayTypeOK ==
  /\ call \in [Commands -> Calls]
  /\ commandQueue \in Seq(Commands)
  /\ pendingPoll \in {"none", "live", "dead"}
  /\ server \in {"up", "closing", "closed"}
  /\ page \in {"register", "registering", "poll", "polling", "exec", "post",
               "posting", "sleep", "ended"}
  /\ wire \in {"none", "sent", "parked"} \cup Answers
  /\ current \in Commands \cup {Nothing}
  /\ strays \subseteq Requests
  /\ outcome \in [Commands -> {"none", "running", "ok", "error"}]
  /\ chrome \in {"up", "killed", "gone"}
  /\ launch \in {"waiting", "ready", "failed"}
  /\ cleanup \in {"no", "ask", "linger", "kill", "stop", "done"}
  /\ breaks \in 0..MaxBreaks

RelayInit ==
  /\ call = [c \in Commands |-> "none"]
  /\ commandQueue = <<>>
  /\ pendingPoll = "none"
  /\ server = "up"
  /\ page = "register"
  /\ wire = "none"
  /\ current = Nothing
  /\ strays = {}
  /\ outcome = [c \in Commands |-> "none"]
  /\ chrome = "up"
  /\ launch = "waiting"
  /\ cleanup = "no"
  /\ breaks = 0

-----------------------------------------------------------------------------
(* The relay: commands.                                                    *)

\* mutant: the queue's head is handed out and left in the queue.
RestPeeked(q) == q
Rest(q) == Tail(q)

\* flushPendingPoll, with the queue q: the poll kept waiting gets its head.
Flushes(q) == pendingPoll # "none" /\ q # <<>>
FlushQueue(q) ==
  /\ commandQueue' = IF Flushes(q) THEN Rest(q) ELSE q
  /\ pendingPoll' = IF Flushes(q) THEN "none" ELSE pendingPoll
Flushed(q) == Flushes(q) /\ pendingPoll = "live"

Dispatched(c) == c = 0 \/ call[c] # "none"

Enqueue(c) ==
  /\ call' = [call EXCEPT ![c] = "open"]
  /\ LET q == Append(commandQueue, c)
     IN /\ FlushQueue(q)
        /\ wire' = IF Flushed(q) THEN "command" ELSE wire
        /\ current' = IF Flushed(q) THEN Head(q) ELSE current

\* A call of the browser's user; closeInternal() ends them.
Dispatch(c) ==
  /\ launch = "ready" /\ cleanup = "no" /\ server = "up"
  /\ c < Last /\ ~Dispatched(c) /\ (c > 1 => Dispatched(c - 1))
  /\ Enqueue(c)
  /\ UNCHANGED <<server, page, strays, outcome, launchVars, breaks>>

\* The command is forgotten as pending, and stays in the queue.
CommandTimeout(c) ==
  /\ call[c] = "open"
  /\ call' = [call EXCEPT ![c] = "timed out"]
  /\ UNCHANGED <<commandQueue, pendingPoll, server, pageVars, strays, outcome,
                 launchVars, breaks>>

\* The 25 s of a poll are over.
PollTimeout ==
  /\ pendingPoll # "none"
  /\ pendingPoll' = "none"
  /\ wire' = IF pendingPoll = "live" THEN "empty" ELSE wire
  /\ UNCHANGED <<call, commandQueue, server, page, current, strays, outcome,
                 launchVars, breaks>>

\* mutant: a poll is kept waiting without a look at the queue.
PollQueueUnseen(q) == <<>>
PollQueue(q) == q

\* mutant: a stopped relay keeps polls waiting.
ParksAlways == TRUE
Parks == server = "up"

\* handlePoll; live says whether the connection of the request still stands.
HandlePoll(live) ==
  /\ UNCHANGED call
  /\ \/ /\ ~Parks
        /\ wire' = IF live THEN "gone" ELSE wire
        /\ UNCHANGED <<commandQueue, pendingPoll, current>>
     \/ /\ Parks /\ PollQueue(commandQueue) # <<>>
        /\ commandQueue' = Rest(commandQueue)
        /\ wire' = IF live THEN "command" ELSE wire
        /\ current' = IF live THEN Head(commandQueue) ELSE current
        /\ UNCHANGED pendingPoll
     \/ /\ Parks /\ PollQueue(commandQueue) = <<>>
        /\ pendingPoll' = IF live THEN "live" ELSE "dead"
        /\ wire' = IF live THEN "parked"
                   ELSE IF pendingPoll = "live" THEN "empty" ELSE wire
        /\ UNCHANGED <<commandQueue, current>>

\* handleRegister: waitForClient() returns, a poll may be flushed.
HandleRegister(live) ==
  /\ launch' = IF launch = "waiting" THEN "ready" ELSE launch
  /\ FlushQueue(commandQueue)
  /\ wire' = IF live THEN "ok" ELSE IF Flushed(commandQueue) THEN "command" ELSE wire
  /\ current' = IF ~live /\ Flushed(commandQueue) THEN Head(commandQueue) ELSE current
  /\ UNCHANGED call

\* mutant: an answer is taken for whatever is pending.
AnyPending(c) == {d \in Commands : call[d] = "open"}
OwnPending(c) == {d \in {c} : call[d] = "open"}

\* handleResult: an unknown requestId changes nothing.
HandleResult(live, c) ==
  /\ call' = [d \in Commands |-> IF d \notin OwnPending(c) THEN call[d]
                                 ELSE IF outcome[c] = "ok" THEN "resolved"
                                 ELSE "rejected"]
  /\ wire' = IF live THEN "ok" ELSE wire
  /\ UNCHANGED <<commandQueue, pendingPoll, current>>

Handle(kind, c, live) ==
  \/ kind = "poll" /\ HandlePoll(live) /\ UNCHANGED launch
  \/ kind = "result" /\ HandleResult(live, c) /\ UNCHANGED launch
  \/ kind = "register" /\ HandleRegister(live)

Kind == CASE page = "registering" -> "register"
          [] page = "polling" -> "poll"
          [] page = "posting" -> "result"

\* The relay reads the page's request, or one of a broken connection.
Read ==
  /\ wire = "sent"
  /\ Handle(Kind, current, TRUE)
  /\ UNCHANGED <<server, page, strays, outcome, chrome, cleanup, breaks>>

ReadStray(r) ==
  /\ r \in strays
  /\ Handle(r.kind, r.cmd, FALSE)
  /\ strays' = strays \ {r}
  /\ UNCHANGED <<server, page, outcome, chrome, cleanup, breaks>>

\* stop(), called by the listener on Chrome's exit and at the end of cleanup(),
\* whichever is first.
Stop ==
  /\ server' = IF server = "up" THEN "closing" ELSE server
  /\ IF server = "up"
     THEN /\ pendingPoll' = "none"
          /\ call' = [c \in Commands |-> IF call[c] = "open" THEN "stopped"
                                         ELSE call[c]]
          /\ commandQueue' = <<>>
          /\ launch' = IF launch = "waiting" THEN "failed" ELSE launch
     ELSE UNCHANGED <<pendingPoll, call, commandQueue, launch>>

\* server.close() calls back when every request has been answered.
ServerClosed ==
  /\ server = "closing"
  /\ wire \notin {"sent", "parked"} /\ strays = {} /\ pendingPoll = "none"
  /\ server' = "closed"
  /\ UNCHANGED <<call, commandQueue, pendingPoll, pageVars, strays, outcome,
                 launchVars, breaks>>

-----------------------------------------------------------------------------
(* The offscreen page: pollLoop.                                           *)

\* fetch(): to register, to poll, or to post the result of the command.
Sending == [s \in {"register", "poll", "post"} |->
              CASE s = "register" -> "registering"
                [] s = "poll" -> "polling"
                [] s = "post" -> "posting"]

Send ==
  /\ page \in DOMAIN Sending
  /\ IF server = "up"
     THEN wire' = "sent" /\ page' = Sending[page] /\ UNCHANGED current
     ELSE page' = "sleep" /\ current' = Nothing /\ UNCHANGED wire
  /\ UNCHANGED <<relayVars, strays, outcome, launchVars, breaks>>

\* The answer; a command is passed to the service worker, which begins it.
Receive ==
  /\ wire \in Answers
  /\ wire' = "none"
  /\ page' = CASE wire = "command" -> "exec"
               [] wire = "gone" -> "ended"
               [] OTHER -> "poll"
  /\ current' = IF wire = "command" THEN current ELSE Nothing
  /\ outcome' = IF wire = "command" THEN [outcome EXCEPT ![current] = "running"]
                ELSE outcome
  /\ UNCHANGED <<relayVars, strays, launchVars, breaks>>

\* The service worker has executed c, or it failed or was stopped.  The closing
\* command fails in any case: it is sent without the target every command needs.
Finish(c) ==
  /\ outcome[c] = "running"
  /\ \E o \in {"ok", "error"} :
       /\ c = Last => o = "error"
       /\ outcome' = [outcome EXCEPT ![c] = o]
  /\ page' = IF page = "exec" /\ current = c THEN "post" ELSE page
  /\ UNCHANGED <<relayVars, wire, current, strays, launchVars, breaks>>

Wake ==
  /\ page = "sleep"
  /\ page' = "register"
  /\ UNCHANGED <<relayVars, wire, current, strays, outcome, launchVars, breaks>>

\* The page's connection is no more.  The relay may still read its request.
Disconnect ==
  /\ wire' = "none"
  /\ current' = Nothing
  /\ pendingPoll' = IF wire = "parked" THEN "dead" ELSE pendingPoll
  /\ \/ UNCHANGED strays
     \/ /\ wire = "sent"
        /\ strays' = strays \cup {[kind |-> Kind, cmd |-> current, break |-> breaks]}

\* A connection breaks, and the page sleeps for 1200 ms; or Chrome reloads the
\* page, whatever it does.
Break ==
  /\ breaks < MaxBreaks
  /\ page # "ended"
  /\ Disconnect
  /\ \/ wire # "none" /\ page' = "sleep"
     \/ page' = "register"
  /\ breaks' = breaks + 1
  /\ UNCHANGED <<call, commandQueue, server, outcome, launchVars>>

-----------------------------------------------------------------------------
(* Chrome's process and the factory.                                       *)

\* Chrome exits by itself or killed; the listener on its exit stops the relay.
Exit ==
  /\ chrome # "gone"
  /\ chrome' = "gone"
  /\ page' = "ended"
  /\ wire' = "none"
  /\ current' = Nothing
  /\ \/ UNCHANGED strays
     \/ /\ wire = "sent"
        /\ strays' = strays \cup {[kind |-> Kind, cmd |-> current, break |-> breaks]}
  /\ outcome' = [c \in Commands |-> IF outcome[c] = "running" THEN "error"
                                    ELSE outcome[c]]
  /\ Stop
  /\ UNCHANGED <<cleanup, breaks>>

\* waitForClient(20000) gives up.
LaunchTimeout ==
  /\ launch = "waiting"
  /\ launch' = "failed"
  /\ UNCHANGED <<relayVars, pageVars, strays, outcome, chrome, cleanup, breaks>>

\* cleanup(), once: after a failed launch or when the browser is closed.  It
\* asks Chrome to close, unless Chrome or the relay is gone,
BeginCleanup ==
  /\ cleanup = "no" /\ launch # "waiting"
  /\ IF chrome = "gone" \/ server # "up"
     THEN cleanup' = "stop" /\ UNCHANGED <<call, commandQueue, pendingPoll, wire, current>>
     ELSE cleanup' = "ask" /\ Enqueue(Last)
  /\ UNCHANGED <<server, page, strays, outcome, chrome, launch, breaks>>

\* waits for the answer, then for Chrome's exit, for 10 s,
Asked ==
  /\ cleanup = "ask" /\ call[Last] # "open"
  /\ cleanup' = "linger"
  /\ UNCHANGED <<relayVars, pageVars, strays, outcome, chrome, launch, breaks>>

\* mutant: for as long as it takes,
NoTimeLimit == FALSE
LingerTimeout == TRUE

Linger ==
  /\ cleanup = "linger"
  /\ \/ chrome = "gone" /\ cleanup' = "stop"
     \/ LingerTimeout /\ cleanup' = "kill"
  /\ UNCHANGED <<relayVars, pageVars, strays, outcome, chrome, launch, breaks>>

\* kills it,
Kill ==
  /\ cleanup = "kill"
  /\ chrome' = IF chrome = "up" THEN "killed" ELSE chrome
  /\ cleanup' = "stop"
  /\ UNCHANGED <<relayVars, pageVars, strays, outcome, launch, breaks>>

\* and stops the relay.
StopRelay ==
  /\ cleanup = "stop"
  /\ Stop
  /\ wire' = IF server = "up" /\ pendingPoll = "live" THEN "gone" ELSE wire
  /\ cleanup' = "done"
  /\ UNCHANGED <<page, current, strays, outcome, chrome, breaks>>

-----------------------------------------------------------------------------

RelayReads == Read \/ \E r \in strays : ReadStray(r)
PageSteps == Send \/ Receive \/ Wake
CleanupSteps == Asked \/ Linger \/ Kill \/ StopRelay
Timeouts == PollTimeout \/ LaunchTimeout \/ \E c \in Commands : CommandTimeout(c)

RelayNext ==
  \/ \E c \in Commands : Dispatch(c) \/ Finish(c)
  \/ Timeouts
  \/ RelayReads
  \/ PageSteps
  \/ Break
  \/ Exit
  \/ BeginCleanup \/ CleanupSteps
  \/ ServerClosed

RelaySpec == RelayInit /\ [][RelayNext]_controlVars

\* Timers fire, the relay reads what reaches it, the page goes on, a killed
\* Chrome exits.  Nothing says that the service worker ends a command, that
\* Chrome exits by itself or that the browser is ever closed.
Fairness ==
  /\ WF_controlVars(RelayReads) /\ WF_controlVars(PageSteps)
  /\ WF_controlVars(PollTimeout) /\ WF_controlVars(LaunchTimeout)
  /\ WF_controlVars(CommandTimeout(Last))
  /\ WF_controlVars(launch = "failed" /\ BeginCleanup) /\ WF_controlVars(CleanupSteps)
  /\ WF_controlVars(chrome = "killed" /\ Exit) /\ WF_controlVars(ServerClosed)

RelayFairSpec == RelaySpec /\ Fairness
-----------------------------------------------------------------------------
(* Properties.                                                             *)

\* Commands begin in the order of their dispatch and none begins twice, through
\* broken connections, reloads of the page, late requests and commands whose
\* caller has given up: what is queued is newer than what was handed out, and
\* what was handed out is newer than what has begun (handlePoll,
\* flushPendingPoll).
QueuedCommands == {commandQueue[i] : i \in DOMAIN commandQueue}
Begun == {c \in Commands : outcome[c] # "none"}
OnceInOrder ==
  /\ \A i, j \in DOMAIN commandQueue : i < j => commandQueue[i] < commandQueue[j]
  /\ \A c \in Begun, d \in QueuedCommands : c < d
  /\ wire = "command" => /\ \A c \in Begun : c < current
                         /\ \A d \in QueuedCommands : current < d

\* A caller is told what became of its own command, whichever request brings the
\* result and however many were given up before (handleResult).
ToldTheTruth == \A c \in Commands :
  /\ call[c] = "resolved" => outcome[c] = "ok"
  /\ call[c] = "rejected" => outcome[c] = "error"

\* After stop() nothing is pending: no caller waits, no command is left to be
\* fetched, no poll is kept, also if requests are read late (stop, handlePoll).
StopIsFinal == server # "up" =>
  /\ commandQueue = <<>> /\ pendingPoll = "none"
  /\ \A c \in Commands : call[c] # "open"

\* A caller learns the truth, and learns it at the latest from stop().
CallersTold == ToldTheTruth /\ StopIsFinal

\* A queued command is fetched in the end, unless the service worker is held up
\* by an earlier one: dead polls and broken connections only delay it.
QueueMoves == \A c \in Commands :
  c \in QueuedCommands ~> c \notin QueuedCommands \/ page = "exec"

\* Once the launch has failed or the browser is closed, Chrome goes and the
\* relay's server with it, although nothing answers (cleanup).
BrowserGoes == cleanup # "no" ~> chrome = "gone" /\ server = "closed"
=============================================================================
