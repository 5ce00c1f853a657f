---------------------------- MODULE NetworkTracking ----------------------------
(***************************************************************************)
(* Who keeps Chrome's debugger attached to a tab, and its network domain   *)
(* enabled: the capture, navigations that wait for a quiet network, the    *)
(* console, a dialog awaited.  The service worker of the control extension *)
(* counts the users of the network domain and remembers in two flags what  *)
(* it has asked of Chrome.                                                 *)
(* src/src/main/profile/extension-control-extension-background-*.ts: the   *)
(* network runtime, the dispatcher's goto, attaching and detaching in the  *)
(* prelude and the dialogs', the listeners of the footer.                  *)
(*                                                                         *)
(* Commands run one at a time; the handler of a closed dialog runs beside  *)
(* them.  Each of the two is a run of steps, one per await.  Chrome        *)
(* carries out what it is asked in order and answers in order (inbox); it  *)
(* may refuse to attach, and fail any command sent; it detaches when told  *)
(* to, by the worker or by its user.                                       *)
(* One tab.  Left out: commands that overlap, after a reload of the page   *)
(* that dispatches them or behind a click or a dialog handled without      *)
(* waiting (nonBlocking); interception and emulation, which hold the       *)
(* debugger as the console does.                                           *)
(***************************************************************************)
EXTENDS Naturals, Sequences

Runs == {"command", "handler"}

VARIABLES
  enabled,     \* network.enabled: a capture is wanted
  users,       \* network.trackingUsers
  cdpEnabled,  \* the worker takes the network domain for enabled
  debuggerAttached,  \* the worker takes the debugger for attached
  console,     \* console.enabled
  attached,    \* Chrome: the debugger is attached,
  domain,      \* its network domain enabled,
  pageDomain,  \* its page domain, which reports dialogs, enabled
  inbox,       \* Chrome's answers, and its news that the debugger was detached
  run,         \* what runs, and what it waits for
  capture,     \* "on" from a start that succeeded to a stop, or a detachment;
               \* "lost" from a first start that failed, or a navigation that
               \* released the tab twice, to a stop
  left         \* a command for a dialog, or a navigation that failed, has left the
               \* debugger attached, and nothing has let go of it since

stateVars == <<enabled, users, cdpEnabled, debuggerAttached, console>>
chromeVars == <<attached, domain, pageDomain, inbox>>
ghosts == <<capture, left>>
vars == <<stateVars, chromeVars, run, ghosts>>

Kinds == {"none", "start", "restart", "stop", "goto", "data", "dataFailed",
          "console", "consoleStop", "input", "inputAttached", "arm", "disarm",
          "wait", "waiting", "handle", "handling", "handled", "keys",
          "keysAttached", "closed"}
Steps == {"none", "post", "attach", "enable", "page", "disable", "detach", "send",
          "dialog"}
Idle == [kind |-> "none", step |-> "none"]
Detachment == [to |-> "onDetach", ok |-> TRUE]

TypeOK ==
  /\ enabled \in BOOLEAN /\ users \in Nat
  /\ cdpEnabled \in BOOLEAN /\ debuggerAttached \in BOOLEAN /\ console \in BOOLEAN
  /\ attached \in BOOLEAN /\ domain \in BOOLEAN /\ pageDomain \in BOOLEAN
  /\ inbox \in Seq([to : Runs \cup {"onDetach"}, ok : BOOLEAN])
  /\ run \in [Runs -> [kind : Kinds, step : Steps]]
  /\ capture \in {"off", "on", "lost"} /\ left \in BOOLEAN

Init ==
  /\ enabled = FALSE /\ users = 0
  /\ cdpEnabled = FALSE /\ debuggerAttached = FALSE /\ console = FALSE
  /\ attached = FALSE /\ domain = FALSE /\ pageDomain = FALSE
  /\ inbox = <<>>
  /\ run = [r \in Runs |-> Idle]
  /\ capture = "off" /\ left = FALSE

-----------------------------------------------------------------------------
(* Chrome.                                                                 *)

Wait(r, kind, step) == run' = [run EXCEPT ![r] = [kind |-> kind, step |-> step]]

\* Attaching and every command sent may fail for reasons of Chrome's own;
\* detaching fails only if nothing is attached.
Outcomes(what) ==
  CASE what = "attach" -> {FALSE, ~attached}
    [] what = "detach" -> {attached}
    [] OTHER -> {FALSE, attached}

\* The first request of arm, wait and handle is Page.enable.
EnablesPage(kind, what) == what = "send" /\ kind \in {"arm", "wait", "handle"}

\* r asks Chrome for what, and waits; rest is what the inbox holds before.
Ask(r, kind, what, rest) ==
  \E ok \in Outcomes(what) :
    /\ Wait(r, kind, what)
    /\ inbox' = Append(rest, [to |-> r, ok |-> ok])
    /\ attached' = CASE what = "attach" -> attached \/ ok
                     [] what = "detach" -> FALSE
                     [] OTHER -> attached
    /\ domain' = CASE what = "enable" -> domain \/ ok
                   [] what = "disable" -> domain /\ ~ok
                   [] what = "detach" -> FALSE
                   [] OTHER -> domain
    /\ pageDomain' = CASE what = "detach" -> FALSE
                       [] EnablesPage(kind, what) -> pageDomain \/ ok
                       [] OTHER -> pageDomain

Quiet(rest) == inbox' = rest /\ UNCHANGED <<attached, domain, pageDomain>>

\* The user detaches the debugger.
UserDetaches ==
  /\ attached
  /\ attached' = FALSE /\ domain' = FALSE /\ pageDomain' = FALSE
  /\ inbox' = Append(inbox, Detachment)
  /\ UNCHANGED <<stateVars, run, ghosts>>

OnDetach ==
  /\ inbox # <<>> /\ Head(inbox).to = "onDetach"
  /\ Quiet(Tail(inbox))
  /\ debuggerAttached' = FALSE /\ cdpEnabled' = FALSE
  /\ capture' = IF capture = "on" THEN "off" ELSE capture
  /\ left' = FALSE
  /\ UNCHANGED <<enabled, users, console, run>>

-----------------------------------------------------------------------------
(* The parts of which commands are made.  rest is the inbox without the    *)
(* answer under way; u, cdp and flag are the worker's state at that point. *)

\* Behind the part kind of a command: in "data" the tab is left to a new one, which
\* is waited for; a dialog is waited for, or watched until it is closed.
Behind(kind) ==
  CASE kind = "data" -> [kind |-> "dataFailed", step |-> "page"]
    [] kind = "wait" -> [kind |-> "waiting", step |-> "dialog"]
    [] kind \in {"handling", "keys", "keysAttached"} ->
         [kind |-> "handled", step |-> "dialog"]
    [] OTHER -> Idle

\* Commands for a dialog do not let go of the debugger when they are through, nor
\* do they, or a navigation, when they fail.  The others let it go when idle.
Keeps(kind) == kind \in {"arm", "waiting", "handled"}
KeepsFailed(kind) ==
  kind \in {"goto", "data", "arm", "wait", "handle", "handling", "handled"}
Lets(kind) == kind \in {"stop", "goto", "data", "dataFailed", "consoleStop",
                        "input", "keys", "disarm", "closed"}

\* The part kind has been carried out.
End(r, kind, rest) ==
  /\ Quiet(rest)
  /\ run' = [run EXCEPT ![r] = Behind(kind)]
  /\ capture' = CASE kind = "start" -> "on"
                  [] kind = "restart" /\ capture # "lost" -> "on"
                  [] kind = "dataFailed" -> "lost"
                  [] kind = "stop" -> "off"
                  [] OTHER -> capture
  /\ left' = CASE Keeps(kind) -> debuggerAttached
               [] Lets(kind) -> FALSE
               [] OTHER -> left

Fail(r, rest) ==
  /\ Quiet(rest)
  /\ run' = [run EXCEPT ![r] = Idle]
  /\ capture' = IF run[r].kind = "start" THEN "lost" ELSE capture
  /\ left' = (left \/ (KeepsFailed(run[r].kind) /\ debuggerAttached))

\* detachDebuggerIfIdle
DetachIfIdle(r, kind, u, con, rest) ==
  IF ~debuggerAttached \/ u > 0 \/ con
  THEN End(r, kind, rest)
  ELSE Ask(r, kind, "detach", rest) /\ UNCHANGED ghosts

\* releaseNetworkTracking
Less(u) == IF u = 0 THEN 0 ELSE u - 1
Release(r, kind, rest) ==
  /\ users' = Less(users)
  /\ IF users' > 0 THEN End(r, kind, rest)
     ELSE IF cdpEnabled THEN Ask(r, kind, "disable", rest) /\ UNCHANGED ghosts
     ELSE DetachIfIdle(r, kind, 0, console, rest)

\* ensureNetworkDomainEnabled has succeeded: a capture is on, a goto goes on.
Ensured(r, kind, rest) ==
  IF kind \in {"start", "restart"} THEN End(r, kind, rest)
  ELSE Wait(r, kind, "page") /\ Quiet(rest) /\ UNCHANGED ghosts

\* ensureNetworkDomainEnabled, after attachDebugger
EnsureEnabled(r, kind, rest) ==
  IF cdpEnabled THEN Ensured(r, kind, rest)
  ELSE Ask(r, kind, "enable", rest) /\ UNCHANGED ghosts

\* The debugger is attached, or was: each kind has its next request to Chrome.
Attached(r, kind, rest) ==
  IF kind \in {"start", "restart", "goto", "data"}
  THEN EnsureEnabled(r, kind, rest)
  ELSE Ask(r, kind, "send", rest) /\ UNCHANGED ghosts

\* attachDebugger
Attach(r, kind, rest) ==
  IF debuggerAttached THEN Attached(r, kind, rest)
  ELSE Ask(r, kind, "attach", rest) /\ UNCHANGED ghosts

\* acquireNetworkTracking counts its user before, and takes it back on failure.
Counts(kind) == kind \in {"start", "goto", "data"}
Acquire(r, kind, rest) ==
  /\ users' = IF Counts(kind) THEN users + 1 ELSE users
  /\ Attach(r, kind, rest)

\* mutant: the count is not taken back.
NoUndo(kind) == users
Undo(kind) == IF Counts(kind) THEN Less(users) ELSE users

-----------------------------------------------------------------------------
(* The commands, and the handler of a closed dialog, begin.                *)

Free == run["command"] = Idle
Begin(kind, step) ==
  Free /\ Wait("command", kind, step) /\ UNCHANGED <<chromeVars, ghosts>>

\* startNetworkCapture: with clearExisting it posts network-reset first.
After(kind) ==
  IF kind = "restart" /\ cdpEnabled
  THEN UNCHANGED users /\ End("command", kind, inbox)
  ELSE Acquire("command", kind, inbox)

Start(clear) ==
  /\ Free
  /\ enabled' = TRUE
  /\ LET kind == IF enabled THEN "restart" ELSE "start"
     IN IF clear
        THEN /\ Wait("command", kind, "post")
             /\ UNCHANGED <<users, chromeVars, ghosts>>
        ELSE After(kind)
  /\ UNCHANGED <<cdpEnabled, debuggerAttached, console>>

Posted(kind) == run["command"].kind = kind /\ run["command"].step = "post"

StartPosted(ok) ==
  \E kind \in {"start", "restart"} :
    /\ Posted(kind)
    /\ IF ok THEN After(kind) ELSE Fail("command", inbox) /\ UNCHANGED users
    /\ UNCHANGED <<enabled, cdpEnabled, debuggerAttached, console>>

\* stopNetworkCapture, which returns at once without a capture
Stop ==
  /\ Free /\ enabled
  /\ enabled' = FALSE
  /\ Release("command", "stop", inbox)
  /\ UNCHANGED <<cdpEnabled, debuggerAttached, console>>

\* goto or reload with networkidle0 or networkidle2; "data" opens a data: URL in
\* a tab of its own, which does not become ready in time.
Goto(kind) ==
  /\ Free
  /\ Acquire("command", kind, inbox)
  /\ UNCHANGED <<enabled, cdpEnabled, debuggerAttached, console>>

\* The page is ready, or not in time.  For a data: URL the tab is given up
\* before the new one is waited for, and again at the end.
PageEnds ==
  /\ run["command"].step = "page"
  /\ Release("command", run["command"].kind, inbox)
  /\ UNCHANGED <<enabled, cdpEnabled, debuggerAttached, console>>

\* startConsoleCapture and stopConsoleCapture
ConsoleStart ==
  /\ Begin("console", "post")
  /\ console' = TRUE
  /\ UNCHANGED <<enabled, users, cdpEnabled, debuggerAttached>>

ConsolePosted ==
  /\ Posted("console")
  /\ \/ Attach("command", "console", inbox)
     \/ Fail("command", inbox)
  /\ UNCHANGED stateVars

ConsoleStop ==
  /\ Free
  /\ console' = FALSE
  /\ DetachIfIdle("command", "consoleStop", users, FALSE, inbox)
  /\ UNCHANGED <<enabled, users, cdpEnabled, debuggerAttached>>

\* withDebugger: keys and text are sent through the debugger.
Input ==
  /\ Free
  /\ Attach("command", IF debuggerAttached THEN "inputAttached" ELSE "input",
            inbox)
  /\ UNCHANGED stateVars

\* dialog.arm, dialog.wait and dialog.handle
Dialog(kind) ==
  /\ Free
  /\ Attach("command", kind, inbox)
  /\ UNCHANGED stateVars

At(kind, step) == run["command"] = [kind |-> kind, step |-> step]

\* waitForDialog sees a dialog, or ends as disarm does when its time is over.
DialogWaited ==
  /\ At("waiting", "dialog")
  /\ \/ End("command", "waiting", inbox)
     \/ DetachIfIdle("command", "disarm", users, console, inbox)
  /\ UNCHANGED stateVars

\* handleDialog sees the dialog closed, fails, or sends keys to it (withDebugger).
DialogHandled ==
  /\ At("handled", "dialog")
  /\ \/ End("command", "handled", inbox)
     \/ Fail("command", inbox)
     \/ Attach("command", IF debuggerAttached THEN "keysAttached" ELSE "keys", inbox)
  /\ UNCHANGED stateVars

\* dialog.disarm
Disarm ==
  /\ Free
  /\ DetachIfIdle("command", "disarm", users, console, inbox)
  /\ UNCHANGED stateVars

\* Page.javascriptDialogClosed: dialog-closed is posted,
\* then the debugger is let go unless the post failed.
DialogCloses ==
  /\ pageDomain /\ run["handler"] = Idle
  /\ Wait("handler", "closed", "post")
  /\ UNCHANGED <<stateVars, chromeVars, ghosts>>

ClosedPosted ==
  /\ run["handler"] = [kind |-> "closed", step |-> "post"]
  /\ \/ DetachIfIdle("handler", "closed", users, console, inbox)
     \/ Fail("handler", inbox)
  /\ UNCHANGED stateVars

-----------------------------------------------------------------------------
(* Chrome's answers.                                                       *)

Answer(r, step) ==
  /\ inbox # <<>> /\ Head(inbox).to = r /\ run[r].step = step
Ok == Head(inbox).ok
Rest == Tail(inbox)

\* mutant: the flag is set before Chrome has answered.
SetBefore == TRUE
FlagOnFailure == debuggerAttached

\* attachDebugger goes on; the flag is set before the next request.
AttachAnswered(r) ==
  /\ Answer(r, "attach")
  /\ IF Ok THEN /\ Attached(r, run[r].kind, Rest)
                /\ debuggerAttached' = TRUE
                /\ UNCHANGED users
           ELSE /\ IF run[r].kind = "keys" THEN End(r, "keys", Rest) ELSE Fail(r, Rest)
                /\ users' = Undo(run[r].kind)
                /\ debuggerAttached' = FlagOnFailure
  /\ UNCHANGED <<enabled, cdpEnabled, console>>

EnableAnswered(r) ==
  /\ Answer(r, "enable")
  /\ IF Ok THEN /\ Ensured(r, run[r].kind, Rest)
                /\ cdpEnabled' = TRUE
                /\ UNCHANGED users
           ELSE /\ Fail(r, Rest)
                /\ users' = Undo(run[r].kind)
                /\ UNCHANGED cdpEnabled
  /\ UNCHANGED <<enabled, debuggerAttached, console>>

\* A failure of Network.disable is ignored.
DisableAnswered(r) ==
  /\ Answer(r, "disable")
  /\ cdpEnabled' = FALSE
  /\ DetachIfIdle(r, run[r].kind, users, console, Rest)
  /\ UNCHANGED <<enabled, users, debuggerAttached, console>>

DetachAnswered(r) ==
  /\ Answer(r, "detach")
  /\ debuggerAttached' = FALSE
  /\ End(r, run[r].kind, Rest)
  /\ UNCHANGED <<enabled, users, cdpEnabled, console>>

\* mutant: withDebugger detaches in a catch, not in its finally.
LetsGoOnFailure(kind) == kind \in {"input", "keys"} /\ ~Ok
LetsGo(kind) == kind \in {"input", "keys"}

\* handleDialog goes on from Page.enable to Page.handleJavaScriptDialog; that its
\* keys fail is ignored.
SendAnswered(r) ==
  /\ Answer(r, "send")
  /\ LET kind == run[r].kind
     IN IF LetsGo(kind) THEN DetachIfIdle(r, kind, users, console, Rest)
        ELSE IF ~Ok /\ kind # "keysAttached" THEN Fail(r, Rest)
        ELSE IF kind = "handle"
             THEN Ask(r, "handling", "send", Rest) /\ UNCHANGED ghosts
        ELSE End(r, kind, Rest)
  /\ UNCHANGED stateVars

-----------------------------------------------------------------------------

Answers == \E r \in Runs :
  \/ AttachAnswered(r) \/ EnableAnswered(r) \/ DisableAnswered(r)
  \/ DetachAnswered(r) \/ SendAnswered(r)

\* Everything beside the capture's start and stop.
Others ==
  \/ Goto("goto") \/ Goto("data")
  \/ ConsoleStart \/ ConsoleStop \/ Input
  \/ Dialog("arm") \/ Dialog("wait") \/ Dialog("handle") \/ Disarm \/ DialogCloses
  \/ PageEnds \/ ConsolePosted \/ DialogWaited \/ DialogHandled \/ ClosedPosted
  \/ UserDetaches \/ OnDetach

Next ==
  \/ \E clear \in BOOLEAN : Start(clear)
  \/ \E ok \in BOOLEAN : StartPosted(ok)
  \/ Stop
  \/ Answers
  \/ Others

Spec == Init /\ [][Next]_vars
-----------------------------------------------------------------------------
(* Properties.                                                             *)

Resting == (\A r \in Runs : run[r] = Idle) /\ inbox = <<>>

\* Nothing but a capture keeps counting as a user of the network domain, however
\* commands failed half-way: no navigation leaves its count behind, and a capture
\* counts once however often it is started (acquire/releaseNetworkTracking).
UsersBalanced == Resting => users <= IF enabled THEN 1 ELSE 0

\* The worker is right about the debugger whenever nothing is under way, although
\* a dialog's handler may detach it while a command attaches it, and the user may
\* detach it at any time: else it could never attach again
\* (attachDebugger, detachDebuggerIfIdle, onDetach).
FlagIsTrue == Resting => debuggerAttached = attached

\* The debugger is let go when nothing wants it: no capture and no console,
\* whatever failed on the way (detachDebuggerIfIdle, withDebugger).  Only the
\* commands for a dialog leave it attached, through or failed, as does a
\* navigation whose Network.enable failed, until the next that lets go.
NothingLeftAttached ==
  Resting /\ ~enabled /\ ~console /\ ~left => ~attached

\* A start that reports success is followed by captured requests: until a stop,
\* or until the user detaches the debugger, the worker listens and Chrome
\* reports; unless an earlier start failed, which leaves the capture on without a
\* user, or a navigation to a data: URL took it (startNetworkCapture,
\* handleNetworkEvent).
CaptureIsServed == Resting /\ capture = "on" => users > 0 /\ domain
=============================================================================
