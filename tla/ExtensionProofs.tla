--------------------------- MODULE ExtensionProofs ---------------------------
(***************************************************************************)
(* Proofs about the remote control of a Chromium extension: first about    *)
(* ExtensionRelay, for any number of commands and of broken connections:   *)
(* commands begin once and in order, and a caller is told what became of   *)
(* its command, at the latest by stop().  Then about ExtensionTab, for     *)
(* every size of the batches and the queue, any number of events and       *)
(* failures, and every scene: the main process hears of the events in      *)
(* order, of every loss, and shows nothing from before a start that        *)
(* cleared the capture; the debugger of the tab is settled once nothing is *)
(* under way, and a capture is served.                                     *)
(***************************************************************************)
EXTENDS ExtensionRelay, ExtensionTab, TLAPS, FiniteSetTheorems, SequenceTheorems

-----------------------------------------------------------------------------
(* The inductive invariant.                                                *)

\* What is queued, on its way or begun was dispatched; dispatches are in order,
\* the closing command is the last.
Dispatching ==
  /\ \A c \in QueuedCommands \cup Begun : call[c] # "none"
  /\ wire = "command" => current \in Commands /\ call[current] # "none"
  /\ \A c, d \in Commands : c < Last /\ d < c /\ call[c] # "none" => call[d] # "none"
  /\ cleanup = "no" => call[Last] = "none"

\* A live poll is the page's request; commands answer polls.
Connected ==
  /\ pendingPoll = "live" <=> wire = "parked"
  /\ wire \in {"parked", "command"} => page = "polling"
  /\ wire # "none" => page \in {"registering", "polling", "posting"}

\* A result is posted for a command that is over.
Ended(c) == c \in Commands /\ outcome[c] \in {"ok", "error"}
Reporting ==
  /\ page \in {"post", "posting"} => Ended(current)
  /\ \A r \in strays : r.kind = "result" => Ended(r.cmd)

RelayInv ==
  /\ RelayTypeOK
  /\ OnceInOrder
  /\ ToldTheTruth
  /\ StopIsFinal
  /\ Dispatching
  /\ Connected
  /\ Reporting

-----------------------------------------------------------------------------
(* Lemmas about the queue.                                                 *)

Ascending(q) == \A i, j \in DOMAIN q : i < j => q[i] < q[j]
Elements(q) == {q[i] : i \in DOMAIN q}

LEMMA CommandFacts == Last \in Commands /\ Commands \subseteq Nat
  BY RelayAssumption DEF Commands

\* What is taken from an ascending queue is older than what is left.
LEMMA HeadIsOldest ==
  ASSUME NEW q \in Seq(Commands), q # <<>>, Ascending(q)
  PROVE  /\ Head(q) \in Elements(q) /\ Elements(q) \subseteq Commands
         /\ Tail(q) \in Seq(Commands) /\ Ascending(Tail(q))
         /\ Elements(Tail(q)) \subseteq Elements(q)
         /\ \A c \in Elements(Tail(q)) : Head(q) < c
<1>1. /\ Len(q) \in Nat \ {0} /\ DOMAIN q = 1..Len(q)
      /\ \A i \in 1..Len(q) : q[i] \in Commands
  OBVIOUS
<1>2. /\ Tail(q) \in Seq(Commands) /\ DOMAIN Tail(q) = 1..(Len(q) - 1)
      /\ \A i \in 1..(Len(q) - 1) : Tail(q)[i] = q[i + 1]
  BY <1>1
<1>3. Head(q) = q[1]
  BY <1>1
<1>4. Head(q) \in Elements(q) /\ Elements(q) \subseteq Commands
  BY <1>1, <1>3 DEF Elements
<1>5. Ascending(Tail(q))
  BY <1>1, <1>2 DEF Ascending
<1>6. Elements(Tail(q)) \subseteq Elements(q)
  BY <1>1, <1>2 DEF Elements
<1>7. \A c \in Elements(Tail(q)) : Head(q) < c
  BY <1>1, <1>2, <1>3 DEF Elements, Ascending
<1> QED
  BY <1>2, <1>4, <1>5, <1>6, <1>7

\* A command newer than those of an ascending queue may be appended.
LEMMA NewestIsLast ==
  ASSUME NEW q \in Seq(Commands), Ascending(q), NEW c \in Commands,
         \A d \in Elements(q) : d < c
  PROVE  /\ Append(q, c) \in Seq(Commands) /\ Append(q, c) # <<>>
         /\ Ascending(Append(q, c))
         /\ Elements(Append(q, c)) = Elements(q) \cup {c}
<1> DEFINE a == Append(q, c)
<1>1. /\ Len(q) \in Nat /\ DOMAIN q = 1..Len(q)
      /\ \A i \in 1..Len(q) : q[i] \in Commands
  OBVIOUS
<1>2. /\ a \in Seq(Commands) /\ a # <<>> /\ DOMAIN a = 1..(Len(q) + 1)
      /\ \A i \in 1..Len(q) : a[i] = q[i]
      /\ a[Len(q) + 1] = c
  BY <1>1
<1>3. \A i \in 1..(Len(q) + 1) : i \in 1..Len(q) \/ i = Len(q) + 1
  BY <1>1
<1> HIDE DEF a
<1>4. Ascending(a)
  <2> SUFFICES ASSUME NEW i \in DOMAIN a, NEW j \in DOMAIN a, i < j
               PROVE  a[i] < a[j]
    BY DEF Ascending
  <2>1. i \in 1..Len(q)
    BY <1>1, <1>2
  <2>2. CASE j \in 1..Len(q)
    BY <1>1, <1>2, <2>1, <2>2 DEF Ascending
  <2>3. CASE j = Len(q) + 1
    BY <1>1, <1>2, <2>1, <2>3 DEF Elements
  <2> QED
    BY <1>2, <1>3, <2>2, <2>3
<1>5. Elements(a) = Elements(q) \cup {c}
  <2>1. Elements(a) \subseteq Elements(q) \cup {c}
    BY <1>1, <1>2, <1>3 DEF Elements
  <2>2. Elements(q) \cup {c} \subseteq Elements(a)
    BY <1>1, <1>2 DEF Elements
  <2> QED
    BY <2>1, <2>2
<1> QED
  BY <1>2, <1>4, <1>5 DEF a

\* flushPendingPoll leaves an ascending queue, and hands out its oldest command.
LEMMA FlushFacts ==
  ASSUME NEW q \in Seq(Commands), Ascending(q), FlushQueue(q)
  PROVE  /\ commandQueue' \in Seq(Commands) /\ Ascending(commandQueue')
         /\ Elements(commandQueue') \subseteq Elements(q)
         /\ Flushed(q) => /\ Head(q) \in Elements(q) /\ Head(q) \in Commands
                          /\ \A c \in Elements(commandQueue') : Head(q) < c
                          /\ pendingPoll' = "none"
         /\ ~Flushed(q) => (pendingPoll' = "live" <=> pendingPoll = "live")
         /\ pendingPoll' \in {pendingPoll, "none"}
<1>1. CASE Flushes(q)
  BY <1>1, HeadIsOldest DEF FlushQueue, Flushed, Flushes, Rest
<1>2. CASE ~Flushes(q)
  BY <1>2 DEF FlushQueue, Flushed
<1> QED
  BY <1>1, <1>2

-----------------------------------------------------------------------------
(* What each action does to the invariant.                                 *)

\* OnceInOrder and what it speaks of, in terms of Elements.
LEMMA OrderFacts ==
  /\ QueuedCommands = Elements(commandQueue) /\ QueuedCommands' = Elements(commandQueue')
  /\ OnceInOrder <=>
       /\ Ascending(commandQueue)
       /\ \A c \in Begun, d \in Elements(commandQueue) : c < d
       /\ wire = "command" => /\ \A c \in Begun : c < current
                              /\ \A d \in Elements(commandQueue) : current < d
  /\ OnceInOrder' <=>
       /\ Ascending(commandQueue')
       /\ \A c \in Begun', d \in Elements(commandQueue') : c < d
       /\ wire' = "command" => /\ \A c \in Begun' : c < current'
                               /\ \A d \in Elements(commandQueue') : current' < d
  BY DEF OnceInOrder, QueuedCommands, Elements, Ascending

\* dispatchCommand, for a command newer than all before.
LEMMA EnqueueInv ==
  ASSUME RelayInv, NEW c \in Commands, call[c] = "none", server = "up",
         \A d \in Commands : call[d] # "none" => d < c,
         c < Last => \A d \in Commands : d < c => call[d] # "none",
         Enqueue(c), UNCHANGED <<server, page, strays, outcome, chrome, launch, breaks>>,
         cleanup' = "ask" \/ (c # Last /\ cleanup' = cleanup)
  PROVE  RelayInv'
<1> USE DEF RelayInv
<1> DEFINE q == Append(commandQueue, c)
<1>1. /\ commandQueue \in Seq(Commands) /\ call \in [Commands -> Calls]
      /\ Ascending(commandQueue) /\ Elements(commandQueue) = QueuedCommands
  BY OrderFacts DEF RelayTypeOK
<1>2. QueuedCommands \subseteq Commands /\ Begun \subseteq Commands
  BY DEF RelayTypeOK, QueuedCommands, Begun
<1>3. \A d \in QueuedCommands \cup Begun : d \in Commands /\ d < c
  BY <1>2 DEF Dispatching
<1>4. /\ q \in Seq(Commands) /\ q # <<>> /\ Ascending(q)
      /\ Elements(q) = QueuedCommands \cup {c}
  BY <1>1, <1>3, NewestIsLast
<1>5. /\ call' = [call EXCEPT ![c] = "open"]
      /\ FlushQueue(q)
      /\ wire' = IF Flushed(q) THEN "command" ELSE wire
      /\ current' = IF Flushed(q) THEN Head(q) ELSE current
  BY DEF Enqueue
<1> HIDE DEF q
<1>6. /\ commandQueue' \in Seq(Commands) /\ Ascending(commandQueue')
      /\ Elements(commandQueue') \subseteq QueuedCommands \cup {c}
      /\ Flushed(q) => /\ Head(q) \in QueuedCommands \cup {c} /\ Head(q) \in Commands
                       /\ \A d \in Elements(commandQueue') : Head(q) < d
                       /\ pendingPoll' = "none"
      /\ ~Flushed(q) => (pendingPoll' = "live" <=> pendingPoll = "live")
      /\ pendingPoll' \in {pendingPoll, "none"}
  BY <1>4, <1>5, FlushFacts
<1>7. Begun' = Begun
  BY DEF Begun
<1>8. Flushed(q) => pendingPoll = "live"
  BY DEF Flushed
<1>9. RelayTypeOK'
  BY <1>1, <1>5, <1>6 DEF RelayTypeOK, Calls, Answers
<1>10. OnceInOrder'
  <2>1. \A d \in Begun, e \in Elements(commandQueue') : d < e
    BY <1>2, <1>3, <1>6 DEF OnceInOrder
  <2>2. wire' = "command" => /\ \A d \in Begun : d < current'
                             /\ \A e \in Elements(commandQueue') : current' < e
    <3>1. CASE Flushed(q)
      BY <1>3, <1>5, <1>6, <3>1 DEF OnceInOrder
    <3>2. CASE ~Flushed(q)
      BY <1>3, <1>5, <1>6, <3>2 DEF OnceInOrder, Dispatching
    <3> QED
      BY <3>1, <3>2
  <2> QED
    BY <1>6, <1>7, <2>1, <2>2, OrderFacts
<1>11. ToldTheTruth'
  BY <1>1, <1>5 DEF ToldTheTruth
<1>12. StopIsFinal'
  BY DEF StopIsFinal
<1>13. Dispatching'
  <2>1. QueuedCommands' \subseteq QueuedCommands \cup {c}
    BY <1>6, OrderFacts
  <2>2. \A d \in Commands : call'[d] # "none" <=> d = c \/ call[d] # "none"
    BY <1>1, <1>5
  <2>3. \A d \in QueuedCommands' \cup Begun' : call'[d] # "none"
    BY <1>2, <1>7, <2>1, <2>2 DEF Dispatching
  <2>4. wire' = "command" => current' \in Commands /\ call'[current'] # "none"
    BY <1>2, <1>5, <1>6, <2>2 DEF Dispatching
  <2>5. \A d, e \in Commands :
          d < Last /\ e < d /\ call'[d] # "none" => call'[e] # "none"
    BY <2>2 DEF Dispatching
  <2>6. cleanup' = "no" => call'[Last] = "none"
    BY <1>1, <1>5, CommandFacts DEF Dispatching
  <2> QED
    BY <2>3, <2>4, <2>5, <2>6 DEF Dispatching
<1>14. Connected'
  BY <1>5, <1>6, <1>8 DEF Connected
<1>15. Reporting'
  BY <1>5, <1>8 DEF Reporting, Connected, Ended
<1> QED
  BY <1>9, <1>10, <1>11, <1>12, <1>13, <1>14, <1>15

LEMMA DispatchInv ==
  ASSUME RelayInv, NEW c \in Commands, Dispatch(c)
  PROVE  RelayInv'
<1>1. /\ call[c] = "none" /\ c < Last /\ (c > 1 => call[c - 1] # "none")
      /\ cleanup = "no"
  BY CommandFacts DEF Dispatch, Dispatched
<1>2. \A d \in Commands : call[d] # "none" => d < c
  BY <1>1, CommandFacts DEF RelayInv, Dispatching, Commands
<1>3. \A d \in Commands : d < c => call[d] # "none"
  BY <1>1, CommandFacts DEF RelayInv, Dispatching, Commands
<1> QED
  BY <1>1, <1>2, <1>3, EnqueueInv, CommandFacts DEF Dispatch, launchVars

LEMMA BeginCleanupInv ==
  ASSUME RelayInv, BeginCleanup
  PROVE  RelayInv'
<1>1. CASE cleanup' = "ask"
  <2>1. /\ cleanup = "no" /\ server = "up" /\ Enqueue(Last)
        /\ UNCHANGED <<server, page, strays, outcome, chrome, launch, breaks>>
    BY <1>1 DEF BeginCleanup
  <2>2. call[Last] = "none"
    BY <2>1 DEF RelayInv, Dispatching
  <2>3. \A d \in Commands : call[d] # "none" => d < Last
    BY <2>2, RelayAssumption DEF Commands
  <2>4. ~(Last < Last)
    BY RelayAssumption
  <2> QED
    BY <1>1, <2>1, <2>2, <2>3, <2>4, CommandFacts, EnqueueInv
<1>2. CASE cleanup' = "stop"
  <2>1. UNCHANGED <<call, commandQueue, pendingPoll, wire, current, server, page, strays,
                    outcome, chrome, launch, breaks>>
    BY <1>2 DEF BeginCleanup
  <2>2. QueuedCommands' = QueuedCommands /\ Begun' = Begun
    BY <2>1 DEF QueuedCommands, Begun
  <2> QED
    BY <1>2, <2>1, <2>2 DEF RelayInv, RelayTypeOK, OnceInOrder, ToldTheTruth, StopIsFinal,
                            Dispatching, Connected, Reporting, Ended
<1> QED
  BY <1>1, <1>2 DEF BeginCleanup

\* handlePoll, of the page or of a connection that is no more.
LEMMA HandlePollInv ==
  ASSUME RelayInv, NEW live \in BOOLEAN, HandlePoll(live),
         live => wire = "sent" /\ page = "polling",
         UNCHANGED <<server, page, outcome, launchVars, breaks>>,
         strays' \subseteq strays
  PROVE  RelayInv'
<1> USE DEF RelayInv
<1>0. /\ call' = call /\ Begun' = Begun
      /\ UNCHANGED <<server, page, outcome, chrome, launch, cleanup, breaks>>
  BY DEF HandlePoll, Begun, launchVars
<1>1. /\ commandQueue \in Seq(Commands) /\ Ascending(commandQueue)
      /\ Elements(commandQueue) = QueuedCommands
      /\ QueuedCommands \subseteq Commands /\ Begun \subseteq Commands
  BY OrderFacts DEF RelayTypeOK, QueuedCommands, Begun
<1>2. CASE ~Parks \/ PollQueue(commandQueue) = <<>>
  <2>1. /\ UNCHANGED <<commandQueue, current>>
        /\ pendingPoll' \in {pendingPoll, "live", "dead"}
        /\ pendingPoll' # pendingPoll => server = "up"
        /\ wire' \in {wire, "gone", "parked", "empty"}
    BY <1>2 DEF HandlePoll, Parks
  <2>2. QueuedCommands' = QueuedCommands
    BY <2>1 DEF QueuedCommands
  <2>3. RelayTypeOK' /\ OnceInOrder' /\ ToldTheTruth' /\ StopIsFinal'
    BY <1>0, <2>1, <2>2 DEF RelayTypeOK, Answers, OnceInOrder, ToldTheTruth, StopIsFinal
  <2>4. Dispatching' /\ Reporting'
    BY <1>0, <2>1, <2>2 DEF Dispatching, Reporting, Ended
  <2>5. Connected'
    BY <1>0, <1>2 DEF Connected, HandlePoll
  <2> QED
    BY <2>3, <2>4, <2>5
<1>3. CASE Parks /\ PollQueue(commandQueue) # <<>>
  <2>1. /\ commandQueue # <<>> /\ commandQueue' = Tail(commandQueue)
        /\ wire' = IF live THEN "command" ELSE wire
        /\ current' = IF live THEN Head(commandQueue) ELSE current
        /\ pendingPoll' = pendingPoll
    BY <1>3 DEF HandlePoll, PollQueue, Rest
  <2>2. /\ commandQueue' \in Seq(Commands) /\ Ascending(commandQueue')
        /\ Elements(commandQueue') \subseteq QueuedCommands /\ Head(commandQueue) \in QueuedCommands
        /\ \A d \in Elements(commandQueue') : Head(commandQueue) < d
        /\ QueuedCommands' \subseteq QueuedCommands
    BY <1>1, <2>1, HeadIsOldest, OrderFacts
  <2>3. RelayTypeOK'
    BY <1>0, <1>1, <2>1, <2>2 DEF RelayTypeOK, Answers
  <2>4. OnceInOrder'
    BY <1>0, <1>1, <2>1, <2>2, OrderFacts
  <2>5. ToldTheTruth' /\ StopIsFinal'
    BY <1>0, <1>3, <2>1 DEF ToldTheTruth, StopIsFinal, Parks
  <2>6. Dispatching'
    BY <1>0, <1>1, <2>1, <2>2 DEF Dispatching
  <2>7. Connected' /\ Reporting'
    BY <1>0, <2>1 DEF Connected, Reporting, Ended
  <2> QED
    BY <2>3, <2>4, <2>5, <2>6, <2>7
<1> QED
  BY <1>2, <1>3

\* handleRegister, likewise.
LEMMA HandleRegisterInv ==
  ASSUME RelayInv, NEW live \in BOOLEAN, HandleRegister(live),
         live => wire = "sent" /\ page = "registering",
         UNCHANGED <<server, page, outcome, chrome, cleanup, breaks>>,
         strays' \subseteq strays
  PROVE  RelayInv'
<1> USE DEF RelayInv
<1>0. /\ call' = call /\ Begun' = Begun
  BY DEF HandleRegister, Begun
<1>1. /\ commandQueue \in Seq(Commands) /\ Ascending(commandQueue)
      /\ Elements(commandQueue) = QueuedCommands
      /\ QueuedCommands \subseteq Commands /\ Begun \subseteq Commands
  BY OrderFacts DEF RelayTypeOK, QueuedCommands, Begun
<1>2. /\ FlushQueue(commandQueue)
      /\ wire' = IF live THEN "ok" ELSE IF Flushed(commandQueue) THEN "command" ELSE wire
      /\ current' = IF ~live /\ Flushed(commandQueue) THEN Head(commandQueue) ELSE current
  BY DEF HandleRegister
<1>3. /\ commandQueue' \in Seq(Commands) /\ Ascending(commandQueue')
      /\ Elements(commandQueue') \subseteq QueuedCommands
      /\ Flushed(commandQueue) =>
           /\ Head(commandQueue) \in QueuedCommands /\ Head(commandQueue) \in Commands
           /\ \A d \in Elements(commandQueue') : Head(commandQueue) < d
           /\ pendingPoll' = "none"
      /\ ~Flushed(commandQueue) => (pendingPoll' = "live" <=> pendingPoll = "live")
      /\ pendingPoll' \in {pendingPoll, "none"}
      /\ QueuedCommands' \subseteq QueuedCommands
  BY <1>1, <1>2, FlushFacts, OrderFacts
<1>4. Flushed(commandQueue) => pendingPoll = "live"
  BY DEF Flushed
<1>5. RelayTypeOK'
  BY <1>0, <1>2, <1>3 DEF RelayTypeOK, Answers, HandleRegister
<1>6. OnceInOrder'
  BY <1>0, <1>1, <1>2, <1>3, OrderFacts
<1>7. ToldTheTruth'
  BY <1>0 DEF ToldTheTruth
<1>8. StopIsFinal'
  BY <1>0, <1>2, <1>3 DEF StopIsFinal, FlushQueue, Flushes
<1>9. Dispatching'
  BY <1>0, <1>1, <1>2, <1>3 DEF Dispatching
<1>10. Connected'
  BY <1>2, <1>3, <1>4 DEF Connected
<1>11. Reporting'
  BY <1>2, <1>4 DEF Connected, Reporting, Ended
<1> QED
  BY <1>5, <1>6, <1>7, <1>8, <1>9, <1>10, <1>11

\* handleResult: a caller is told how its own command has ended.
LEMMA HandleResultInv ==
  ASSUME RelayInv, NEW live \in BOOLEAN, NEW c, Ended(c), HandleResult(live, c),
         live => wire = "sent",
         UNCHANGED <<server, page, outcome, launchVars, breaks>>,
         strays' \subseteq strays
  PROVE  RelayInv'
<1> USE DEF RelayInv
<1>1. /\ Begun' = Begun /\ QueuedCommands' = QueuedCommands
      /\ UNCHANGED <<commandQueue, pendingPoll, current, server, page, outcome, chrome,
                     launch, cleanup, breaks>>
      /\ wire' = wire \/ (wire' = "ok" /\ wire = "sent")
  BY DEF HandleResult, Begun, QueuedCommands, launchVars
<1>2. /\ call \in [Commands -> Calls] /\ call' \in [Commands -> Calls]
      /\ \A d \in Commands : call'[d] = call[d] \/
           /\ d = c /\ call[d] = "open"
           /\ call'[d] = IF outcome[c] = "ok" THEN "resolved" ELSE "rejected"
  BY DEF RelayTypeOK, HandleResult, OwnPending, Calls
<1>3. \A d \in Commands : call'[d] = "none" <=> call[d] = "none"
  BY <1>2
<1>4. RelayTypeOK' /\ OnceInOrder'
  BY <1>1, <1>2 DEF RelayTypeOK, Answers, OnceInOrder
<1>5. ToldTheTruth'
  BY <1>1, <1>2 DEF ToldTheTruth, Ended
<1>6. StopIsFinal'
  BY <1>1, <1>2 DEF StopIsFinal
<1>7. Dispatching'
  <2>1. QueuedCommands \subseteq Commands /\ Begun \subseteq Commands
    BY DEF RelayTypeOK, QueuedCommands, Begun
  <2>2. \A d \in QueuedCommands' \cup Begun' : call'[d] # "none"
    BY <1>1, <1>3, <2>1 DEF Dispatching
  <2>3. wire' = "command" => current' \in Commands /\ call'[current'] # "none"
    BY <1>1, <1>3 DEF Dispatching
  <2>4. \A d, e \in Commands :
          d < Last /\ e < d /\ call'[d] # "none" => call'[e] # "none"
    BY <1>3 DEF Dispatching
  <2>5. cleanup' = "no" => call'[Last] = "none"
    BY <1>1, <1>3, CommandFacts DEF Dispatching
  <2> QED
    BY <2>2, <2>3, <2>4, <2>5 DEF Dispatching
<1>8. Connected' /\ Reporting'
  BY <1>1 DEF Connected, Reporting, Ended
<1> QED
  BY <1>4, <1>5, <1>6, <1>7, <1>8

\* A step that sends no command and begins none.
LEMMA QuietFacts ==
  ASSUME RelayInv, commandQueue' \in {commandQueue, <<>>}, Begun' = Begun,
         \A c \in Commands : call'[c] = "none" <=> call[c] = "none",
         wire' = "command" => wire = "command" /\ current' = current,
         cleanup' = "no" => cleanup = "no"
  PROVE  OnceInOrder' /\ Dispatching'
<1> USE DEF RelayInv
<1>1. QueuedCommands' \subseteq QueuedCommands /\ QueuedCommands \subseteq Commands /\ Begun \subseteq Commands
  BY DEF RelayTypeOK, QueuedCommands, Begun
<1>2. Ascending(commandQueue)
  BY OrderFacts
<1>3. Ascending(commandQueue')
  <2>1. Ascending(<<>>)
    BY DEF Ascending
  <2> QED
    BY <1>2, <2>1
<1>4. OnceInOrder'
  BY <1>1, <1>3, OrderFacts
<1>5. Dispatching'
  BY <1>1, CommandFacts DEF Dispatching
<1> QED
  BY <1>4, <1>5

LEMMA TimeoutsInv ==
  ASSUME RelayInv, Timeouts
  PROVE  RelayInv'
<1> USE DEF RelayInv
<1>1. ASSUME NEW c \in Commands, CommandTimeout(c)
      PROVE  RelayInv'
  <2>1. /\ call \in [Commands -> Calls] /\ call[c] = "open"
        /\ call' = [call EXCEPT ![c] = "timed out"]
    BY <1>1 DEF CommandTimeout, RelayTypeOK
  <2>2. UNCHANGED <<commandQueue, pendingPoll, server, page, wire, current, strays,
                    outcome, chrome, launch, cleanup, breaks>>
    BY <1>1 DEF CommandTimeout, pageVars, launchVars
  <2>3. call' \in [Commands -> Calls]
    BY <2>1 DEF Calls
  <2>4. \A d \in Commands : \/ call'[d] = call[d]
                            \/ call[d] = "open" /\ call'[d] = "timed out"
    BY <2>1
  <2>5. RelayTypeOK'
    BY <2>2, <2>3 DEF RelayTypeOK
  <2>6. ToldTheTruth'
    BY <2>2, <2>4 DEF ToldTheTruth
  <2>7. StopIsFinal'
    BY <2>2, <2>4 DEF StopIsFinal
  <2>8. Connected' /\ Reporting' /\ Begun' = Begun
    BY <2>2 DEF Connected, Reporting, Ended, Begun
  <2> QED
    BY <2>2, <2>4, <2>5, <2>6, <2>7, <2>8, QuietFacts
<1>2. ASSUME PollTimeout
      PROVE  RelayInv'
  <2>1. /\ UNCHANGED <<call, commandQueue, server, page, current, strays, outcome, chrome,
                       launch, cleanup, breaks>>
        /\ pendingPoll' = "none"
        /\ wire' = IF pendingPoll = "live" THEN "empty" ELSE wire
    BY <1>2 DEF PollTimeout, launchVars
  <2>2. RelayTypeOK' /\ ToldTheTruth' /\ StopIsFinal'
    BY <2>1 DEF RelayTypeOK, Answers, ToldTheTruth, StopIsFinal
  <2>3. Connected' /\ Reporting' /\ Begun' = Begun
    BY <2>1 DEF Connected, Reporting, Ended, Begun
  <2> QED
    BY <2>1, <2>2, <2>3, QuietFacts
<1>3. ASSUME LaunchTimeout
      PROVE  RelayInv'
  <2>1. /\ UNCHANGED <<call, commandQueue, pendingPoll, server, page, wire, current, strays,
                       outcome, chrome, cleanup, breaks>>
        /\ launch' = "failed"
    BY <1>3 DEF LaunchTimeout, relayVars, pageVars
  <2>2. RelayTypeOK' /\ ToldTheTruth' /\ StopIsFinal'
    BY <2>1 DEF RelayTypeOK, ToldTheTruth, StopIsFinal
  <2>3. Connected' /\ Reporting' /\ Begun' = Begun
    BY <2>1 DEF Connected, Reporting, Ended, Begun
  <2> QED
    BY <2>1, <2>2, <2>3, QuietFacts
<1> QED
  BY <1>1, <1>2, <1>3 DEF Timeouts

LEMMA ReadInv ==
  ASSUME RelayInv, Read
  PROVE  RelayInv'
<1>1. /\ wire = "sent" /\ page \in {"registering", "polling", "posting"}
      /\ Handle(Kind, current, TRUE)
      /\ UNCHANGED <<server, page, strays, outcome, chrome, cleanup, breaks>>
  BY DEF RelayInv, Connected, Read
<1>2. CASE page = "polling"
  BY <1>1, <1>2, HandlePollInv DEF Handle, Kind, launchVars
<1>3. CASE page = "posting"
  <2>1. Ended(current)
    BY <1>3 DEF RelayInv, Reporting
  <2> QED
    BY <1>1, <1>3, <2>1, HandleResultInv DEF Handle, Kind, launchVars
<1>4. CASE page = "registering"
  BY <1>1, <1>4, HandleRegisterInv DEF Handle, Kind
<1> QED
  BY <1>1, <1>2, <1>3, <1>4

LEMMA ReadStrayInv ==
  ASSUME RelayInv, NEW r \in strays, ReadStray(r)
  PROVE  RelayInv'
<1>1. /\ Handle(r.kind, r.cmd, FALSE) /\ strays' \subseteq strays
      /\ UNCHANGED <<server, page, outcome, chrome, cleanup, breaks>>
  BY DEF ReadStray
<1>2. CASE r.kind = "poll" /\ HandlePoll(FALSE) /\ UNCHANGED launch
  BY <1>1, <1>2, HandlePollInv DEF launchVars
<1>3. CASE r.kind = "result" /\ HandleResult(FALSE, r.cmd) /\ UNCHANGED launch
  <2>1. Ended(r.cmd)
    BY <1>3 DEF RelayInv, Reporting
  <2> QED
    BY <1>1, <1>3, <2>1, HandleResultInv DEF launchVars
<1>4. CASE r.kind = "register" /\ HandleRegister(FALSE)
  BY <1>1, <1>4, HandleRegisterInv
<1> QED
  BY <1>1, <1>2, <1>3, <1>4 DEF Handle

LEMMA SendInv ==
  ASSUME RelayInv, Send
  PROVE  RelayInv'
<1> USE DEF RelayInv
<1>1. /\ page \in {"register", "poll", "post"} /\ wire = "none" /\ pendingPoll # "live"
      /\ UNCHANGED <<call, commandQueue, pendingPoll, server, strays, outcome, chrome, launch,
                     cleanup, breaks>>
      /\ \/ /\ wire' = "sent" /\ page' = Sending[page] /\ current' = current
         \/ /\ wire' = wire /\ page' = "sleep" /\ current' = Nothing
  BY DEF Send, Sending, Connected, RelayTypeOK, Answers, relayVars, launchVars
<1>2. /\ Sending["register"] = "registering" /\ Sending["poll"] = "polling"
      /\ Sending["post"] = "posting"
  BY DEF Sending
<1>3. /\ wire' \in {"sent", "none"} /\ current' \in {current, Nothing}
      /\ page' \in {"registering", "polling", "posting", "sleep"}
      /\ page' = "posting" => page = "post" /\ current' = current
      /\ wire' = "sent" => page' \in {"registering", "polling", "posting"}
  BY <1>1, <1>2
<1>4. RelayTypeOK'
  BY <1>1, <1>3 DEF RelayTypeOK
<1>5. ToldTheTruth' /\ StopIsFinal' /\ Begun' = Begun
  BY <1>1 DEF ToldTheTruth, StopIsFinal, Begun
<1>6. Connected'
  BY <1>1, <1>3 DEF Connected
<1>7. Reporting'
  BY <1>1, <1>3 DEF Reporting, Ended
<1> QED
  BY <1>1, <1>3, <1>4, <1>5, <1>6, <1>7, QuietFacts

\* The page passes a command to the service worker: it is newer than those begun.
LEMMA BeginInv ==
  ASSUME RelayInv, Receive, wire = "command"
  PROVE  RelayInv'
<1> USE DEF RelayInv
<1>1. /\ wire' = "none" /\ page' = "exec" /\ current' = current
      /\ outcome' = [outcome EXCEPT ![current] = "running"]
      /\ UNCHANGED <<call, commandQueue, pendingPoll, server, strays, chrome, launch, cleanup,
                     breaks>>
  BY DEF Receive, relayVars, launchVars
<1>2. /\ current \in Commands /\ call[current] # "none"
      /\ outcome \in [Commands -> {"none", "running", "ok", "error"}]
  BY DEF Dispatching, RelayTypeOK
<1>3. outcome[current] = "none"
  BY <1>2, CommandFacts DEF OnceInOrder, Begun
<1>4. \A c \in Commands : outcome'[c] = IF c = current THEN "running" ELSE outcome[c]
  BY <1>1, <1>2
<1>5. Begun' = Begun \cup {current} /\ QueuedCommands' = QueuedCommands
  BY <1>1, <1>2, <1>4 DEF Begun, QueuedCommands
<1>6. RelayTypeOK'
  BY <1>1, <1>2 DEF RelayTypeOK
<1>7. OnceInOrder'
  BY <1>1, <1>5 DEF OnceInOrder
<1>8. ToldTheTruth' /\ StopIsFinal'
  BY <1>1, <1>3, <1>4 DEF ToldTheTruth, StopIsFinal
<1>9. Dispatching'
  BY <1>1, <1>2, <1>5 DEF Dispatching
<1>10. Connected'
  BY <1>1 DEF Connected
<1>11. Reporting'
  BY <1>1, <1>3, <1>4 DEF Reporting, Ended
<1> QED
  BY <1>6, <1>7, <1>8, <1>9, <1>10, <1>11

LEMMA PageStepsInv ==
  ASSUME RelayInv, PageSteps
  PROVE  RelayInv'
<1> USE DEF RelayInv
<1>1. ASSUME Receive, wire # "command"
      PROVE  RelayInv'
  <2>1. /\ wire \in Answers /\ wire' = "none" /\ page' \in {"poll", "ended"}
        /\ current' = Nothing
        /\ UNCHANGED <<call, commandQueue, pendingPoll, server, outcome, strays, chrome, launch,
                       cleanup, breaks>>
    BY <1>1 DEF Receive, relayVars, launchVars
  <2>2. RelayTypeOK' /\ ToldTheTruth' /\ StopIsFinal' /\ Begun' = Begun
    BY <2>1 DEF RelayTypeOK, ToldTheTruth, StopIsFinal, Begun
  <2>3. Connected' /\ Reporting'
    BY <2>1 DEF Connected, Reporting, Ended, Answers
  <2> QED
    BY <2>1, <2>2, <2>3, QuietFacts
<1>2. ASSUME Wake
      PROVE  RelayInv'
  <2>1. /\ page = "sleep" /\ page' = "register"
        /\ UNCHANGED <<call, commandQueue, pendingPoll, server, wire, current, outcome, strays,
                       chrome, launch, cleanup, breaks>>
    BY <1>2 DEF Wake, relayVars, launchVars
  <2>2. RelayTypeOK' /\ ToldTheTruth' /\ StopIsFinal' /\ Begun' = Begun
    BY <2>1 DEF RelayTypeOK, ToldTheTruth, StopIsFinal, Begun
  <2>3. Connected' /\ Reporting'
    BY <2>1 DEF Connected, Reporting, Ended
  <2> QED
    BY <2>1, <2>2, <2>3, QuietFacts
<1> QED
  BY <1>1, <1>2, SendInv, BeginInv DEF PageSteps

\* The service worker is done with a command, which is not reported before.
LEMMA FinishInv ==
  ASSUME RelayInv, NEW c \in Commands, Finish(c)
  PROVE  RelayInv'
<1> USE DEF RelayInv
<1>1. PICK o \in {"ok", "error"} : outcome' = [outcome EXCEPT ![c] = o]
  BY DEF Finish
<1>2. /\ outcome \in [Commands -> {"none", "running", "ok", "error"}]
      /\ outcome[c] = "running"
      /\ \A d \in Commands : outcome'[d] = IF d = c THEN o ELSE outcome[d]
  BY <1>1 DEF Finish, RelayTypeOK
<1>3. /\ UNCHANGED <<call, commandQueue, pendingPoll, server, wire, current, strays, chrome,
                     launch, cleanup, breaks>>
      /\ page' = page \/ (page = "exec" /\ page' = "post" /\ current = c)
  BY DEF Finish, relayVars, launchVars
<1>4. RelayTypeOK'
  BY <1>1, <1>2, <1>3 DEF RelayTypeOK
<1>5. ToldTheTruth' /\ StopIsFinal'
  BY <1>2, <1>3 DEF ToldTheTruth, StopIsFinal
<1>6. Begun' = Begun
  BY <1>2 DEF Begun
<1>7. Connected'
  BY <1>3 DEF Connected
<1>8. Reporting'
  BY <1>2, <1>3 DEF Reporting, Ended
<1> QED
  BY <1>3, <1>4, <1>5, <1>6, <1>7, <1>8, QuietFacts

\* What a broken connection leaves: a result under way is of a command that is over.
LEMMA StrayFacts ==
  ASSUME RelayInv, wire = "sent" \/ strays' = strays,
         strays' \in {strays, strays \cup {[kind |-> Kind, cmd |-> current, break |-> breaks]}}
  PROVE  /\ strays' \subseteq Requests
         /\ \A r \in strays' : r.kind = "result" => Ended(r.cmd)
<1> USE DEF RelayInv
<1>1. CASE strays' = strays
  BY <1>1 DEF RelayTypeOK, Reporting
<1>2. CASE wire = "sent"
  <2> DEFINE new == [kind |-> Kind, cmd |-> current, break |-> breaks]
  <2>1. page \in {"registering", "polling", "posting"}
    BY <1>2 DEF Connected
  <2>2. /\ Kind \in {"register", "poll", "result"}
        /\ Kind = "result" => page = "posting"
    BY <2>1 DEF Kind
  <2>3. new \in Requests
    BY <2>2 DEF RelayTypeOK, Requests
  <2>4. new.kind = "result" => Ended(new.cmd)
    BY <2>2 DEF Reporting
  <2> HIDE DEF new
  <2>5. strays' \subseteq strays \cup {new}
    BY DEF new
  <2> QED
    BY <2>3, <2>4, <2>5 DEF RelayTypeOK, Reporting
<1> QED
  BY <1>1, <1>2

LEMMA BreakInv ==
  ASSUME RelayInv, Break
  PROVE  RelayInv'
<1> USE DEF RelayInv
<1>1. /\ wire' = "none" /\ current' = Nothing /\ page' \in {"sleep", "register"}
      /\ pendingPoll' = IF wire = "parked" THEN "dead" ELSE pendingPoll
      /\ UNCHANGED <<call, commandQueue, server, outcome, chrome, launch, cleanup>>
      /\ breaks' = breaks + 1 /\ breaks < MaxBreaks
  BY DEF Break, Disconnect, launchVars
<1>2. /\ wire = "sent" \/ strays' = strays
      /\ strays' \in {strays, strays \cup {[kind |-> Kind, cmd |-> current, break |-> breaks]}}
  BY DEF Break, Disconnect
<1>3. /\ strays' \subseteq Requests
      /\ \A r \in strays' : r.kind = "result" => Ended(r.cmd)
  BY <1>2, StrayFacts
<1>4. breaks' \in 0..MaxBreaks
  BY <1>1, RelayAssumption DEF RelayTypeOK
<1>5. RelayTypeOK'
  BY <1>1, <1>3, <1>4 DEF RelayTypeOK
<1>6. ToldTheTruth' /\ Begun' = Begun
  BY <1>1 DEF ToldTheTruth, Begun
<1>7. StopIsFinal'
  BY <1>1 DEF StopIsFinal, Connected
<1>8. Connected'
  BY <1>1 DEF Connected
<1>9. Reporting'
  BY <1>1, <1>3 DEF Reporting, Ended
<1> QED
  BY <1>1, <1>5, <1>6, <1>7, <1>8, <1>9, QuietFacts

\* stop(), the first time or again.
LEMMA StopFacts ==
  ASSUME RelayInv, Stop
  PROVE  /\ commandQueue' = <<>> /\ pendingPoll' = "none" /\ server' \in {"closing", "closed"}
         /\ call' \in [Commands -> Calls]
         /\ \A c \in Commands : call'[c] = IF call[c] = "open" THEN "stopped" ELSE call[c]
         /\ launch' \in {"waiting", "ready", "failed"}
<1> USE DEF RelayInv
<1>0. call \in [Commands -> Calls]
  BY DEF RelayTypeOK
<1>1. CASE server = "up"
  <2>1. call' = [c \in Commands |-> IF call[c] = "open" THEN "stopped" ELSE call[c]]
    BY <1>1 DEF Stop
  <2>2. call' \in [Commands -> Calls]
    BY <1>0, <2>1 DEF Calls
  <2> QED
    BY <1>1, <2>1, <2>2 DEF Stop, RelayTypeOK
<1>2. CASE server # "up"
  BY <1>0, <1>2 DEF Stop, StopIsFinal, RelayTypeOK
<1> QED
  BY <1>1, <1>2

LEMMA ExitInv ==
  ASSUME RelayInv, Exit
  PROVE  RelayInv'
<1> USE DEF RelayInv
<1>1. /\ chrome' = "gone" /\ page' = "ended" /\ wire' = "none" /\ current' = Nothing
      /\ UNCHANGED <<cleanup, breaks>> /\ Stop
      /\ outcome' = [c \in Commands |-> IF outcome[c] = "running" THEN "error" ELSE outcome[c]]
      /\ wire = "sent" \/ strays' = strays
      /\ strays' \in {strays, strays \cup {[kind |-> Kind, cmd |-> current, break |-> breaks]}}
  BY DEF Exit
<1>2. /\ commandQueue' = <<>> /\ pendingPoll' = "none" /\ server' \in {"closing", "closed"}
      /\ call' \in [Commands -> Calls]
      /\ \A c \in Commands : call'[c] = IF call[c] = "open" THEN "stopped" ELSE call[c]
      /\ launch' \in {"waiting", "ready", "failed"}
  BY <1>1, StopFacts
<1>3. /\ outcome \in [Commands -> {"none", "running", "ok", "error"}]
      /\ \A c \in Commands : outcome'[c] = IF outcome[c] = "running" THEN "error" ELSE outcome[c]
  BY <1>1 DEF RelayTypeOK
<1>4. outcome' \in [Commands -> {"none", "running", "ok", "error"}]
  BY <1>1, <1>3
<1>5. /\ strays' \subseteq Requests
      /\ \A r \in strays' : r.kind = "result" => Ended(r.cmd)
  BY <1>1, StrayFacts
<1>6. RelayTypeOK'
  <2>1. commandQueue' \in Seq(Commands)
    BY <1>2
  <2> QED
    BY <1>1, <1>2, <1>4, <1>5, <2>1 DEF RelayTypeOK
<1>7. ToldTheTruth'
  BY <1>2, <1>3 DEF ToldTheTruth
<1>8. StopIsFinal'
  BY <1>2 DEF StopIsFinal
<1>9. Begun' = Begun
  BY <1>3 DEF Begun
<1>10. Connected'
  BY <1>1, <1>2 DEF Connected
<1>11. Reporting'
  BY <1>1, <1>3, <1>5 DEF Reporting, Ended
<1>12. \A c \in Commands : call'[c] = "none" <=> call[c] = "none"
  BY <1>2
<1> QED
  BY <1>1, <1>2, <1>6, <1>7, <1>8, <1>9, <1>10, <1>11, <1>12, QuietFacts

LEMMA CleanupStepsInv ==
  ASSUME RelayInv, CleanupSteps
  PROVE  RelayInv'
<1> USE DEF RelayInv
<1>1. ASSUME Asked \/ Linger \/ Kill
      PROVE  RelayInv'
  <2>1. /\ UNCHANGED <<call, commandQueue, pendingPoll, server, page, wire, current, strays,
                       outcome, launch, breaks>>
        /\ cleanup' \in {"linger", "kill", "stop"}
        /\ chrome' \in {chrome, "killed"}
    BY <1>1 DEF Asked, Linger, Kill, relayVars, pageVars
  <2>2. RelayTypeOK' /\ ToldTheTruth' /\ StopIsFinal' /\ Begun' = Begun
    BY <2>1 DEF RelayTypeOK, ToldTheTruth, StopIsFinal, Begun
  <2>3. Connected' /\ Reporting'
    BY <2>1 DEF Connected, Reporting, Ended
  <2> QED
    BY <2>1, <2>2, <2>3, QuietFacts
<1>2. ASSUME StopRelay
      PROVE  RelayInv'
  <2>1. /\ UNCHANGED <<page, current, strays, outcome, chrome, breaks>>
        /\ wire' = IF server = "up" /\ pendingPoll = "live" THEN "gone" ELSE wire
        /\ cleanup' = "done" /\ Stop
    BY <1>2 DEF StopRelay
  <2>2. /\ commandQueue' = <<>> /\ pendingPoll' = "none" /\ server' \in {"closing", "closed"}
        /\ call' \in [Commands -> Calls]
        /\ \A c \in Commands : call'[c] = IF call[c] = "open" THEN "stopped" ELSE call[c]
        /\ launch' \in {"waiting", "ready", "failed"}
    BY <2>1, StopFacts
  <2>3. RelayTypeOK'
    <3>1. commandQueue' \in Seq(Commands)
      BY <2>2
    <3> QED
      BY <2>1, <2>2, <3>1 DEF RelayTypeOK, Answers
  <2>4. ToldTheTruth' /\ StopIsFinal' /\ Begun' = Begun
    BY <2>1, <2>2 DEF ToldTheTruth, StopIsFinal, Begun
  <2>5. Connected' /\ Reporting'
    BY <2>1, <2>2 DEF Connected, Reporting, Ended, StopIsFinal
  <2>6. \A c \in Commands : call'[c] = "none" <=> call[c] = "none"
    BY <2>2
  <2> QED
    BY <2>1, <2>2, <2>3, <2>4, <2>5, <2>6, QuietFacts
<1> QED
  BY <1>1, <1>2 DEF CleanupSteps

LEMMA ServerClosedInv ==
  ASSUME RelayInv, ServerClosed
  PROVE  RelayInv'
<1> USE DEF RelayInv
<1>1. /\ server = "closing" /\ server' = "closed"
      /\ UNCHANGED <<call, commandQueue, pendingPoll, page, wire, current, strays, outcome,
                     chrome, launch, cleanup, breaks>>
  BY DEF ServerClosed, pageVars, launchVars
<1>2. RelayTypeOK' /\ ToldTheTruth' /\ StopIsFinal' /\ Begun' = Begun
  BY <1>1 DEF RelayTypeOK, ToldTheTruth, StopIsFinal, Begun
<1>3. Connected' /\ Reporting'
  BY <1>1 DEF Connected, Reporting, Ended
<1> QED
  BY <1>1, <1>2, <1>3, QuietFacts

-----------------------------------------------------------------------------
(* The invariant, and what follows from it.                                *)

LEMMA InitInv == RelayInit => RelayInv
<1> SUFFICES ASSUME RelayInit PROVE RelayInv
  OBVIOUS
<1>1. QueuedCommands = {} /\ Begun = {}
  BY DEF RelayInit, QueuedCommands, Begun
<1>2. RelayTypeOK
  BY RelayAssumption DEF RelayInit, RelayTypeOK, Calls
<1>3. OnceInOrder
  BY <1>1 DEF RelayInit, OnceInOrder
<1>4. ToldTheTruth /\ StopIsFinal
  BY DEF RelayInit, ToldTheTruth, StopIsFinal
<1>5. Dispatching
  BY <1>1, CommandFacts DEF RelayInit, Dispatching
<1>6. Connected /\ Reporting
  BY DEF RelayInit, Connected, Reporting
<1> QED
  BY <1>2, <1>3, <1>4, <1>5, <1>6 DEF RelayInv

LEMMA NextInv == RelayInv /\ [RelayNext]_controlVars => RelayInv'
<1> SUFFICES ASSUME RelayInv, [RelayNext]_controlVars PROVE RelayInv'
  OBVIOUS
<1>1. CASE \E c \in Commands : Dispatch(c) \/ Finish(c)
  BY <1>1, DispatchInv, FinishInv
<1>2. CASE RelayReads
  BY <1>2, ReadInv, ReadStrayInv DEF RelayReads
<1>3. CASE UNCHANGED controlVars
  <2>1. UNCHANGED <<call, commandQueue, pendingPoll, server, page, wire, current, strays, outcome,
                    chrome, launch, cleanup, breaks>>
    BY <1>3 DEF controlVars, relayVars, pageVars, launchVars
  <2>2. QueuedCommands' = QueuedCommands /\ Begun' = Begun
    BY <2>1 DEF QueuedCommands, Begun
  <2> QED
    BY <2>1, <2>2 DEF RelayInv, RelayTypeOK, OnceInOrder, ToldTheTruth, StopIsFinal, Dispatching,
                      Connected, Reporting, Ended
<1> QED
  BY <1>1, <1>2, <1>3, TimeoutsInv, PageStepsInv, BreakInv, ExitInv, BeginCleanupInv,
     CleanupStepsInv, ServerClosedInv DEF RelayNext

\* Whatever breaks, commands begin once and in the order of their dispatch.
THEOREM CommandsInOrder == RelaySpec => []OnceInOrder
<1>1. RelayInv => OnceInOrder
  BY DEF RelayInv
<1> QED
  BY <1>1, InitInv, NextInv, PTL DEF RelaySpec

\* A caller is told what became of its own command, and after stop() none waits.
THEOREM CallersAreTold == RelaySpec => []CallersTold
<1>1. RelayInv => CallersTold
  BY DEF RelayInv, CallersTold
<1> QED
  BY <1>1, InitInv, NextInv, PTL DEF RelaySpec

-----------------------------------------------------------------------------
(* The invariant of the events.                                            *)

Increasing(s) == \A i, j \in DOMAIN s : i < j => s[i] < s[j]

\* The batch, and the queue behind it, are in the order of the capture.
InLine ==
  /\ Increasing(batch) /\ Increasing(relayEventQueue)
  /\ \A i \in DOMAIN batch, j \in DOMAIN relayEventQueue :
       batch[i] < relayEventQueue[j]
  /\ \A e \in Queued \cup InBatch : e <= made

\* The next batch ends no earlier than the last that was heard of: a batch that
\* failed comes back to the front of the queue, and is posted as a whole.
Reaches ==
  /\ newest <= made
  /\ batch # <<>> => newest <= batch[Len(batch)]
  /\ batch = <<>> /\ Len(relayEventQueue) >= MaxBatch =>
       newest <= relayEventQueue[MaxBatch]
  /\ batch = <<>> /\ relayEventQueue # <<>> /\ Len(relayEventQueue) < MaxBatch =>
       newest <= relayEventQueue[Len(relayEventQueue)]

\* What is under way was captured after the entries were last cleared.
Fresh ==
  /\ cleared <= made
  /\ \A e \in Queued \cup InBatch : e > cleared
  /\ start \in {"read", "done"} => \A e \in networkEntries : e > cleared

\* A batch that was read has been heard of.
Heard == batchRead => InBatch \subseteq received

EventsInv ==
  TypeOK /\ InLine /\ Reaches /\ Heard /\ InOrder /\ LossesCounted /\ Fresh

-----------------------------------------------------------------------------
(* The queue of events.                                                    *)

\* The smaller, and the greater, of two numbers.
LEMMA MinMaxOf ==
  ASSUME NEW a \in Int, NEW b \in Int
  PROVE  /\ Min({a, b}) = IF a <= b THEN a ELSE b
         /\ Max({a, b}) = IF a <= b THEN b ELSE a
<1>1. \E x \in {a, b} : \A y \in {a, b} : x =< y
  OBVIOUS
<1>2. \E x \in {a, b} : \A y \in {a, b} : x >= y
  OBVIOUS
<1>3. Min({a, b}) \in {a, b} /\ \A y \in {a, b} : Min({a, b}) =< y
  BY <1>1 DEF Min
<1>4. Max({a, b}) \in {a, b} /\ \A y \in {a, b} : Max({a, b}) >= y
  BY <1>2 DEF Max
<1>5. QED
  BY <1>3, <1>4

\* The batch is the front of the queue q, the rest stays.
LEMMA FlushTakesFront ==
  ASSUME EventsAssumption, NEW q \in Seq(Events), batch = <<>>, Flush(q)
  PROVE  \E n \in 0..Len(q) :
           /\ n <= MaxBatch
           /\ n = Len(q) \/ n = MaxBatch
           /\ batch' \in Seq(Events) /\ Len(batch') = n
           /\ \A i \in 1..n : batch'[i] = q[i]
           /\ relayEventQueue' \in Seq(Events)
           /\ Len(relayEventQueue') = Len(q) - n
           /\ \A i \in 1..Len(q) - n : relayEventQueue'[i] = q[n + i]
           /\ batchRead' = FALSE
<1> DEFINE n == Min({MaxBatch, Len(q)})
<1>1. Len(q) \in Nat /\ MaxBatch \in Nat \ {0} /\ \A i \in 1..Len(q) : q[i] \in Events
  BY LenProperties, ElementOfSeq DEF EventsAssumption
<1>2. n = IF MaxBatch <= Len(q) THEN MaxBatch ELSE Len(q)
  BY <1>1, MinMaxOf
<1>3. n \in 0..Len(q) /\ n <= MaxBatch /\ (n = Len(q) \/ n = MaxBatch)
  BY <1>1, <1>2
<1>4. /\ relayEventQueue' = SubSeq(q, n + 1, Len(q))
      /\ batch' = SubSeq(q, 1, n)
      /\ batchRead' = FALSE
  BY DEF Flush
<1>. HIDE DEF n
<1>5. /\ SubSeq(q, 1, n) \in Seq(Events)
      /\ Len(SubSeq(q, 1, n)) = n
      /\ \A i \in 1..n : SubSeq(q, 1, n)[i] = q[i]
  BY <1>1, <1>3, SubSeqProperties
<1>6. /\ SubSeq(q, n + 1, Len(q)) \in Seq(Events)
      /\ Len(SubSeq(q, n + 1, Len(q))) = Len(q) - n
      /\ \A i \in 1..Len(q) - n : SubSeq(q, n + 1, Len(q))[i] = q[n + i]
  BY <1>1, <1>3, SubSeqProperties
<1>7. QED
  BY <1>3, <1>4, <1>5, <1>6

\* While a batch is under way, the rest waits.
LEMMA FlushWaits ==
  ASSUME NEW q \in Seq(Events), batch # <<>>, Flush(q), batchRead \in BOOLEAN
  PROVE  relayEventQueue' = q /\ batch' = batch /\ batchRead' = batchRead
  BY SubSeqFull DEF Flush

\* A failed batch comes back before the queue, without its oldest if there is no room.
LEMMA PutBackIsFront ==
  ASSUME EventsAssumption, NEW q \in Seq(Events), NEW b \in Seq(Events), Len(q) <= Limit
  PROVE  \E n \in 0..Len(b) :
           /\ n + Len(q) <= Limit
           /\ n = 0 /\ b # <<>> => Len(q) = Limit
           /\ Lost(q, b) = Len(b) - n
           /\ PutBack(q, b) \in Seq(Events)
           /\ Len(PutBack(q, b)) = n + Len(q)
           /\ \A i \in 1..n : PutBack(q, b)[i] = b[Len(b) - n + i]
           /\ \A i \in 1..Len(q) : PutBack(q, b)[n + i] = q[i]
<1> DEFINE n == Min({Len(b), Limit - Len(q)})
           t == SubSeq(b, Len(b) - n + 1, Len(b))
<1>1. /\ Len(q) \in Nat /\ Len(b) \in Nat /\ Limit \in Nat
      /\ \A i \in 1..Len(b) : b[i] \in Events
      /\ b # <<>> => Len(b) > 0
  BY LenProperties, ElementOfSeq, EmptySeq DEF EventsAssumption
<1>2. n = IF Len(b) <= Limit - Len(q) THEN Len(b) ELSE Limit - Len(q)
  BY <1>1, MinMaxOf
<1>3. Lost(q, b) = IF 0 <= Len(b) + Len(q) - Limit THEN Len(b) + Len(q) - Limit ELSE 0
  <2> DEFINE x == Len(b) + Len(q) - Limit
  <2>1. x \in Int /\ 0 \in Int /\ Lost(q, b) = Max({0, x})
    BY <1>1 DEF Lost
  <2>. HIDE DEF x
  <2>2. Lost(q, b) = IF 0 <= x THEN x ELSE 0
    BY <2>1, MinMaxOf, Zenon
  <2>3. QED
    BY <2>2 DEF x
<1>4. PutBack(q, b) = t \o q
  BY DEF PutBack
<1>5. n \in 0..Len(b) /\ n + Len(q) <= Limit /\ (n = 0 /\ b # <<>> => Len(q) = Limit)
      /\ Lost(q, b) = Len(b) - n
  BY <1>1, <1>2, <1>3
<1>. HIDE DEF n
<1>6. /\ t \in Seq(Events) /\ Len(t) = n
      /\ \A i \in 1..n : t[i] = b[Len(b) - n + i]
  <2>1. \A i \in Len(b) - n + 1 .. Len(b) : b[i] \in Events
    BY <1>1, <1>5
  <2>2. /\ t \in Seq(Events)
        /\ Len(t) = IF Len(b) - n + 1 <= Len(b) THEN Len(b) - (Len(b) - n + 1) + 1 ELSE 0
        /\ \A i \in 1 .. Len(b) - (Len(b) - n + 1) + 1 : t[i] = b[Len(b) - n + 1 + i - 1]
    BY <1>1, <1>5, <2>1, SubSeqProperties
  <2>3. QED
    BY <1>1, <1>5, <2>2
<1>. HIDE DEF t
<1>7. /\ t \o q \in Seq(Events) /\ Len(t \o q) = n + Len(q)
      /\ \A i \in 1..n + Len(q) : (t \o q)[i] = IF i <= n THEN t[i] ELSE q[i - n]
  BY <1>6, ConcatProperties
<1>8. \A i \in 1..n : PutBack(q, b)[i] = b[Len(b) - n + i]
  BY <1>1, <1>4, <1>5, <1>6, <1>7
<1>9. \A i \in 1..Len(q) : PutBack(q, b)[n + i] = q[i]
  BY <1>1, <1>4, <1>5, <1>7
<1>10. QED
  BY <1>4, <1>5, <1>7, <1>8, <1>9

\* Taking elements away, and adding as many as are counted, keeps the losses counted.
LEMMA StillCounted ==
  ASSUME TypeOK, LossesCounted, NEW D, IsFiniteSet(D), NEW k \in Nat,
         Cardinality(D) <= k, Unheard' \subseteq Unheard \cup D, dropped' = dropped + k
  PROVE  LossesCounted'
<1>1. IsFiniteSet(1..made)
  BY FS_Interval DEF TypeOK
<1>2. IsFiniteSet(Unheard)
  BY <1>1, FS_Subset DEF Unheard
<1>3. /\ IsFiniteSet(Unheard \cup D) /\ IsFiniteSet(Unheard \cap D)
      /\ Cardinality(Unheard \cup D) =
           Cardinality(Unheard) + Cardinality(D) - Cardinality(Unheard \cap D)
  BY <1>2, FS_Union, FS_Subset
<1>4. /\ Cardinality(Unheard') <= Cardinality(Unheard \cup D)
      /\ IsFiniteSet(Unheard')
  BY <1>3, FS_Subset
<1>5. /\ Cardinality(Unheard) \in Nat /\ Cardinality(D) \in Nat
      /\ Cardinality(Unheard \cap D) \in Nat /\ Cardinality(Unheard') \in Nat
      /\ Cardinality(Unheard \cup D) \in Nat
  BY <1>2, <1>3, <1>4, FS_CardinalityType
<1>6. dropped \in Nat /\ Cardinality(Unheard) <= dropped
  BY DEF TypeOK, LossesCounted
<1>7. Cardinality(Unheard') <= dropped'
  BY <1>3, <1>4, <1>5, <1>6
<1>8. QED
  BY <1>7 DEF LossesCounted

LEMMA NoMoreLost ==
  ASSUME TypeOK, LossesCounted, Unheard' \subseteq Unheard, dropped' = dropped
  PROVE  LossesCounted'
<1>1. IsFiniteSet({}) /\ Cardinality({}) = 0
  BY FS_EmptySet
<1>2. dropped' = dropped + 0
  BY DEF TypeOK
<1>3. QED
  BY <1>1, <1>2, StillCounted

\* What every step starts from.
LEMMA Lengths ==
  ASSUME TypeOK
  PROVE  /\ Len(relayEventQueue) \in Nat /\ Len(batch) \in Nat
         /\ DOMAIN relayEventQueue = 1..Len(relayEventQueue)
         /\ DOMAIN batch = 1..Len(batch)
         /\ \A i \in 1..Len(relayEventQueue) : relayEventQueue[i] \in Nat \ {0}
         /\ \A i \in 1..Len(batch) : batch[i] \in Nat \ {0}
         /\ batch # <<>> <=> Len(batch) > 0
         /\ relayEventQueue # <<>> <=> Len(relayEventQueue) > 0
         /\ made \in Nat /\ newest \in Nat /\ cleared \in Nat
         /\ \A e \in received : e \in Nat
         /\ \A e \in networkEntries : e \in Nat
<1>1. relayEventQueue \in Seq(Events) /\ batch \in Seq(Events)
  BY DEF TypeOK
<1>2. /\ Len(relayEventQueue) \in Nat /\ Len(batch) \in Nat
      /\ DOMAIN relayEventQueue = 1..Len(relayEventQueue)
      /\ DOMAIN batch = 1..Len(batch)
  BY <1>1, LenProperties
<1>3. /\ \A i \in 1..Len(relayEventQueue) : relayEventQueue[i] \in Events
      /\ \A i \in 1..Len(batch) : batch[i] \in Events
  BY <1>1, ElementOfSeq
<1>4. Events \subseteq Nat \ {0}
  BY DEF Events
<1>5. /\ batch # <<>> <=> Len(batch) > 0
      /\ relayEventQueue # <<>> <=> Len(relayEventQueue) > 0
  BY <1>1, <1>2, EmptySeq
<1>6. received \subseteq Events /\ networkEntries \subseteq Events
      /\ made \in 0..MaxEvents /\ newest \in 0..MaxEvents /\ cleared \in 0..MaxEvents
  BY DEF TypeOK
<1>7. made \in Nat /\ newest \in Nat /\ cleared \in Nat
  BY <1>6
<1>8. /\ \A e \in received : e \in Nat
      /\ \A e \in networkEntries : e \in Nat
  BY <1>4, <1>6
<1>9. /\ \A i \in 1..Len(relayEventQueue) : relayEventQueue[i] \in Nat \ {0}
      /\ \A i \in 1..Len(batch) : batch[i] \in Nat \ {0}
  BY <1>3, <1>4
<1>10. QED
  BY <1>2, <1>5, <1>7, <1>8, <1>9

Of(s) == {s[i] : i \in 1..Len(s)}

\* The invariant of a queue q and a batch b, apart from what was heard of.
Line(q, b, m) ==
  /\ q \in Seq(Events) /\ Len(q) <= Limit
  /\ b \in Seq(Events) /\ Len(b) <= MaxBatch
  /\ \A i, j \in 1..Len(b) : i < j => b[i] < b[j]
  /\ \A i, j \in 1..Len(q) : i < j => q[i] < q[j]
  /\ \A i \in 1..Len(b), j \in 1..Len(q) : b[i] < q[j]
  /\ \A i \in 1..Len(b) : b[i] <= m
  /\ \A i \in 1..Len(q) : q[i] <= m

Ends(q, b, last) ==
  /\ Len(b) > 0 => last <= b[Len(b)]
  /\ Len(b) = 0 /\ Len(q) >= MaxBatch => last <= q[MaxBatch]
  /\ Len(b) = 0 /\ Len(q) > 0 /\ Len(q) < MaxBatch => last <= q[Len(q)]

LEMMA LineIs ==
  ASSUME TypeOK
  PROVE  /\ InLine <=> Line(relayEventQueue, batch, made)
         /\ Reaches <=> newest <= made /\ Ends(relayEventQueue, batch, newest)
         /\ Queued = Of(relayEventQueue) /\ InBatch = Of(batch)
<1>1. Queued = Of(relayEventQueue) /\ InBatch = Of(batch)
  BY Lengths DEF Queued, InBatch, Of
<1>2. (\A e \in Queued \cup InBatch : e <= made) <=>
        /\ \A i \in 1..Len(batch) : batch[i] <= made
        /\ \A i \in 1..Len(relayEventQueue) : relayEventQueue[i] <= made
  BY <1>1 DEF Of
<1>3. InLine <=> Line(relayEventQueue, batch, made)
  BY <1>2, Lengths DEF InLine, Line, Increasing, TypeOK
<1>4. Reaches <=> newest <= made /\ Ends(relayEventQueue, batch, newest)
  BY Lengths DEF Reaches, Ends
<1>5. QED
  BY <1>1, <1>3, <1>4

\* The queue after a flush, and after a batch was put back, is in line again.
LEMMA FlushInLine ==
  ASSUME EventsAssumption, NEW q, NEW m \in Nat, NEW last \in Nat,
         Line(q, batch, m), Ends(q, batch, last), Flush(q), batchRead \in BOOLEAN
  PROVE  /\ Line(relayEventQueue', batch', m)
         /\ Ends(relayEventQueue', batch', last)
         /\ batchRead' \in BOOLEAN
         /\ batchRead' => batchRead /\ batch' = batch
         /\ Of(relayEventQueue') \cup Of(batch') = Of(q) \cup Of(batch)
<1>1. /\ q \in Seq(Events) /\ Len(q) \in Nat /\ batch \in Seq(Events) /\ Len(batch) \in Nat
      /\ MaxBatch \in Nat \ {0}
      /\ \A i \in 1..Len(q) : q[i] \in Nat
      /\ batch = <<>> => Len(batch) = 0
  <2>1. q \in Seq(Events) /\ batch \in Seq(Events)
    BY DEF Line
  <2>2. \A i \in 1..Len(q) : q[i] \in Events
    BY <2>1, ElementOfSeq
  <2>3. QED
    BY <2>1, <2>2, LenProperties, EmptySeq DEF EventsAssumption, Events
<1>2. CASE batch # <<>>
  BY <1>1, <1>2, FlushWaits
<1>3. CASE batch = <<>>
  <2>1. PICK n \in 0..Len(q) :
          /\ n <= MaxBatch
          /\ n = Len(q) \/ n = MaxBatch
          /\ batch' \in Seq(Events) /\ Len(batch') = n
          /\ \A i \in 1..n : batch'[i] = q[i]
          /\ relayEventQueue' \in Seq(Events)
          /\ Len(relayEventQueue') = Len(q) - n
          /\ \A i \in 1..Len(q) - n : relayEventQueue'[i] = q[n + i]
          /\ batchRead' = FALSE
    BY <1>1, <1>3, FlushTakesFront
  <2>2. /\ Len(q) <= Limit
        /\ \A i, j \in 1..Len(q) : i < j => q[i] < q[j]
        /\ \A i \in 1..Len(q) : q[i] <= m
        /\ Len(q) >= MaxBatch => last <= q[MaxBatch]
        /\ Len(q) > 0 /\ Len(q) < MaxBatch => last <= q[Len(q)]
        /\ Len(batch) = 0 /\ Limit \in Nat
    BY <1>1, <1>3 DEF Line, Ends, EventsAssumption
  <2>3. Line(relayEventQueue', batch', m)
    <3>1. \A i, j \in 1..Len(q) - n : n + i \in 1..Len(q) /\ (i < j => n + i < n + j)
      BY <1>1, <2>1
    <3>2. \A i \in 1..n, j \in 1..Len(q) - n : i \in 1..Len(q) /\ n + j \in 1..Len(q) /\ i < n + j
      BY <1>1, <2>1
    <3>3. /\ \A i, j \in 1..Len(batch') : i < j => batch'[i] < batch'[j]
          /\ \A i \in 1..Len(batch') : batch'[i] <= m
          /\ Len(batch') <= MaxBatch /\ Len(relayEventQueue') <= Limit
      BY <1>1, <2>1, <2>2
    <3>4. /\ \A i, j \in 1..Len(relayEventQueue') :
               i < j => relayEventQueue'[i] < relayEventQueue'[j]
          /\ \A i \in 1..Len(relayEventQueue') : relayEventQueue'[i] <= m
      <4>1. ASSUME NEW i \in 1..Len(relayEventQueue')
            PROVE  relayEventQueue'[i] = q[n + i] /\ n + i \in 1..Len(q)
        BY <1>1, <2>1, <3>1
      <4>2. \A i, j \in 1..Len(relayEventQueue') : i < j => n + i < n + j
        BY <1>1, <2>1
      <4>3. QED
        BY <2>2, <4>1, <4>2
    <3>5. \A i \in 1..Len(batch'), j \in 1..Len(relayEventQueue') :
            batch'[i] < relayEventQueue'[j]
      BY <2>1, <2>2, <3>2
    <3>6. QED
      BY <2>1, <3>3, <3>4, <3>5 DEF Line
  <2>4. Ends(relayEventQueue', batch', last)
    <3>1. CASE n = 0
      BY <1>1, <2>1, <2>2, <3>1 DEF Ends
    <3>2. CASE n > 0
      <4>1. last <= q[n]
        BY <1>1, <2>1, <2>2, <3>2
      <4>2. QED
        BY <1>1, <2>1, <3>2, <4>1 DEF Ends
    <3>3. QED
      BY <2>1, <3>1, <3>2
  <2>5. Of(batch') \cup Of(relayEventQueue') = Of(q)
    <3>1. ASSUME NEW i \in 1..n
          PROVE  batch'[i] \in Of(q)
      BY <1>1, <2>1 DEF Of
    <3>2. ASSUME NEW i \in 1..Len(q) - n
          PROVE  relayEventQueue'[i] \in Of(q)
      <4>1. n + i \in 1..Len(q)
        BY <1>1, <2>1
      <4>2. QED
        BY <2>1, <4>1 DEF Of
    <3>3. ASSUME NEW i \in 1..Len(q)
          PROVE  q[i] \in Of(batch') \cup Of(relayEventQueue')
      <4>1. CASE i <= n
        <5>1. i \in 1..n
          BY <1>1, <4>1
        <5>2. QED
          BY <2>1, <5>1 DEF Of
      <4>2. CASE i > n
        <5>1. i - n \in 1..Len(q) - n /\ n + (i - n) = i
          BY <1>1, <4>2
        <5>2. relayEventQueue'[i - n] = q[i]
          BY <2>1, <5>1
        <5>3. QED
          BY <2>1, <5>1, <5>2 DEF Of
      <4>3. QED
        BY <1>1, <4>1, <4>2
    <3>4. QED
      BY <2>1, <3>1, <3>2, <3>3 DEF Of
  <2>6. Of(batch) = {}
    BY <2>2 DEF Of
  <2>7. QED
    BY <2>1, <2>3, <2>4, <2>5, <2>6
<1>4. QED
  BY <1>2, <1>3

LEMMA PutBackInLine ==
  ASSUME EventsAssumption, NEW q, NEW b, NEW m \in Nat, NEW last \in Nat,
         Line(q, b, m), Ends(q, b, last), b # <<>>
  PROVE  /\ Line(PutBack(q, b), <<>>, m)
         /\ Ends(PutBack(q, b), <<>>, last)
         /\ Of(PutBack(q, b)) \subseteq Of(q) \cup Of(b)
         /\ Lost(q, b) \in Nat
         /\ \E D : /\ IsFiniteSet(D) /\ Cardinality(D) <= Lost(q, b)
                   /\ Of(q) \cup Of(b) \subseteq Of(PutBack(q, b)) \cup D
<1> DEFINE p == PutBack(q, b)
<1>1. /\ q \in Seq(Events) /\ Len(q) \in Nat /\ b \in Seq(Events) /\ Len(b) \in Nat \ {0}
      /\ MaxBatch \in Nat \ {0} /\ Limit \in Nat /\ MaxBatch <= Limit
      /\ \A i \in 1..Len(q) : q[i] \in Nat
      /\ \A i \in 1..Len(b) : b[i] \in Nat
      /\ Len(<<>>) = 0 /\ <<>> \in Seq(Events)
  <2>1. q \in Seq(Events) /\ b \in Seq(Events)
    BY DEF Line
  <2>2. /\ \A i \in 1..Len(q) : q[i] \in Events
        /\ \A i \in 1..Len(b) : b[i] \in Events
    BY <2>1, ElementOfSeq
  <2>3. QED
    BY <2>1, <2>2, LenProperties, EmptySeq DEF EventsAssumption, Events
<1>2. /\ Len(q) <= Limit /\ Len(b) <= MaxBatch
      /\ \A i, j \in 1..Len(b) : i < j => b[i] < b[j]
      /\ \A i, j \in 1..Len(q) : i < j => q[i] < q[j]
      /\ \A i \in 1..Len(b), j \in 1..Len(q) : b[i] < q[j]
      /\ \A i \in 1..Len(b) : b[i] <= m
      /\ \A i \in 1..Len(q) : q[i] <= m
      /\ last <= b[Len(b)]
  BY <1>1 DEF Line, Ends
<1>3. PICK n \in 0..Len(b) :
        /\ n + Len(q) <= Limit
        /\ n = 0 /\ b # <<>> => Len(q) = Limit
        /\ Lost(q, b) = Len(b) - n
        /\ p \in Seq(Events)
        /\ Len(p) = n + Len(q)
        /\ \A i \in 1..n : p[i] = b[Len(b) - n + i]
        /\ \A i \in 1..Len(q) : p[n + i] = q[i]
  BY <1>1, <1>2, PutBackIsFront
<1>. HIDE DEF p
<1>4. ASSUME NEW i \in 1..Len(p)
      PROVE  \/ i \in 1..n /\ Len(b) - n + i \in 1..Len(b) /\ p[i] = b[Len(b) - n + i]
             \/ i \in n+1..Len(p) /\ i - n \in 1..Len(q) /\ p[i] = q[i - n]
  <2>1. CASE i <= n
    BY <1>1, <1>3, <2>1
  <2>2. CASE i > n
    <3>1. i - n \in 1..Len(q) /\ n + (i - n) = i
      BY <1>1, <1>3, <2>2
    <3>2. QED
      BY <1>1, <1>3, <2>2, <3>1
  <2>3. QED
    BY <1>1, <1>3, <2>1, <2>2
<1>5. ASSUME NEW i \in 1..Len(p), NEW j \in 1..Len(p), i < j
      PROVE  p[i] < p[j]
  <2>0. i \in Nat /\ j \in Nat /\ i < j /\ n \in Nat
    BY <1>3, <1>5
  <2>1. CASE j <= n
    <3>1. /\ Len(b) - n + i \in 1..Len(b) /\ p[i] = b[Len(b) - n + i]
          /\ Len(b) - n + j \in 1..Len(b) /\ p[j] = b[Len(b) - n + j]
      BY <1>4, <2>0, <2>1
    <3>2. Len(b) - n + i < Len(b) - n + j
      BY <1>1, <2>0
    <3>3. QED
      BY <1>2, <3>1, <3>2
  <2>2. CASE i <= n /\ n < j
    <3>1. /\ Len(b) - n + i \in 1..Len(b) /\ p[i] = b[Len(b) - n + i]
          /\ j - n \in 1..Len(q) /\ p[j] = q[j - n]
      BY <1>4, <2>0, <2>2
    <3>2. QED
      BY <1>2, <3>1
  <2>3. CASE n < i
    <3>1. /\ i - n \in 1..Len(q) /\ p[i] = q[i - n]
          /\ j - n \in 1..Len(q) /\ p[j] = q[j - n]
      <4>1. ~(i \in 1..n) /\ ~(j \in 1..n)
        BY <2>0, <2>3
      <4>2. QED
        BY <1>4, <4>1
    <3>2. i - n < j - n
      BY <2>0
    <3>3. QED
      BY <1>2, <3>1, <3>2
  <2>4. QED
    BY <2>0, <2>1, <2>2, <2>3
<1>6. \A i \in 1..Len(p) : p[i] <= m
  BY <1>2, <1>4
<1>7. Line(p, <<>>, m)
  BY <1>1, <1>3, <1>5, <1>6 DEF Line
<1>8. Ends(p, <<>>, last)
  <2>1. CASE n = 0
    <3>1. Len(q) = Limit /\ Len(p) = Len(q)
      BY <1>1, <1>3, <2>1
    <3>2. MaxBatch \in 1..Len(p) /\ p[MaxBatch] = q[MaxBatch]
      BY <1>1, <1>3, <2>1, <3>1
    <3>3. last <= p[MaxBatch]
      BY <1>1, <1>2, <3>1, <3>2
    <3>4. QED
      BY <1>1, <3>1, <3>3 DEF Ends
  <2>2. CASE n > 0
    <3>1. n \in 1..Len(p) /\ p[n] = b[Len(b)]
      BY <1>1, <1>3, <1>4, <2>2
    <3>2. \A i \in 1..Len(p) : p[i] \in Nat
      BY <1>1, <1>4
    <3>3. \A i \in 1..Len(p) : n <= i => last <= p[i]
      BY <1>1, <1>2, <1>3, <1>5, <3>1, <3>2
    <3>4. QED
      BY <1>1, <1>2, <1>3, <2>2, <3>3 DEF Ends
  <2>3. QED
    BY <1>3, <2>1, <2>2
<1>9. Of(p) \subseteq Of(q) \cup Of(b)
  BY <1>4 DEF Of
<1>10. Lost(q, b) \in Nat
  BY <1>1, <1>3
<1>11. \E D : /\ IsFiniteSet(D) /\ Cardinality(D) <= Lost(q, b)
              /\ Of(q) \cup Of(b) \subseteq Of(p) \cup D
  <2> DEFINE k == Len(b) - n
             f == [i \in 1..k |-> b[i]]
             D == {f[i] : i \in 1..k}
  <2>0. k \in Nat /\ 1 \in Int
    BY <1>1, <1>3
  <2>. HIDE DEF k
  <2>1. k \in Nat /\ IsFiniteSet(1..k) /\ Cardinality(1..k) = k
    <3>1. k \in Int
      BY <2>0
    <3>2. IsFiniteSet(1..k) /\ Cardinality(1..k) = IF 1 > k THEN 0 ELSE k - 1 + 1
      BY <2>0, <3>1, FS_Interval
    <3>3. QED
      BY <2>0, <3>2
  <2>2. f \in Surjection(1..k, D)
    BY DEF Surjection
  <2>3. IsFiniteSet(D) /\ Cardinality(D) <= k
    BY <2>1, <2>2, FS_Surjection
  <2>4. ASSUME NEW i \in 1..Len(b)
        PROVE  b[i] \in Of(p) \cup D
    <3>1. CASE i <= k
      <4>1. i \in 1..k /\ f[i] = b[i]
        BY <1>1, <2>0, <3>1
      <4>2. QED
        BY <4>1
    <3>2. CASE i > k
      <4>1. i - k \in 1..n /\ Len(b) - n + (i - k) = i
        BY <1>1, <1>3, <3>2 DEF k
      <4>2. p[i - k] = b[i] /\ i - k \in 1..Len(p)
        BY <1>1, <1>3, <4>1
      <4>3. QED
        BY <4>2 DEF Of
    <3>3. QED
      BY <1>1, <2>0, <3>1, <3>2
  <2>5. ASSUME NEW i \in 1..Len(q)
        PROVE  q[i] \in Of(p)
    <3>1. n + i \in 1..Len(p) /\ p[n + i] = q[i]
      BY <1>1, <1>3
    <3>2. QED
      BY <3>1 DEF Of
  <2>6. Of(q) \cup Of(b) \subseteq Of(p) \cup D
    BY <2>4, <2>5 DEF Of
  <2>7. QED
    BY <1>3, <2>3, <2>6 DEF k
<1>12. QED
  BY <1>7, <1>8, <1>9, <1>10, <1>11 DEF p

\* A new entry behind the queue.
LEMMA AppendInLine ==
  ASSUME EventsAssumption, NEW q, NEW b, NEW m \in Nat, NEW last \in Nat, last <= m,
         Line(q, b, m), Ends(q, b, last), m < MaxEvents, Len(q) < Limit
  PROVE  /\ Line(Append(q, m + 1), b, m + 1)
         /\ Ends(Append(q, m + 1), b, last)
         /\ Of(Append(q, m + 1)) = Of(q) \cup {m + 1}
         /\ Len(Append(q, m + 1)) = Len(q) + 1
         /\ Append(q, m + 1) \in Seq(Events)
<1> DEFINE p == Append(q, m + 1)
<1>1. /\ q \in Seq(Events) /\ Len(q) \in Nat /\ b \in Seq(Events) /\ Len(b) \in Nat
      /\ MaxBatch \in Nat \ {0} /\ Limit \in Nat /\ m + 1 \in Events
      /\ \A i \in 1..Len(q) : q[i] \in Nat
      /\ \A i \in 1..Len(b) : b[i] \in Nat
  <2>1. q \in Seq(Events) /\ b \in Seq(Events)
    BY DEF Line
  <2>2. /\ \A i \in 1..Len(q) : q[i] \in Events
        /\ \A i \in 1..Len(b) : b[i] \in Events
    BY <2>1, ElementOfSeq
  <2>3. QED
    BY <2>1, <2>2, LenProperties DEF EventsAssumption, Events
<1>2. /\ p \in Seq(Events) /\ Len(p) = Len(q) + 1
      /\ \A i \in 1..Len(q) : p[i] = q[i]
      /\ p[Len(q) + 1] = m + 1
  BY <1>1, AppendProperties
<1>. HIDE DEF p
<1>3. /\ Len(q) <= Limit /\ Len(b) <= MaxBatch
      /\ \A i, j \in 1..Len(b) : i < j => b[i] < b[j]
      /\ \A i, j \in 1..Len(q) : i < j => q[i] < q[j]
      /\ \A i \in 1..Len(b), j \in 1..Len(q) : b[i] < q[j]
      /\ \A i \in 1..Len(b) : b[i] <= m
      /\ \A i \in 1..Len(q) : q[i] <= m
  BY DEF Line
<1>4. \A i \in 1..Len(p) : i \in 1..Len(q) \/ i = Len(q) + 1
  BY <1>1, <1>2
<1>5. /\ \A i, j \in 1..Len(p) : i < j => p[i] < p[j]
      /\ \A i \in 1..Len(b), j \in 1..Len(p) : b[i] < p[j]
      /\ \A i \in 1..Len(b) : b[i] <= m + 1
      /\ \A i \in 1..Len(p) : p[i] <= m + 1
  <2>1. ASSUME NEW i \in 1..Len(p), NEW j \in 1..Len(p), i < j
        PROVE  p[i] < p[j]
    <3>1. i \in 1..Len(q)
      BY <1>1, <1>2, <2>1
    <3>2. j \in 1..Len(q) \/ j = Len(q) + 1
      BY <1>4
    <3>3. QED
      BY <1>1, <1>2, <1>3, <2>1, <3>1, <3>2
  <2>2. ASSUME NEW i \in 1..Len(b), NEW j \in 1..Len(p)
        PROVE  b[i] < p[j] /\ b[i] <= m + 1
    BY <1>1, <1>2, <1>3, <1>4
  <2>3. ASSUME NEW i \in 1..Len(p)
        PROVE  p[i] <= m + 1
    BY <1>1, <1>2, <1>3, <1>4
  <2>4. \A i \in 1..Len(b) : b[i] <= m + 1
    BY <1>1, <1>3
  <2>5. QED
    BY <2>1, <2>2, <2>3, <2>4
<1>6. Line(p, b, m + 1)
  BY <1>1, <1>2, <1>3, <1>5 DEF Line
<1>7. Ends(p, b, last)
  BY <1>1, <1>2 DEF Ends
<1>8. Of(p) = Of(q) \cup {m + 1}
  <2>1. Len(q) + 1 \in 1..Len(p) /\ \A i \in 1..Len(q) : i \in 1..Len(p)
    BY <1>1, <1>2
  <2>2. QED
    BY <1>2, <1>4, <2>1 DEF Of
<1>9. QED
  BY <1>2, <1>6, <1>7, <1>8 DEF p

-----------------------------------------------------------------------------
(* Every step of the events keeps their invariant.                         *)

\* The steps that leave the queue and the batch alone.
LEMMA QuietStepOK ==
  ASSUME EventsInv, EventsAssumption, UNCHANGED queueVars,
         UNCHANGED <<received, newest>>, networkEntries' \in {networkEntries, {}},
         start' \in {"none", "called", "posted", "read", "done", "failed"},
         fails' \in 0..MaxFails,
         \/ cleared' = cleared
         \/ /\ relayEventQueue = <<>> /\ batch = <<>> /\ cleared' = made
            /\ start' = "posted"
         \/ cleared' = 0 /\ start' = "posted",
         start' \in {"read", "done"} =>
           \/ networkEntries' = {}
           \/ start \in {"read", "done"} /\ cleared' = cleared
  PROVE  EventsInv'
<1>0. TypeOK /\ InLine /\ Reaches /\ Heard /\ InOrder /\ LossesCounted /\ Fresh
  BY DEF EventsInv
<1>1. TypeOK'
  BY <1>0 DEF TypeOK, queueVars
<1>2. InLine' /\ Reaches' /\ Heard' /\ InOrder'
  BY <1>0 DEF InLine, Reaches, Heard, InOrder, Queued, InBatch, queueVars
<1>3. LossesCounted'
  BY <1>0, NoMoreLost DEF Unheard, Queued, InBatch, queueVars
<1>4. Fresh'
  <2>1. cleared \in Nat /\ made \in Nat
    BY <1>0 DEF TypeOK
  <2>2. cleared' <= made'
    BY <1>0, <2>1 DEF Fresh, queueVars
  <2>3. Queued' = Queued /\ InBatch' = InBatch
    BY DEF Queued, InBatch, queueVars
  <2>4. \A e \in Queued \cup InBatch : e > cleared'
    <3>1. CASE cleared' = cleared
      BY <1>0, <3>1 DEF Fresh
    <3>2. CASE relayEventQueue = <<>> /\ batch = <<>>
      BY <3>2 DEF Queued, InBatch
    <3>3. CASE cleared' = 0
      BY <1>0, <3>3, Lengths DEF Queued, InBatch
    <3>4. QED
      BY <3>1, <3>2, <3>3
  <2>5. start' \in {"read", "done"} => \A e \in networkEntries' : e > cleared'
    BY <1>0 DEF Fresh
  <2>6. QED
    BY <2>2, <2>3, <2>4, <2>5 DEF Fresh
<1>5. QED
  BY <1>1, <1>2, <1>3, <1>4 DEF EventsInv

LEMMA LineIsNow ==
  TypeOK => /\ InLine <=> Line(relayEventQueue, batch, made)
            /\ Reaches <=> newest <= made /\ Ends(relayEventQueue, batch, newest)
            /\ Queued = Of(relayEventQueue) /\ InBatch = Of(batch)
  BY LineIs

LEMMA LineIsNext ==
  TypeOK' => (/\ InLine <=> Line(relayEventQueue, batch, made)
              /\ Reaches <=> newest <= made /\ Ends(relayEventQueue, batch, newest)
              /\ Queued = Of(relayEventQueue) /\ InBatch = Of(batch))'
  BY LineIsNow, PTL

\* A step of the queue: what it has to establish.
LEMMA QueueStepOK ==
  ASSUME EventsInv, EventsAssumption,
         made' \in made..MaxEvents, flushTimer' \in BOOLEAN, batchRead' \in BOOLEAN,
         dropped' \in Nat, fails' \in 0..MaxFails, LossesCounted',
         UNCHANGED <<viewVars, start, cleared>>,
         Line(relayEventQueue', batch', made'), Ends(relayEventQueue', batch', newest),
         batchRead' => batchRead /\ batch' = batch,
         Of(relayEventQueue') \cup Of(batch') \subseteq
           Of(relayEventQueue) \cup Of(batch) \cup (made + 1)..made'
  PROVE  EventsInv'
<1>0. TypeOK /\ InLine /\ Reaches /\ Heard /\ InOrder /\ LossesCounted /\ Fresh
  BY DEF EventsInv
<1>1. TypeOK'
  BY <1>0 DEF TypeOK, viewVars, Line
<1>2. /\ made \in Nat /\ made' \in Nat /\ made <= made' /\ newest \in Nat
      /\ cleared \in Nat /\ newest <= made /\ cleared <= made
      /\ newest' = newest /\ cleared' = cleared
  BY <1>0 DEF TypeOK, Reaches, Fresh, viewVars, EventsAssumption
<1>3. InLine' /\ Reaches'
  <2>1. newest' <= made' /\ Ends(relayEventQueue', batch', newest')
    BY <1>2
  <2>2. /\ InLine' <=> Line(relayEventQueue', batch', made')
        /\ Reaches' <=> newest' <= made' /\ Ends(relayEventQueue', batch', newest')
    <3>1. /\ (InLine <=> Line(relayEventQueue, batch, made))'
          /\ (Reaches <=> newest <= made /\ Ends(relayEventQueue, batch, newest))'
      BY <1>1, LineIsNext
    <3>2. QED
      BY <3>1
  <2>3. QED
    BY <2>1, <2>2
<1>4. /\ Queued = Of(relayEventQueue) /\ InBatch = Of(batch)
      /\ Queued' = Of(relayEventQueue') /\ InBatch' = Of(batch')
  BY <1>0, <1>1, LineIs, LineIsNext
<1>5. \A e \in Queued' \cup InBatch' : e \in Queued \cup InBatch \/ (e \in Nat /\ e > made)
  <2>1. \A e \in (made + 1)..made' : e \in Nat /\ e > made
    BY <1>2
  <2>2. \A e \in Queued' \cup InBatch' :
          e \in Queued \cup InBatch \/ e \in (made + 1)..made'
    BY <1>4
  <2>3. QED
    BY <2>1, <2>2
<1>6. InOrder'
  <2>1. \A e \in Queued' \cup InBatch' : e < newest => e \in received
    BY <1>0, <1>2, <1>5 DEF InOrder
  <2>2. QED
    BY <1>0, <2>1 DEF InOrder, viewVars
<1>7. Fresh'
  <2>1. \A e \in Queued' \cup InBatch' : e > cleared
    BY <1>0, <1>2, <1>5 DEF Fresh
  <2>2. QED
    BY <1>0, <1>2, <2>1 DEF Fresh, viewVars
<1>8. Heard'
  BY <1>0 DEF Heard, InBatch, viewVars
<1>9. QED
  BY <1>1, <1>3, <1>6, <1>7, <1>8 DEF EventsInv

LEMMA CaptureOK ==
  ASSUME EventsInv, EventsAssumption, Capture
  PROVE  EventsInv'
<1>0. /\ TypeOK /\ InLine /\ Reaches /\ LossesCounted
      /\ UNCHANGED <<viewVars, start, cleared, fails>> /\ made < MaxEvents
      /\ made' = made + 1
  BY DEF EventsInv, Capture
<1>1. /\ made \in Nat /\ made' \in made..MaxEvents /\ newest \in Nat /\ newest <= made
      /\ (made + 1)..made' = {made + 1} /\ 1..made' = (1..made) \cup {made + 1}
      /\ fails' \in 0..MaxFails /\ dropped \in Nat
      /\ flushTimer \in BOOLEAN /\ batchRead \in BOOLEAN
      /\ relayEventQueue \in Seq(Events) /\ Len(relayEventQueue) \in Nat
      /\ Limit \in Nat
  BY <1>0, LenProperties DEF TypeOK, Reaches, EventsAssumption
<1>2. /\ Line(relayEventQueue, batch, made) /\ Ends(relayEventQueue, batch, newest)
      /\ Queued = Of(relayEventQueue) /\ InBatch = Of(batch)
  BY <1>0, LineIs
<1>3. relayEventQueue' \in Seq(Events) /\ batch' \in Seq(Events) =>
        Queued' = Of(relayEventQueue') /\ InBatch' = Of(batch')
  BY LenProperties DEF Queued, InBatch, Of
<1> DEFINE q == Append(relayEventQueue, made + 1)
<1>4. CASE Len(relayEventQueue) >= Limit /\ dropped' = dropped + 1
           /\ UNCHANGED <<relayEventQueue, flushTimer, batch, batchRead>>
  <2>1. Line(relayEventQueue', batch', made') /\ Ends(relayEventQueue', batch', newest)
    <3>1. /\ \A i \in 1..Len(batch) : batch[i] \in Nat
          /\ \A i \in 1..Len(relayEventQueue) : relayEventQueue[i] \in Nat
      BY <1>0, Lengths
    <3>2. QED
      BY <1>0, <1>1, <1>2, <1>4, <3>1 DEF Line
  <2>2. LossesCounted'
    <3>1. Unheard' \subseteq Unheard \cup {made + 1}
      BY <1>0, <1>1, <1>4 DEF Unheard, Queued, InBatch, viewVars
    <3>2. IsFiniteSet({made + 1}) /\ Cardinality({made + 1}) <= 1
      <4>1. IsFiniteSet({made + 1}) /\ Cardinality({made + 1}) = 1
        BY FS_Singleton
      <4>2. QED
        BY <4>1
    <3>3. QED
      BY <1>0, <1>4, <3>1, <3>2, StillCounted
  <2>3. QED
    BY <1>0, <1>1, <1>4, <2>1, <2>2, QueueStepOK
<1>5. CASE Len(relayEventQueue) < Limit
  <2>1. /\ Line(q, batch, made + 1) /\ Ends(q, batch, newest)
        /\ Of(q) = Of(relayEventQueue) \cup {made + 1}
        /\ Len(q) = Len(relayEventQueue) + 1 /\ q \in Seq(Events)
    BY <1>0, <1>1, <1>2, <1>5, AppendInLine
  <2>0. \/ /\ Len(q) >= MaxBatch /\ flushTimer' = FALSE
           /\ Flush(q) /\ UNCHANGED dropped
        \/ /\ relayEventQueue' = q /\ Schedule(q, batch)
           /\ UNCHANGED <<batch, batchRead, dropped>>
    BY <1>1, <1>5 DEF Capture
  <2>. HIDE DEF q
  <2>2. SUFFICES ASSUME /\ Line(relayEventQueue', batch', made + 1)
                        /\ Ends(relayEventQueue', batch', newest)
                        /\ Of(relayEventQueue') \cup Of(batch') = Of(q) \cup Of(batch)
                        /\ flushTimer' \in BOOLEAN /\ batchRead' \in BOOLEAN
                        /\ batchRead' => batchRead /\ batch' = batch
                        /\ UNCHANGED dropped
                 PROVE  EventsInv'
    <3>1. CASE Len(q) >= MaxBatch /\ flushTimer' = FALSE /\ Flush(q) /\ UNCHANGED dropped
      <4>1. made + 1 \in Nat
        BY <1>1
      <4>2. /\ Line(relayEventQueue', batch', made + 1)
            /\ Ends(relayEventQueue', batch', newest)
            /\ batchRead' \in BOOLEAN /\ (batchRead' => batchRead /\ batch' = batch)
            /\ Of(relayEventQueue') \cup Of(batch') = Of(q) \cup Of(batch)
        BY <1>1, <2>1, <3>1, <4>1, FlushInLine
      <4>3. QED
        BY <2>2, <3>1, <4>2
    <3>2. CASE /\ relayEventQueue' = q /\ Schedule(q, batch)
               /\ UNCHANGED <<batch, batchRead, dropped>>
      BY <1>1, <2>1, <2>2, <3>2 DEF Schedule
    <3>3. QED
      BY <2>0, <3>1, <3>2
  <2>3. LossesCounted'
    <3>1. relayEventQueue' \in Seq(Events) /\ batch' \in Seq(Events)
      BY <2>2 DEF Line
    <3>2. Queued' \cup InBatch' = Queued \cup InBatch \cup {made + 1}
      BY <1>2, <1>3, <2>1, <2>2, <3>1
    <3>3. Unheard' \subseteq Unheard
      BY <1>0, <1>1, <3>2 DEF Unheard, viewVars
    <3>4. QED
      BY <1>0, <2>2, <3>3, NoMoreLost
  <2>4. /\ Of(relayEventQueue') \cup Of(batch') \subseteq
             Of(relayEventQueue) \cup Of(batch) \cup (made + 1)..made'
        /\ dropped' \in Nat
    BY <1>1, <2>1, <2>2
  <2>5. QED
    BY <1>0, <1>1, <2>2, <2>3, <2>4, QueueStepOK
<1>6. QED
  BY <1>1, <1>4, <1>5 DEF Capture

LEMMA FlushTimerOK ==
  ASSUME EventsInv, EventsAssumption, FlushTimer
  PROVE  EventsInv'
<1>0. /\ TypeOK /\ InLine /\ Reaches /\ LossesCounted
      /\ flushTimer' = FALSE /\ Flush(relayEventQueue)
      /\ UNCHANGED <<made, dropped, viewVars, start, cleared, fails>>
  BY DEF EventsInv, FlushTimer
<1>1. /\ made \in Nat /\ made' \in made..MaxEvents /\ newest \in Nat
      /\ fails' \in 0..MaxFails /\ dropped' \in Nat /\ batchRead \in BOOLEAN
      /\ made' = made /\ dropped' = dropped
  BY <1>0 DEF TypeOK, EventsAssumption
<1>2. /\ Line(relayEventQueue, batch, made) /\ Ends(relayEventQueue, batch, newest)
      /\ Queued = Of(relayEventQueue) /\ InBatch = Of(batch)
  BY <1>0, LineIs
<1>3. /\ Line(relayEventQueue', batch', made) /\ Ends(relayEventQueue', batch', newest)
      /\ batchRead' \in BOOLEAN /\ (batchRead' => batchRead /\ batch' = batch)
      /\ Of(relayEventQueue') \cup Of(batch') = Of(relayEventQueue) \cup Of(batch)
  BY <1>0, <1>1, <1>2, FlushInLine
<1>4. LossesCounted'
  <2>1. relayEventQueue' \in Seq(Events) /\ batch' \in Seq(Events)
    BY <1>3 DEF Line
  <2>2. Queued' = Of(relayEventQueue') /\ InBatch' = Of(batch')
    BY <2>1, LenProperties DEF Queued, InBatch, Of
  <2>3. Unheard' \subseteq Unheard
    BY <1>0, <1>1, <1>2, <1>3, <2>2 DEF Unheard, viewVars
  <2>4. QED
    BY <1>0, <1>1, <2>3, NoMoreLost
<1>5. QED
  BY <1>0, <1>1, <1>3, <1>4, QueueStepOK

LEMMA ReadBatchOK ==
  ASSUME EventsInv, EventsAssumption, ReadBatch
  PROVE  EventsInv'
<1>0. /\ TypeOK /\ InLine /\ Reaches /\ InOrder /\ LossesCounted /\ Fresh
      /\ batch # <<>> /\ batchRead' = TRUE
      /\ received' = received \cup InBatch
      /\ networkEntries' = networkEntries \cup InBatch
      /\ newest' = batch[Len(batch)]
      /\ UNCHANGED <<made, relayEventQueue, flushTimer, batch, dropped, start, cleared,
                     fails>>
  BY DEF EventsInv, ReadBatch
<1>1. /\ Line(relayEventQueue, batch, made) /\ Ends(relayEventQueue, batch, newest)
      /\ Queued = Of(relayEventQueue) /\ InBatch = Of(batch)
      /\ Queued' = Queued /\ InBatch' = InBatch
  BY <1>0, LineIs DEF Queued, InBatch
<1>2. /\ Len(batch) \in Nat \ {0} /\ newest \in Nat /\ made \in Nat
      /\ \A i \in 1..Len(batch) : batch[i] \in Nat
      /\ \A i \in 1..Len(relayEventQueue) : relayEventQueue[i] \in Nat
      /\ \A e \in received : e \in Nat
      /\ batch \in Seq(Events) /\ \A i \in 1..Len(batch) : batch[i] \in Events
  BY <1>0, Lengths, ElementOfSeq DEF TypeOK
<1>3. /\ newest <= newest' /\ newest' \in Nat /\ newest' <= made /\ newest' \in Events
      /\ \A e \in InBatch : e <= newest'
      /\ \A e \in Queued : e > newest'
  <2>1. Len(batch) \in 1..Len(batch)
    BY <1>2
  <2>2. newest <= newest' /\ newest' \in Nat /\ newest' <= made /\ newest' \in Events
    BY <1>0, <1>1, <1>2, <2>1 DEF Line, Ends
  <2>3. \A i \in 1..Len(batch) : batch[i] <= newest'
    BY <1>0, <1>1, <1>2, <2>1 DEF Line
  <2>4. \A i \in 1..Len(relayEventQueue) : relayEventQueue[i] > newest'
    BY <1>0, <1>1, <1>2, <2>1 DEF Line
  <2>5. QED
    BY <1>1, <2>2, <2>3, <2>4 DEF Of
<1>4. TypeOK'
  <2>1. InBatch \subseteq Events
    BY <1>1, <1>2 DEF Of
  <2>2. newest' \in 0..MaxEvents
    BY <1>3 DEF Events
  <2>3. QED
    BY <1>0, <2>1, <2>2 DEF TypeOK
<1>5. InLine' /\ Reaches'
  <2>1. InLine'
    BY <1>0, <1>1 DEF InLine
  <2>2. Reaches'
    BY <1>0, <1>2, <1>3 DEF Reaches
  <2>3. QED
    BY <2>1, <2>2
<1>6. InOrder'
  <2>1. \A e \in received' : e <= newest'
    BY <1>0, <1>2, <1>3 DEF InOrder
  <2>2. \A e \in Queued' \cup InBatch' : e < newest' => e \in received'
    <3>1. \A e \in Queued : e \in Nat
      BY <1>1, <1>2 DEF Of
    <3>2. QED
      BY <1>0, <1>1, <1>3, <3>1
  <2>3. QED
    BY <2>1, <2>2 DEF InOrder
<1>7. LossesCounted'
  <2>1. Unheard' \subseteq Unheard
    BY <1>0, <1>1 DEF Unheard
  <2>2. QED
    BY <1>0, <2>1, NoMoreLost
<1>8. Fresh'
  BY <1>0, <1>1 DEF Fresh
<1>9. Heard'
  BY <1>0, <1>1 DEF Heard
<1>10. QED
  BY <1>4, <1>5, <1>6, <1>7, <1>8, <1>9 DEF EventsInv

LEMMA ScheduleType ==
  ASSUME NEW q, NEW delivered, ScheduleAfter(q, delivered)
  PROVE  flushTimer' \in BOOLEAN
  BY Zenon DEF ScheduleAfter, Schedule

LEMMA BatchDeliveredOK ==
  ASSUME EventsInv, EventsAssumption, BatchDelivered
  PROVE  EventsInv'
<1>0. /\ TypeOK /\ InLine /\ Reaches /\ LossesCounted
      /\ batch # <<>> /\ InBatch \subseteq received
      /\ batch' = <<>> /\ batchRead' = FALSE
      /\ ScheduleAfter(relayEventQueue, TRUE)
      /\ UNCHANGED <<made, relayEventQueue, dropped, viewVars, start, cleared, fails>>
  BY DEF EventsInv, BatchDelivered, Heard
<1>1. /\ made \in Nat /\ made' \in made..MaxEvents /\ newest \in Nat
      /\ fails' \in 0..MaxFails /\ dropped' \in Nat /\ batchRead' \in BOOLEAN
      /\ made' = made
  <2>1. /\ made \in 0..MaxEvents /\ MaxEvents \in Nat /\ newest \in 0..MaxEvents
        /\ fails \in 0..MaxFails /\ dropped \in Nat
    BY <1>0 DEF TypeOK, EventsAssumption
  <2>2. made' = made /\ fails' = fails /\ dropped' = dropped /\ batchRead' = FALSE
    BY <1>0
  <2>3. made \in Nat /\ made' \in made..MaxEvents /\ fails' \in 0..MaxFails
    BY <2>1, <2>2
  <2>4. batchRead' \in BOOLEAN
    BY <2>2, Zenon
  <2>5. newest \in Nat
    BY <2>1
  <2>6. QED
    BY <2>1, <2>2, <2>3, <2>4, <2>5, Zenon
<1>2. flushTimer' \in BOOLEAN
  BY <1>0, ScheduleType
<1>3. /\ Line(relayEventQueue, batch, made) /\ Ends(relayEventQueue, batch, newest)
      /\ Queued = Of(relayEventQueue) /\ InBatch = Of(batch)
  BY <1>0, LineIs
<1>4. /\ Len(batch') = 0 /\ batch' \in Seq(Events) /\ Of(batch') = {}
      /\ Len(batch) \in 1..Len(batch) /\ batch[Len(batch)] \in Nat
      /\ Len(relayEventQueue) \in Nat
      /\ \A i \in 1..Len(relayEventQueue) : relayEventQueue[i] \in Nat
      /\ MaxBatch \in Nat \ {0}
  BY <1>0, Lengths, EmptySeq DEF Of, EventsAssumption
<1>5. Line(relayEventQueue', batch', made')
  BY <1>0, <1>1, <1>3, <1>4 DEF Line
<1>6. Ends(relayEventQueue', batch', newest)
  <2>1. \A i \in 1..Len(relayEventQueue) : newest <= relayEventQueue[i]
    BY <1>1, <1>3, <1>4 DEF Line, Ends
  <2>2. QED
    BY <1>0, <1>4, <2>1 DEF Ends
<1>7. LossesCounted'
  <2>1. Unheard' \subseteq Unheard
    BY <1>0, <1>1 DEF Unheard, Queued, InBatch, viewVars
  <2>2. QED
    BY <1>0, <2>1, NoMoreLost
<1>8. QED
  BY <1>0, <1>1, <1>2, <1>4, <1>5, <1>6, <1>7, QueueStepOK

LEMMA BatchFailsOK ==
  ASSUME EventsInv, EventsAssumption, BatchFails
  PROVE  EventsInv'
<1>0. /\ TypeOK /\ InLine /\ Reaches /\ LossesCounted
      /\ batch # <<>> /\ fails < MaxFails
      /\ relayEventQueue' = PutBack(relayEventQueue, batch)
      /\ dropped' = dropped + Lost(relayEventQueue, batch)
      /\ batch' = <<>> /\ batchRead' = FALSE
      /\ ScheduleAfter(relayEventQueue', FALSE)
      /\ fails' = fails + 1
      /\ UNCHANGED <<made, viewVars, start, cleared>>
  BY DEF EventsInv, BatchFails
<1>1. /\ made \in Nat /\ made' \in made..MaxEvents /\ newest \in Nat
      /\ fails' \in 0..MaxFails /\ dropped \in Nat /\ batchRead' \in BOOLEAN
      /\ made' = made /\ flushTimer' \in BOOLEAN
  <2>1. flushTimer' \in BOOLEAN
    BY <1>0, ScheduleType
  <2>2. /\ made \in 0..MaxEvents /\ MaxEvents \in Nat /\ newest \in 0..MaxEvents
        /\ fails \in 0..MaxFails /\ MaxFails \in Nat /\ dropped \in Nat
    BY <1>0 DEF TypeOK, EventsAssumption
  <2>3. made' = made /\ fails < MaxFails /\ fails' = fails + 1 /\ batchRead' = FALSE
    BY <1>0
  <2>4. made \in Nat /\ made' \in made..MaxEvents /\ fails' \in 0..MaxFails
    BY <2>2, <2>3
  <2>5. batchRead' \in BOOLEAN
    BY <2>3, Zenon
  <2>6. newest \in Nat
    BY <2>2
  <2>7. QED
    BY <2>1, <2>2, <2>3, <2>4, <2>5, <2>6, Zenon
<1>2. /\ Line(relayEventQueue, batch, made) /\ Ends(relayEventQueue, batch, newest)
      /\ Queued = Of(relayEventQueue) /\ InBatch = Of(batch)
  BY <1>0, LineIs
<1>3. /\ Line(relayEventQueue', batch', made') /\ Ends(relayEventQueue', batch', newest)
      /\ Of(relayEventQueue') \subseteq Of(relayEventQueue) \cup Of(batch)
      /\ Lost(relayEventQueue, batch) \in Nat
      /\ \E D : /\ IsFiniteSet(D) /\ Cardinality(D) <= Lost(relayEventQueue, batch)
                /\ Of(relayEventQueue) \cup Of(batch) \subseteq Of(relayEventQueue') \cup D
  BY <1>0, <1>1, <1>2, PutBackInLine
<1>4. Of(batch') = {}
  <2>1. Len(<<>>) = 0
    BY EmptySeq
  <2>2. QED
    BY <1>0, <2>1 DEF Of
<1>5. LossesCounted'
  <2>1. PICK D : /\ IsFiniteSet(D) /\ Cardinality(D) <= Lost(relayEventQueue, batch)
                 /\ Of(relayEventQueue) \cup Of(batch) \subseteq Of(relayEventQueue') \cup D
    BY <1>3
  <2>2. relayEventQueue' \in Seq(Events)
    BY <1>3 DEF Line
  <2>3. Queued' = Of(relayEventQueue')
    BY <2>2, LenProperties DEF Queued, Of
  <2>4. Unheard' \subseteq Unheard \cup D
    BY <1>0, <1>1, <1>2, <2>1, <2>3 DEF Unheard, viewVars
  <2>5. QED
    BY <1>0, <1>3, <2>1, <2>4, StillCounted
<1>6. dropped' \in Nat
  BY <1>0, <1>1, <1>3
<1>7. QED
  BY <1>0, <1>1, <1>3, <1>4, <1>5, <1>6, QueueStepOK

LEMMA EventsInit ==
  ASSUME Init, EventsAssumption
  PROVE  EventsInv
<1>1. Len(<<>>) = 0 /\ <<>> \in Seq(Events)
  BY EmptySeq
<1>2. TypeOK
  <2>1. flushTimer \in BOOLEAN /\ batchRead \in BOOLEAN
    BY Zenon DEF Init
  <2>2. /\ made \in 0..MaxEvents /\ newest \in 0..MaxEvents
        /\ cleared \in 0..MaxEvents /\ fails \in 0..MaxFails /\ dropped \in Nat
    BY DEF Init, EventsAssumption
  <2>3. /\ relayEventQueue \in Seq(Events) /\ Len(relayEventQueue) <= Limit
        /\ batch \in Seq(Events) /\ Len(batch) <= MaxBatch
    BY <1>1 DEF Init, EventsAssumption
  <2>4. /\ received \subseteq Events /\ networkEntries \subseteq received
        /\ start \in {"none", "called", "posted", "read", "done", "failed"}
    BY DEF Init
  <2>5. QED
    BY <2>1, <2>2, <2>3, <2>4 DEF TypeOK
<1>3. Of(<<>>) = {}
  BY <1>1 DEF Of
<1>4. Queued = {} /\ InBatch = {}
  BY <1>2, <1>3, LineIs DEF Init
<1>5. Line(<<>>, <<>>, 0) /\ Ends(<<>>, <<>>, 0)
  BY <1>1 DEF Line, Ends, EventsAssumption
<1>6. InLine /\ Reaches
  BY <1>2, <1>5, LineIs DEF Init
<1>7. InOrder /\ Heard /\ Fresh
  BY <1>4 DEF InOrder, Heard, Fresh, Init
<1>8. LossesCounted
  <2>1. Unheard = {}
    BY DEF Unheard, Init
  <2>2. QED
    BY <2>1, FS_EmptySet DEF LossesCounted, Init
<1>9. QED
  BY <1>2, <1>6, <1>7, <1>8 DEF EventsInv

LEMMA EventsStep ==
  ASSUME EventsInv, EventsAssumption, [Next]_vars
  PROVE  EventsInv'
<1>0. fails \in 0..MaxFails /\ MaxFails \in Nat
      /\ start \in {"none", "called", "posted", "read", "done", "failed"}
  BY DEF EventsInv, TypeOK, EventsAssumption
<1>1. CASE Capture
  BY <1>1, CaptureOK
<1>2. CASE FlushTimer
  BY <1>2, FlushTimerOK
<1>3. CASE ReadBatch
  BY <1>3, ReadBatchOK
<1>4. CASE BatchEnds
  BY <1>4, BatchDeliveredOK, BatchFailsOK DEF BatchEnds
<1>5. CASE StartCapture
  BY <1>0, <1>5, QuietStepOK DEF StartCapture
<1>6. CASE ClearEntries
  BY <1>0, <1>6, QuietStepOK DEF ClearEntries, viewVars
<1>7. CASE ReadReset
  BY <1>0, <1>7, QuietStepOK DEF ReadReset, Emptied
<1>8. CASE ResetDelivered
  BY <1>0, <1>8, QuietStepOK DEF ResetDelivered, viewVars
<1>9. CASE ResetFails
  <2>1. fails' \in 0..MaxFails
    BY <1>0, <1>9 DEF ResetFails
  <2>2. QED
    BY <1>0, <1>9, <2>1, QuietStepOK DEF ResetFails, viewVars
<1>10. CASE UNCHANGED vars
  BY <1>0, <1>10, QuietStepOK DEF vars, viewVars
<1>11. QED
  BY <1>1, <1>2, <1>3, <1>4, <1>5, <1>6, <1>7, <1>8, <1>9, <1>10 DEF Next, Clearing

\* A step of the tab is one of the events, or leaves them alone.
LEMMA TabStepsEvents ==
  ASSUME [TabNext]_<<vars, tabVars>>
  PROVE  [Next]_vars
<1>1. CASE UNCHANGED <<vars, tabVars>>
  BY <1>1
<1>2. CASE TabNext
  BY <1>2 DEF TabNext, Observe, Clear, Cleared, NotCleared, Posting, Relayed, TabStep,
              Next, Clearing
<1>3. QED
  BY <1>1, <1>2

\* The invariant of the events holds in every state of a tab.
THEOREM EventsSound == TabSpec => []EventsInv
<1>1. TabInit => EventsInv
  BY EventsInit, EventsAssumption DEF TabInit
<1>2. EventsInv /\ [TabNext]_<<vars, tabVars>> => EventsInv'
  BY TabStepsEvents, EventsStep, EventsAssumption
<1>3. QED
  BY <1>1, <1>2, PTL DEF TabSpec

\* The main process hears of the entries in order, and of the loss of those it never
\* hears of, and does not show what it heard of before a start that cleared the
\* capture: queueRelayEvent, flushQueuedRelayEvents, startNetworkCapture.
THEOREM EventsHeard == TabSpec => []EventsAreHeard
<1>1. EventsInv => EventsAreHeard
  BY DEF EventsInv, Fresh, EventsAreHeard, ClearedIsFresh
<1>2. QED
  BY <1>1, EventsSound, PTL

-----------------------------------------------------------------------------
(* The invariant of the debugger.                                          *)

Waits == {"attach", "enable", "disable", "detach", "send"}
Command == run["command"]
Handler == run["handler"]

\* The steps of each kind of command.
StepsOf(kind) ==
  CASE kind \in {"start", "restart"} -> {"post", "attach", "enable"}
    [] kind = "stop" -> {"disable", "detach"}
    [] kind \in {"goto", "data"} -> {"attach", "enable", "page", "disable", "detach"}
    [] kind = "dataFailed" -> {"page", "disable", "detach"}
    [] kind = "console" -> {"post", "attach", "send"}
    [] kind \in {"input", "keys"} -> {"attach", "send", "detach"}
    [] kind \in {"inputAttached", "keysAttached", "handling"} -> {"send"}
    [] kind \in {"arm", "wait", "handle"} -> {"attach", "send"}
    [] kind \in {"waiting", "handled"} -> {"dialog"}
    [] kind \in {"consoleStop", "disarm"} -> {"detach"}
    [] OTHER -> {"none"}

RunsInv ==
  /\ Tab!TypeOK
  /\ Command.kind # "closed" /\ Command.step \in StepsOf(Command.kind)
  /\ Handler \in {Tab!Idle} \cup [kind : {"closed"}, step : {"post", "detach"}]
  /\ Command.kind \in {"start", "restart"} => enabled
  /\ Command.kind = "stop" => ~enabled
  /\ Command.kind = "console" => console
  /\ domain => attached

\* Chrome owes an answer to whom it was asked by, and to nobody else.
Lowers(m, rn) ==
  \/ m.to = "onDetach"
  \/ m.to \in Tab!Runs /\ rn[m.to].step = "detach"
Raises(m, rn) == m.to \in Tab!Runs /\ m.ok /\ rn[m.to].step = "attach"

Mail(ib, rn) ==
  /\ \A r \in Tab!Runs : rn[r].step \in Waits <=> \E i \in DOMAIN ib : ib[i].to = r
  /\ \A i, j \in DOMAIN ib : ib[i].to = ib[j].to /\ ib[i].to # "onDetach" => i = j

\* The flag will be right when the inbox has been read: the debugger is attached if
\* the flag is set and nothing is to lower it, or if an answer is to set it behind
\* all that lower it.
FlagOK(flag, att, ib, rn) ==
  /\ rn["command"].step = "attach" => ~flag
  /\ att <=> \/ flag /\ \A i \in DOMAIN ib : ~Lowers(ib[i], rn)
             \/ \E i \in DOMAIN ib : /\ Raises(ib[i], rn)
                                     /\ \A j \in DOMAIN ib : j > i => ~Lowers(ib[j], rn)

MailInv == Mail(inbox, run) /\ FlagOK(debuggerAttached, attached, inbox, run)

\* A navigation counts as a user of the network domain until its page is ready, and
\* so does a capture, unless its start failed, or has not got so far.
Visits(k, s) == k \in {"goto", "data"} /\ s \in {"attach", "enable", "page"}
UsersOK(k, s, en, u, cap) ==
  /\ u \in {0, 1, 2}
  /\ u = 2 => en /\ Visits(k, s)
  /\ u = 1 => en \/ Visits(k, s)
  /\ k = "start" => en /\ cap # "on" /\ (u = 0 <=> s = "post")
  /\ Visits(k, s) => u # 0
  /\ en /\ cap # "lost" /\ k \notin {"start", "dataFailed"} =>
       u # 0 /\ (Visits(k, s) => u = 2)
  /\ cap = "on" => en \/ k = "stop"

UsersInv == UsersOK(Command.kind, Command.step, enabled, users, capture)

\* Who keeps the debugger attached: a capture, the console, a command that has left it
\* so, or one that will leave it so or let go of it.
LetsGoLater(k) ==
  k \in {"goto", "data", "dataFailed", "stop", "input", "keys", "keysAttached", "arm",
         "wait", "waiting", "handle", "handling", "handled"}
HeldInv ==
  debuggerAttached /\ attached /\ ~LetsGoLater(Command.kind) =>
    enabled \/ console \/ left

\* The network domain is enabled while the worker takes it for enabled, or Chrome's
\* news that it is not are on their way; unless a capture that was lost is still
\* wanted, or the domain is just being disabled.
NewsIn(ib) == \E i \in DOMAIN ib : ib[i].to = "onDetach"
News == NewsIn(inbox)
Stale(k, en, cap) == cap = "lost" /\ en /\ k # "start"
DomainOK(k, s, h, en, u, cap, cdp, flag, serves) ==
  /\ s = "enable" => ~cdp
  /\ cdp /\ ~Stale(k, en, cap) /\ s # "disable" =>
       flag /\ u # 0 /\ serves /\ s # "detach" /\ h # "detach"
  /\ cap = "on" /\ k \notin {"stop", "dataFailed"} => serves

\* Before Chrome's answer that the domain is enabled, there are no such news.
Promised == \E i \in DOMAIN inbox : inbox[i].to = "command" /\ inbox[i].ok
InTime ==
  \A i, j \in DOMAIN inbox : inbox[i].to = "command" /\ j < i => inbox[j].to # "onDetach"

DomainInv ==
  /\ DomainOK(Command.kind, Command.step, Handler.step, enabled, users, capture,
              cdpEnabled, debuggerAttached, domain \/ News)
  /\ Command.step = "enable" /\ Promised /\ ~Stale(Command.kind, enabled, capture) =>
       debuggerAttached /\ Handler.step # "detach" /\ (domain \/ News) /\ InTime

DebuggerInv == RunsInv /\ MailInv /\ UsersInv /\ HeldInv /\ DomainInv

-----------------------------------------------------------------------------
(* The inbox of the debugger.                                              *)

Msg == [to : Tab!Runs \cup {"onDetach"}, ok : BOOLEAN]

\* Elsewhere the runs ra and rb are the same.
SameBut(r, ra, rb) == \A s \in Tab!Runs \ {r} : rb[s] = ra[s]

\* A run that waits for nothing may take another step that waits for nothing.
LEMMA MailRests ==
  ASSUME NEW ib, NEW rn, NEW rm, NEW r \in Tab!Runs,
         NEW flag, NEW att, Mail(ib, rn), FlagOK(flag, att, ib, rn),
         rn[r].step \notin Waits, rm[r].step \notin Waits, SameBut(r, rn, rm)
  PROVE  Mail(ib, rm) /\ FlagOK(flag, att, ib, rm)
<1>1. \A i \in DOMAIN ib : ib[i].to # r
  BY DEF Mail
<1>2. \A s \in Tab!Runs : rm[s].step \in Waits <=> rn[s].step \in Waits
  BY DEF SameBut
<1>3. Mail(ib, rm)
  BY <1>2 DEF Mail
<1>4. \A i \in DOMAIN ib : ib[i].to \in Tab!Runs => rm[ib[i].to] = rn[ib[i].to]
  BY <1>1 DEF SameBut
<1>5. \A i \in DOMAIN ib : /\ Lowers(ib[i], rm) <=> Lowers(ib[i], rn)
                           /\ Raises(ib[i], rm) <=> Raises(ib[i], rn)
  BY <1>4 DEF Lowers, Raises
<1>6. rm["command"].step = "attach" => rn["command"].step = "attach"
  <2>1. CASE r = "command"
    BY <2>1 DEF Waits
  <2>2. CASE r # "command"
    BY <2>2 DEF SameBut, Tab!Runs
  <2>3. QED
    BY <2>1, <2>2
<1>7. FlagOK(flag, att, ib, rm)
  BY <1>5, <1>6 DEF FlagOK
<1>8. QED
  BY <1>3, <1>7

\* Indices of the inbox without its head.
LEMMA TailOf ==
  ASSUME NEW ib \in Seq(Msg), ib # <<>>
  PROVE  /\ Tail(ib) \in Seq(Msg) /\ Head(ib) = ib[1] /\ Head(ib) \in Msg
         /\ Len(ib) \in Nat \ {0} /\ Len(Tail(ib)) = Len(ib) - 1
         /\ DOMAIN ib = 1..Len(ib) /\ DOMAIN Tail(ib) = 1..Len(ib) - 1
         /\ \A i \in 1..Len(ib) - 1 : Tail(ib)[i] = ib[i + 1] /\ i + 1 \in 1..Len(ib)
         /\ \A i \in 1..Len(ib) : i # 1 => i - 1 \in 1..Len(ib) - 1 /\ Tail(ib)[i - 1] = ib[i]
<1>1. /\ Tail(ib) \in Seq(Msg) /\ Head(ib) \in Msg /\ Len(Tail(ib)) = Len(ib) - 1
      /\ \A i \in 1..Len(Tail(ib)) : Tail(ib)[i] = ib[i + 1]
  BY HeadTailProperties
<1>2. Len(ib) \in Nat \ {0} /\ DOMAIN ib = 1..Len(ib)
  BY LenProperties, EmptySeq
<1>3. DOMAIN Tail(ib) = 1..Len(ib) - 1
  BY <1>1, LenProperties
<1>4. Head(ib) = ib[1]
  OBVIOUS
<1>5. /\ \A i \in 1..Len(ib) - 1 : i + 1 \in 1..Len(ib)
      /\ \A i \in 1..Len(ib) : i # 1 => i - 1 \in 1..Len(ib) - 1 /\ (i - 1) + 1 = i
  BY <1>2
<1>6. \A i \in 1..Len(ib) : i # 1 => Tail(ib)[i - 1] = ib[i]
  BY <1>1, <1>5
<1>7. QED
  BY <1>1, <1>2, <1>3, <1>4, <1>5, <1>6

\* The news that the debugger was detached are read.
LEMMA MailOfDetachment ==
  ASSUME NEW ib \in Seq(Msg), ib # <<>>, NEW rn,
         NEW flag \in BOOLEAN, NEW att \in BOOLEAN, Mail(ib, rn), FlagOK(flag, att, ib, rn),
         Head(ib).to = "onDetach"
  PROVE  Mail(Tail(ib), rn) /\ FlagOK(FALSE, att, Tail(ib), rn)
<1>0. /\ DOMAIN ib = 1..Len(ib) /\ DOMAIN Tail(ib) = 1..Len(ib) - 1
      /\ Len(ib) \in Nat \ {0} /\ 1 \in 1..Len(ib) /\ Lowers(ib[1], rn)
      /\ ib[1].to = "onDetach"
      /\ \A i \in 1..Len(ib) - 1 : Tail(ib)[i] = ib[i + 1] /\ i + 1 \in 1..Len(ib)
      /\ \A i \in 1..Len(ib) : i # 1 => i - 1 \in 1..Len(ib) - 1 /\ Tail(ib)[i - 1] = ib[i]
  BY TailOf DEF Lowers
<1>1. Mail(Tail(ib), rn)
  <2>1. ASSUME NEW r \in Tab!Runs, NEW i \in DOMAIN ib, ib[i].to = r
        PROVE  \E j \in DOMAIN Tail(ib) : Tail(ib)[j].to = r
    <3>1. i # 1
      BY <1>0, <2>1 DEF Tab!Runs
    <3>2. QED
      BY <1>0, <2>1, <3>1
  <2>2. ASSUME NEW i \in DOMAIN Tail(ib), NEW j \in DOMAIN Tail(ib),
               Tail(ib)[i].to = Tail(ib)[j].to, Tail(ib)[i].to # "onDetach"
        PROVE  i = j
    <3>1. i + 1 = j + 1
      BY <1>0, <2>2 DEF Mail
    <3>2. QED
      BY <1>0, <3>1
  <2>3. \A r \in Tab!Runs :
          (\E i \in DOMAIN ib : ib[i].to = r) <=> \E i \in DOMAIN Tail(ib) : Tail(ib)[i].to = r
    BY <1>0, <2>1
  <2>4. QED
    BY <2>2, <2>3 DEF Mail
<1>2. ~(\A i \in DOMAIN ib : ~Lowers(ib[i], rn))
  BY <1>0
<1>3. att => \E i \in DOMAIN Tail(ib) :
               /\ Raises(Tail(ib)[i], rn)
               /\ \A j \in DOMAIN Tail(ib) : j > i => ~Lowers(Tail(ib)[j], rn)
  <2>1. SUFFICES ASSUME att
                 PROVE  \E i \in DOMAIN Tail(ib) :
                          /\ Raises(Tail(ib)[i], rn)
                          /\ \A j \in DOMAIN Tail(ib) : j > i => ~Lowers(Tail(ib)[j], rn)
    OBVIOUS
  <2>2. PICK i \in DOMAIN ib : /\ Raises(ib[i], rn)
                               /\ \A j \in DOMAIN ib : j > i => ~Lowers(ib[j], rn)
    BY <1>2, <2>1 DEF FlagOK
  <2>3. i # 1
    BY <1>0, <2>2 DEF Raises, Tab!Runs
  <2>4. i - 1 \in DOMAIN Tail(ib) /\ Raises(Tail(ib)[i - 1], rn)
    BY <1>0, <2>2, <2>3
  <2>5. \A j \in DOMAIN Tail(ib) : j > i - 1 => ~Lowers(Tail(ib)[j], rn)
    BY <1>0, <2>2
  <2>6. QED
    BY <2>4, <2>5
<1>4. ASSUME NEW i \in DOMAIN Tail(ib), Raises(Tail(ib)[i], rn),
             \A j \in DOMAIN Tail(ib) : j > i => ~Lowers(Tail(ib)[j], rn)
      PROVE  att
  <2>1. i + 1 \in DOMAIN ib /\ Raises(ib[i + 1], rn)
    BY <1>0, <1>4
  <2>2. ASSUME NEW j \in DOMAIN ib, j > i + 1
        PROVE  ~Lowers(ib[j], rn)
    <3>1. j - 1 \in DOMAIN Tail(ib) /\ j - 1 > i /\ Tail(ib)[j - 1] = ib[j]
      BY <1>0, <2>2
    <3>2. QED
      BY <1>4, <3>1
  <2>3. QED
    BY <2>1, <2>2 DEF FlagOK
<1>5. QED
  BY <1>1, <1>3, <1>4 DEF FlagOK

\* The flag after an answer of Chrome.
FlagAfter(flag, step, ok) ==
  CASE step = "attach" -> flag \/ ok
    [] step = "detach" -> FALSE
    [] OTHER -> flag

\* An answer is read by whom it is for.
LEMMA MailTaken ==
  ASSUME NEW ib \in Seq(Msg), ib # <<>>, NEW rn, NEW rm, NEW r \in Tab!Runs,
         NEW flag \in BOOLEAN, NEW att \in BOOLEAN, Mail(ib, rn), FlagOK(flag, att, ib, rn),
         Head(ib).to = r, rm[r].step \notin Waits, SameBut(r, rn, rm),
         rn[r].step = "attach" => r = "command"
  PROVE  /\ Mail(Tail(ib), rm)
         /\ FlagOK(FlagAfter(flag, rn[r].step, Head(ib).ok), att, Tail(ib), rm)
<1>0. /\ DOMAIN ib = 1..Len(ib) /\ DOMAIN Tail(ib) = 1..Len(ib) - 1
      /\ Len(ib) \in Nat \ {0} /\ 1 \in 1..Len(ib)
      /\ ib[1].to = r /\ Head(ib) = ib[1] /\ ib[1].ok \in BOOLEAN
      /\ \A i \in 1..Len(ib) - 1 : Tail(ib)[i] = ib[i + 1] /\ i + 1 \in 1..Len(ib)
      /\ \A i \in 1..Len(ib) : i # 1 => i - 1 \in 1..Len(ib) - 1 /\ Tail(ib)[i - 1] = ib[i]
      /\ r # "onDetach"
  BY TailOf DEF Msg, Tab!Runs
<1>1. \A i \in DOMAIN ib : ib[i].to = r => i = 1
  BY <1>0 DEF Mail
<1>2. \A i \in DOMAIN Tail(ib) : Tail(ib)[i].to # r
  <2>1. \A i \in 1..Len(ib) - 1 : i + 1 # 1
    BY <1>0
  <2>2. QED
    BY <1>0, <1>1, <2>1
<1>3. Mail(Tail(ib), rm)
  <2>1. ASSUME NEW s \in Tab!Runs, s # r, NEW i \in DOMAIN ib, ib[i].to = s
        PROVE  \E j \in DOMAIN Tail(ib) : Tail(ib)[j].to = s
    <3>1. i # 1
      BY <1>0, <2>1
    <3>2. QED
      BY <1>0, <2>1, <3>1
  <2>2. ASSUME NEW i \in DOMAIN Tail(ib), NEW j \in DOMAIN Tail(ib),
               Tail(ib)[i].to = Tail(ib)[j].to, Tail(ib)[i].to # "onDetach"
        PROVE  i = j
    <3>1. i + 1 = j + 1
      BY <1>0, <2>2 DEF Mail
    <3>2. QED
      BY <1>0, <3>1
  <2>3. ASSUME NEW s \in Tab!Runs
        PROVE  rm[s].step \in Waits <=> \E i \in DOMAIN Tail(ib) : Tail(ib)[i].to = s
    <3>1. CASE s = r
      BY <1>2, <3>1
    <3>2. CASE s # r
      <4>1. rm[s] = rn[s]
        BY <3>2 DEF SameBut
      <4>2. (\E i \in DOMAIN ib : ib[i].to = s)
              <=> \E i \in DOMAIN Tail(ib) : Tail(ib)[i].to = s
        BY <1>0, <2>1, <3>2
      <4>3. QED
        BY <4>1, <4>2 DEF Mail
    <3>3. QED
      BY <3>1, <3>2
  <2>4. QED
    BY <2>2, <2>3 DEF Mail
<1>4. \A i \in DOMAIN Tail(ib) : /\ Lowers(Tail(ib)[i], rm) <=> Lowers(ib[i + 1], rn)
                                 /\ Raises(Tail(ib)[i], rm) <=> Raises(ib[i + 1], rn)
  BY <1>0, <1>2 DEF Lowers, Raises, SameBut
<1> DEFINE NoneLowers == \A i \in DOMAIN Tail(ib) : ~Lowers(Tail(ib)[i], rm)
           LastRaises == \E i \in DOMAIN Tail(ib) :
                           /\ Raises(Tail(ib)[i], rm)
                           /\ \A j \in DOMAIN Tail(ib) : j > i => ~Lowers(Tail(ib)[j], rm)
<1>5. LastRaises <=> \E i \in DOMAIN ib :
                       /\ i # 1 /\ Raises(ib[i], rn)
                       /\ \A j \in DOMAIN ib : j > i => ~Lowers(ib[j], rn)
  <2>1. ASSUME NEW i \in DOMAIN Tail(ib), Raises(Tail(ib)[i], rm),
               \A j \in DOMAIN Tail(ib) : j > i => ~Lowers(Tail(ib)[j], rm)
        PROVE  \E k \in DOMAIN ib :
                       /\ k # 1 /\ Raises(ib[k], rn)
                       /\ \A j \in DOMAIN ib : j > k => ~Lowers(ib[j], rn)
    <3>1. i + 1 \in DOMAIN ib /\ i + 1 # 1 /\ Raises(ib[i + 1], rn)
      BY <1>0, <1>4, <2>1
    <3>2. ASSUME NEW j \in DOMAIN ib, j > i + 1
          PROVE  ~Lowers(ib[j], rn)
      <4>1. j - 1 \in DOMAIN Tail(ib) /\ j - 1 > i /\ (j - 1) + 1 = j
        BY <1>0, <3>2
      <4>2. QED
        BY <1>4, <2>1, <4>1
    <3>3. QED
      BY <3>1, <3>2
  <2>2. ASSUME NEW i \in DOMAIN ib, i # 1, Raises(ib[i], rn),
               \A j \in DOMAIN ib : j > i => ~Lowers(ib[j], rn)
        PROVE  LastRaises
    <3>1. i - 1 \in DOMAIN Tail(ib) /\ (i - 1) + 1 = i
      BY <1>0, <2>2
    <3>2. \A j \in DOMAIN Tail(ib) : j > i - 1 => j + 1 \in DOMAIN ib /\ j + 1 > i
      BY <1>0
    <3>3. QED
      BY <1>4, <2>2, <3>1, <3>2
  <2>3. QED
    BY <2>1, <2>2
<1>6. (\A i \in DOMAIN ib : ~Lowers(ib[i], rn)) <=> ~Lowers(ib[1], rn) /\ NoneLowers
  <2>1. \A i \in DOMAIN ib : i # 1 => i - 1 \in DOMAIN Tail(ib) /\ (i - 1) + 1 = i
    BY <1>0
  <2>2. QED
    BY <1>0, <1>4, <2>1
<1>7. (\A j \in DOMAIN ib : j > 1 => ~Lowers(ib[j], rn)) <=> NoneLowers
  <2>1. \A i \in DOMAIN ib : i > 1 => i - 1 \in DOMAIN Tail(ib) /\ (i - 1) + 1 = i
    BY <1>0
  <2>2. \A i \in DOMAIN Tail(ib) : i + 1 > 1 /\ i + 1 \in DOMAIN ib
    BY <1>0
  <2>3. QED
    BY <1>4, <2>1, <2>2
<1>8. att <=> \/ flag /\ ~Lowers(ib[1], rn) /\ NoneLowers
              \/ Raises(ib[1], rn) /\ NoneLowers
              \/ LastRaises
  BY <1>0, <1>5, <1>6, <1>7 DEF FlagOK
<1>9. /\ Lowers(ib[1], rn) <=> rn[r].step = "detach"
      /\ Raises(ib[1], rn) <=> ib[1].ok /\ rn[r].step = "attach"
  BY <1>0 DEF Lowers, Raises
<1> DEFINE after == FlagAfter(flag, rn[r].step, Head(ib).ok)
<1>. HIDE DEF NoneLowers, LastRaises
<1>10. att <=> (after /\ NoneLowers) \/ LastRaises
  BY <1>0, <1>8, <1>9 DEF FlagAfter
<1>11. rm["command"].step = "attach" => ~after
  <2>1. CASE r = "command"
    BY <2>1 DEF Waits
  <2>2. CASE r # "command"
    <3>1. rm["command"] = rn["command"] /\ rn[r].step # "attach"
      BY <2>2 DEF SameBut, Tab!Runs
    <3>2. QED
      BY <3>1 DEF FlagAfter, FlagOK
  <2>3. QED
    BY <2>1, <2>2
<1>12. FlagOK(after, att, Tail(ib), rm)
  BY <1>10, <1>11 DEF FlagOK, NoneLowers, LastRaises
<1>13. QED
  BY <1>3, <1>12

\* Indices of the inbox with a new message.
LEMMA AppendOf ==
  ASSUME NEW ib \in Seq(Msg), NEW m \in Msg
  PROVE  /\ Append(ib, m) \in Seq(Msg) /\ Len(ib) \in Nat
         /\ DOMAIN ib = 1..Len(ib) /\ DOMAIN Append(ib, m) = 1..Len(ib) + 1
         /\ \A i \in 1..Len(ib) :
              Append(ib, m)[i] = ib[i] /\ i \in 1..Len(ib) + 1 /\ i < Len(ib) + 1
         /\ Append(ib, m)[Len(ib) + 1] = m /\ Len(ib) + 1 \in 1..Len(ib) + 1
         /\ \A i \in 1..Len(ib) + 1 : i \in 1..Len(ib) \/ i = Len(ib) + 1
<1>1. /\ Append(ib, m) \in Seq(Msg) /\ Len(Append(ib, m)) = Len(ib) + 1
      /\ \A i \in 1..Len(ib) : Append(ib, m)[i] = ib[i]
      /\ Append(ib, m)[Len(ib) + 1] = m
  BY AppendProperties
<1>2. Len(ib) \in Nat /\ DOMAIN ib = 1..Len(ib)
  BY LenProperties
<1>3. DOMAIN Append(ib, m) = 1..Len(ib) + 1
  BY <1>1, LenProperties
<1>4. QED
  BY <1>1, <1>2, <1>3

\* The user detaches the debugger.
LEMMA MailOfUser ==
  ASSUME NEW ib \in Seq(Msg), NEW rn, NEW flag, NEW att, Mail(ib, rn),
         FlagOK(flag, att, ib, rn)
  PROVE  /\ Mail(Append(ib, Tab!Detachment), rn)
         /\ FlagOK(flag, FALSE, Append(ib, Tab!Detachment), rn)
<1> DEFINE m == Tab!Detachment
           ic == Append(ib, m)
           n == Len(ib) + 1
<1>0. /\ DOMAIN ib = 1..Len(ib) /\ DOMAIN ic = 1..n /\ n \in 1..n
      /\ \A i \in 1..Len(ib) : ic[i] = ib[i] /\ i \in 1..n /\ i < n
      /\ ic[n] = m /\ \A i \in 1..n : i \in 1..Len(ib) \/ i = n
      /\ m.to = "onDetach" /\ m.to \notin Tab!Runs /\ Len(ib) \in Nat
  <2>1. m \in Msg /\ m.to = "onDetach" /\ m.to \notin Tab!Runs
    BY DEF Msg, Tab!Detachment, Tab!Runs
  <2>2. QED
    BY <2>1, AppendOf
<1>. HIDE DEF m, ic, n
<1>1. Mail(ic, rn)
  BY <1>0 DEF Mail
<1>2. Lowers(ic[n], rn) /\ ~Raises(ic[n], rn)
  BY <1>0 DEF Lowers, Raises
<1>3. \A i \in DOMAIN ic : ~Raises(ic[i], rn) \/ (n > i /\ n \in DOMAIN ic)
  BY <1>0, <1>2
<1>4. FlagOK(flag, FALSE, ic, rn)
  <2>1. ~(\A i \in DOMAIN ic : ~Lowers(ic[i], rn))
    BY <1>0, <1>2
  <2>2. ~(\E i \in DOMAIN ic : /\ Raises(ic[i], rn)
                               /\ \A j \in DOMAIN ic : j > i => ~Lowers(ic[j], rn))
    BY <1>2, <1>3
  <2>3. QED
    BY <2>1, <2>2 DEF FlagOK
<1>5. QED
  BY <1>1, <1>4 DEF m, ic

\* Whether the debugger is attached after r has asked for what.
AttachedAfter(att, what, ok) ==
  CASE what = "attach" -> att \/ ok
    [] what = "detach" -> FALSE
    [] OTHER -> att

\* A request to Chrome, and its answer behind what the inbox holds.
LEMMA MailAsked ==
  ASSUME NEW ib \in Seq(Msg), NEW rn, NEW rm, NEW r \in Tab!Runs, NEW what \in Waits,
         NEW flag \in BOOLEAN, NEW att \in BOOLEAN, NEW ok \in BOOLEAN,
         Mail(ib, rn), FlagOK(flag, att, ib, rn),
         rn[r].step \notin Waits, rm[r].step = what, SameBut(r, rn, rm),
         what = "attach" => r = "command" /\ ~flag /\ (att => ~ok)
  PROVE  /\ Mail(Append(ib, [to |-> r, ok |-> ok]), rm)
         /\ FlagOK(flag, AttachedAfter(att, what, ok), Append(ib, [to |-> r, ok |-> ok]), rm)
<1> DEFINE m == [to |-> r, ok |-> ok]
           ic == Append(ib, m)
           n == Len(ib) + 1
           now == AttachedAfter(att, what, ok)
<1>0. /\ DOMAIN ib = 1..Len(ib) /\ DOMAIN ic = 1..n /\ n \in 1..n
      /\ \A i \in 1..Len(ib) : ic[i] = ib[i] /\ i \in 1..n /\ i < n
      /\ ic[n] = m /\ \A i \in 1..n : i \in 1..Len(ib) \/ i = n
      /\ m.to = r /\ m.ok = ok /\ r # "onDetach" /\ Len(ib) \in Nat
  <2>1. m \in Msg /\ m.to = r /\ m.ok = ok /\ r # "onDetach"
    BY DEF Msg, Tab!Runs
  <2>2. QED
    BY <2>1, AppendOf
<1>. HIDE DEF m, ic, n
<1>1. \A i \in DOMAIN ib : ib[i].to # r
  BY DEF Mail
<1>2. Mail(ic, rm)
  <2>1. ASSUME NEW s \in Tab!Runs
        PROVE  rm[s].step \in Waits <=> \E i \in DOMAIN ic : ic[i].to = s
    <3>1. CASE s = r
      BY <1>0, <3>1
    <3>2. CASE s # r
      <4>1. rm[s] = rn[s]
        BY <3>2 DEF SameBut
      <4>2. (\E i \in DOMAIN ib : ib[i].to = s) <=> \E i \in DOMAIN ic : ic[i].to = s
        BY <1>0, <3>2
      <4>3. QED
        BY <4>1, <4>2 DEF Mail
    <3>3. QED
      BY <3>1, <3>2
  <2>2. \A i, j \in DOMAIN ic : ic[i].to = ic[j].to /\ ic[i].to # "onDetach" => i = j
    BY <1>0, <1>1 DEF Mail
  <2>3. QED
    BY <2>1, <2>2 DEF Mail
<1>3. \A i \in DOMAIN ib : /\ Lowers(ic[i], rm) <=> Lowers(ib[i], rn)
                           /\ Raises(ic[i], rm) <=> Raises(ib[i], rn)
  BY <1>0, <1>1 DEF Lowers, Raises, SameBut
<1>4. /\ Lowers(ic[n], rm) <=> what = "detach"
      /\ Raises(ic[n], rm) <=> what = "attach" /\ ok
  BY <1>0 DEF Lowers, Raises
<1> DEFINE NoneBefore == \A i \in DOMAIN ib : ~Lowers(ib[i], rn)
           LastBefore == \E i \in DOMAIN ib :
                           /\ Raises(ib[i], rn)
                           /\ \A j \in DOMAIN ib : j > i => ~Lowers(ib[j], rn)
           NoneNow == \A i \in DOMAIN ic : ~Lowers(ic[i], rm)
           LastNow == \E i \in DOMAIN ic :
                           /\ Raises(ic[i], rm)
                           /\ \A j \in DOMAIN ic : j > i => ~Lowers(ic[j], rm)
<1>5. NoneNow <=> NoneBefore /\ what # "detach"
  BY <1>0, <1>3, <1>4
<1>6. LastNow <=> \/ what = "attach" /\ ok
                  \/ LastBefore /\ what # "detach"
  <2>1. ASSUME what = "attach" /\ ok
        PROVE  LastNow
    <3>1. \A j \in DOMAIN ic : ~(j > n)
      BY <1>0
    <3>2. QED
      BY <1>0, <1>4, <2>1, <3>1
  <2>2. ASSUME LastBefore, what # "detach"
        PROVE  LastNow
    <3>1. PICK i \in DOMAIN ib : /\ Raises(ib[i], rn)
                                 /\ \A j \in DOMAIN ib : j > i => ~Lowers(ib[j], rn)
      BY <2>2
    <3>2. i \in DOMAIN ic /\ Raises(ic[i], rm)
      BY <1>0, <1>3, <3>1
    <3>3. \A j \in DOMAIN ic : j > i => ~Lowers(ic[j], rm)
      BY <1>0, <1>3, <1>4, <2>2, <3>1
    <3>4. QED
      BY <3>2, <3>3
  <2>3. ASSUME LastNow, ~(what = "attach" /\ ok)
        PROVE  LastBefore /\ what # "detach"
    <3>1. PICK i \in DOMAIN ic : /\ Raises(ic[i], rm)
                                 /\ \A j \in DOMAIN ic : j > i => ~Lowers(ic[j], rm)
      BY <2>3
    <3>2. i \in DOMAIN ib /\ Raises(ib[i], rn) /\ n > i
      BY <1>0, <1>3, <1>4, <2>3, <3>1
    <3>3. what # "detach"
      BY <1>0, <1>4, <3>1, <3>2
    <3>4. \A j \in DOMAIN ib : j > i => ~Lowers(ib[j], rn)
      BY <1>0, <1>3, <3>1
    <3>5. QED
      BY <3>2, <3>3, <3>4
  <2>4. QED
    BY <2>1, <2>2, <2>3
<1>7. att <=> (flag /\ NoneBefore) \/ LastBefore
  BY DEF FlagOK
<1>8. rm["command"].step = "attach" => ~flag
  <2>1. CASE r = "command"
    BY <2>1
  <2>2. CASE r # "command"
    <3>1. rm["command"] = rn["command"]
      BY <2>2 DEF SameBut, Tab!Runs
    <3>2. QED
      BY <3>1 DEF FlagOK
  <2>3. QED
    BY <2>1, <2>2
<1>. HIDE DEF NoneBefore, LastBefore, NoneNow, LastNow
<1>9. now <=> (flag /\ NoneNow) \/ LastNow
  BY <1>5, <1>6, <1>7 DEF AttachedAfter, Waits
<1>10. FlagOK(flag, now, ic, rm)
  BY <1>8, <1>9 DEF FlagOK, NoneNow, LastNow
<1>11. QED
  BY <1>2, <1>10 DEF ic, m

-----------------------------------------------------------------------------
(* What the parts of a command do to the inbox.                            *)

Job == [kind : Tab!Kinds, step : Tab!Steps]
Freed(r) == [run EXCEPT ![r] = Tab!Idle]

\* r has read its answer, if it had one, and rest is what is left; flag is what the
\* worker will take the debugger for.
Ready(r, rest, flag) ==
  /\ r \in Tab!Runs /\ rest \in Seq(Msg) /\ flag \in BOOLEAN /\ attached \in BOOLEAN
  /\ run \in [Tab!Runs -> Job]
  /\ Mail(rest, Freed(r)) /\ FlagOK(flag, attached, rest, Freed(r))

MailNext == MailInv' /\ inbox' \in Seq(Msg) /\ attached' \in BOOLEAN

LEMMA FreedIs ==
  ASSUME NEW r \in Tab!Runs, run \in [Tab!Runs -> Job]
  PROVE  /\ Freed(r)[r].step \notin Waits
         /\ SameBut(r, run, Freed(r))
  BY DEF Freed, SameBut, Tab!Idle, Waits

LEMMA RunTypes ==
  ASSUME RunsInv
  PROVE  /\ run \in [Tab!Runs -> Job] /\ inbox \in Seq(Msg)
         /\ debuggerAttached \in BOOLEAN /\ attached \in BOOLEAN
         /\ Handler.step \in {"none", "post", "detach"}
  BY DEF RunsInv, Tab!TypeOK, Job, Msg, Tab!Idle

LEMMA ReadyAtRest ==
  ASSUME RunsInv, MailInv, NEW r \in Tab!Runs, run[r].step \notin Waits
  PROVE  Ready(r, inbox, debuggerAttached)
  BY RunTypes, FreedIs, MailRests DEF Ready, MailInv

LEMMA ReadyOnAnswer ==
  ASSUME RunsInv, MailInv, NEW r \in Tab!Runs, NEW step \in Waits, Tab!Answer(r, step)
  PROVE  Ready(r, Tab!Rest, FlagAfter(debuggerAttached, step, Tab!Ok))
<1>1. /\ run \in [Tab!Runs -> Job] /\ inbox \in Seq(Msg)
      /\ debuggerAttached \in BOOLEAN /\ attached \in BOOLEAN
      /\ run["handler"].step # "attach"
      /\ Mail(inbox, run) /\ FlagOK(debuggerAttached, attached, inbox, run)
  BY RunTypes DEF MailInv, Handler
<1>2. inbox # <<>> /\ Head(inbox).to = r /\ run[r].step = step
  BY DEF Tab!Answer
<1>3. Head(inbox).ok \in BOOLEAN /\ Tail(inbox) \in Seq(Msg)
  BY <1>1, <1>2, TailOf DEF Msg
<1>4. Freed(r)[r].step \notin Waits /\ SameBut(r, run, Freed(r))
  BY <1>1, FreedIs
<1>5. run[r].step = "attach" => r = "command"
  BY <1>1 DEF Tab!Runs
<1>6. /\ Mail(Tail(inbox), Freed(r))
      /\ FlagOK(FlagAfter(debuggerAttached, run[r].step, Head(inbox).ok), attached,
                Tail(inbox), Freed(r))
  BY <1>1, <1>2, <1>4, <1>5, MailTaken
<1>7. FlagAfter(debuggerAttached, step, Head(inbox).ok) \in BOOLEAN
  BY <1>1, <1>3 DEF FlagAfter
<1>8. QED
  BY <1>1, <1>2, <1>3, <1>6, <1>7 DEF Ready, Tab!Rest, Tab!Ok

LEMMA MailQuiet ==
  ASSUME NEW r, NEW rest, Ready(r, rest, debuggerAttached'), NEW x,
         x.step \notin Waits, run' = [run EXCEPT ![r] = x], Tab!Quiet(rest)
  PROVE  MailNext
<1>1. inbox' = rest /\ attached' = attached
  BY DEF Tab!Quiet
<1>2. run'[r].step \notin Waits /\ SameBut(r, Freed(r), run')
  BY DEF Ready, Freed, SameBut
<1>3. Mail(rest, run') /\ FlagOK(debuggerAttached', attached, rest, run')
  BY <1>2, FreedIs, MailRests DEF Ready
<1>4. QED
  BY <1>1, <1>3 DEF MailNext, MailInv, Ready

LEMMA MailAsks ==
  ASSUME NEW r, NEW rest, Ready(r, rest, debuggerAttached'), NEW kind, NEW what \in Waits,
         what = "attach" => r = "command" /\ ~debuggerAttached',
         Tab!Ask(r, kind, what, rest)
  PROVE  MailNext
<1>1. PICK ok \in Tab!Outcomes(what) :
        /\ run' = [run EXCEPT ![r] = [kind |-> kind, step |-> what]]
        /\ inbox' = Append(rest, [to |-> r, ok |-> ok])
        /\ attached' = CASE what = "attach" -> attached \/ ok
                         [] what = "detach" -> FALSE
                         [] OTHER -> attached
  BY DEF Tab!Ask, Tab!Wait
<1>2. /\ ok \in BOOLEAN /\ attached' = AttachedAfter(attached, what, ok)
      /\ attached' \in BOOLEAN
      /\ what = "attach" => (attached => ~ok)
  BY <1>1 DEF AttachedAfter, Ready, Tab!Outcomes
<1>3. /\ run'[r].step = what /\ SameBut(r, Freed(r), run')
      /\ Freed(r)[r].step \notin Waits
  BY <1>1, FreedIs DEF Ready, Freed, SameBut
<1>4. /\ Mail(Append(rest, [to |-> r, ok |-> ok]), run')
      /\ FlagOK(debuggerAttached', AttachedAfter(attached, what, ok),
                Append(rest, [to |-> r, ok |-> ok]), run')
  BY <1>2, <1>3, MailAsked DEF Ready
<1>5. [to |-> r, ok |-> ok] \in Msg
  BY <1>2 DEF Msg, Ready
<1>6. inbox' \in Seq(Msg)
  BY <1>1, <1>5, AppendOf DEF Ready
<1>7. QED
  BY <1>1, <1>2, <1>4, <1>6 DEF MailNext, MailInv

LEMMA MailEnds ==
  ASSUME NEW r, NEW rest, Ready(r, rest, debuggerAttached'), NEW kind,
         Tab!End(r, kind, rest) \/ Tab!Fail(r, rest)
  PROVE  MailNext
<1>1. Tab!Idle.step \notin Waits /\ Tab!Behind(kind).step \notin Waits
  BY DEF Tab!Idle, Tab!Behind, Waits
<1>2. CASE Tab!End(r, kind, rest)
  BY <1>1, <1>2, MailQuiet DEF Tab!End
<1>3. CASE Tab!Fail(r, rest)
  BY <1>1, <1>3, MailQuiet DEF Tab!Fail
<1>4. QED
  BY <1>2, <1>3

-----------------------------------------------------------------------------
(* The points at which a command asks Chrome or ends.                      *)

LEMMA CommandIs ==
  ASSUME RunsInv
  PROVE  /\ run["command"] \in Job /\ run["handler"] \in Job
         /\ run \in [Tab!Runs -> Job] /\ "command" \in Tab!Runs /\ "handler" \in Tab!Runs
         /\ Handler.kind \in {"none", "closed"}
         /\ Handler.step \in {"none", "post", "detach"}
         /\ users \in Nat /\ enabled \in BOOLEAN /\ console \in BOOLEAN
         /\ cdpEnabled \in BOOLEAN /\ debuggerAttached \in BOOLEAN
         /\ attached \in BOOLEAN /\ domain \in BOOLEAN /\ pageDomain \in BOOLEAN
         /\ left \in BOOLEAN /\ capture \in {"off", "on", "lost"}
         /\ inbox \in Seq(Msg)
         /\ domain => attached
  BY DEF RunsInv, Tab!TypeOK, Job, Handler, Tab!Idle, Tab!Runs, Msg

\* The command has read its answer, if it had one, and rest is left.
Point(rest) == Ready("command", rest, debuggerAttached') /\ (NewsIn(rest) <=> News)

LEMMA PointAtRest ==
  ASSUME RunsInv, MailInv, Command.step \notin Waits, debuggerAttached' = debuggerAttached
  PROVE  Point(inbox)
  BY CommandIs, ReadyAtRest DEF Point, News, Command

LEMMA PointOnAnswer ==
  ASSUME RunsInv, MailInv, NEW step \in Waits, Tab!Answer("command", step),
         debuggerAttached' = FlagAfter(debuggerAttached, step, Tab!Ok)
  PROVE  /\ Point(Tab!Rest) /\ Tab!Ok \in BOOLEAN
         /\ step = "enable" /\ Tab!Ok => Promised
<1>1. Ready("command", Tab!Rest, debuggerAttached')
  BY CommandIs, ReadyOnAnswer
<1>2. inbox \in Seq(Msg) /\ inbox # <<>> /\ Head(inbox).to = "command"
  <2>1. inbox \in Seq(Msg)
    BY RunTypes
  <2>2. QED
    BY <2>1 DEF Tab!Answer
<1>3. /\ DOMAIN inbox = 1..Len(inbox) /\ DOMAIN Tail(inbox) = 1..Len(inbox) - 1
      /\ Len(inbox) \in Nat \ {0} /\ Head(inbox) = inbox[1] /\ inbox[1].ok \in BOOLEAN
      /\ \A i \in 1..Len(inbox) - 1 : Tail(inbox)[i] = inbox[i + 1] /\ i + 1 \in 1..Len(inbox)
      /\ \A i \in 1..Len(inbox) :
           i # 1 => i - 1 \in 1..Len(inbox) - 1 /\ Tail(inbox)[i - 1] = inbox[i]
  BY <1>2, TailOf DEF Msg
<1>4. NewsIn(Tail(inbox)) <=> NewsIn(inbox)
  BY <1>2, <1>3 DEF NewsIn
<1>5. Tab!Ok => Promised
  BY <1>2, <1>3 DEF Tab!Ok, Promised
<1>6. QED
  BY <1>1, <1>3, <1>4, <1>5 DEF Point, News, Tab!Rest, Tab!Ok

\* If the debugger is attached, nothing under way says otherwise.
LEMMA PointFacts ==
  ASSUME RunsInv, NEW rest, Point(rest)
  PROVE  attached => debuggerAttached' /\ ~News /\ Handler.step # "detach"
<1>1. /\ Mail(rest, Freed("command"))
      /\ FlagOK(debuggerAttached', attached, rest, Freed("command"))
  BY DEF Point, Ready
<1>2. /\ Freed("command")["command"] = Tab!Idle /\ Freed("command")["handler"] = Handler
      /\ Handler.step \in {"none", "post", "detach"} /\ Tab!Idle.step = "none"
  BY CommandIs DEF Freed, Handler, Tab!Idle
<1>3. \A i \in DOMAIN rest : ~Raises(rest[i], Freed("command"))
  BY <1>2 DEF Raises, Tab!Runs
<1>4. SUFFICES ASSUME attached
               PROVE  debuggerAttached' /\ ~News /\ Handler.step # "detach"
  OBVIOUS
<1>5. debuggerAttached' /\ \A i \in DOMAIN rest : ~Lowers(rest[i], Freed("command"))
  BY <1>1, <1>3, <1>4 DEF FlagOK
<1>6. ~NewsIn(rest)
  BY <1>5 DEF Lowers, NewsIn
<1>7. ASSUME Handler.step = "detach"
      PROVE  FALSE
  <2>1. PICK i \in DOMAIN rest : rest[i].to = "handler"
    BY <1>1, <1>2, <1>7 DEF Mail, Waits, Tab!Runs
  <2>2. QED
    BY <1>2, <1>5, <1>7, <2>1 DEF Lowers, Tab!Runs
<1>8. QED
  BY <1>5, <1>6, <1>7 DEF Point

LEMMA Became ==
  ASSUME RunsInv, NEW k, NEW s, run' = [run EXCEPT !["command"] = [kind |-> k, step |-> s]]
  PROVE  Handler' = Handler /\ Command' = [kind |-> k, step |-> s]
  BY CommandIs DEF Handler, Command

LEMMA AskGives ==
  ASSUME RunsInv, NEW rest, Point(rest), NEW kind, NEW what \in Waits,
         Tab!Ask("command", kind, what, rest)
  PROVE  /\ Handler' = Handler /\ Command' = [kind |-> kind, step |-> what]
         /\ News' <=> News
         /\ what = "attach" => domain' = domain
         /\ what = "enable" => /\ domain => domain'
                               /\ domain' => attached
                               /\ attached' = attached
                               /\ Promised' => attached /\ domain'
                               /\ attached => InTime'
         /\ what = "send" => domain' = domain /\ attached' = attached
         /\ what = "disable" => (domain' => domain) /\ attached' = attached
         /\ what = "detach" => domain' = FALSE /\ attached' = FALSE
         /\ pageDomain' \in BOOLEAN /\ domain' \in BOOLEAN
<1>1. PICK ok \in Tab!Outcomes(what) :
        /\ run' = [run EXCEPT !["command"] = [kind |-> kind, step |-> what]]
        /\ inbox' = Append(rest, [to |-> "command", ok |-> ok])
        /\ attached' = CASE what = "attach" -> attached \/ ok
                         [] what = "detach" -> FALSE
                         [] OTHER -> attached
        /\ domain' = CASE what = "enable" -> domain \/ ok
                       [] what = "disable" -> domain /\ ~ok
                       [] what = "detach" -> FALSE
                       [] OTHER -> domain
        /\ pageDomain' = CASE what = "detach" -> FALSE
                           [] Tab!EnablesPage(kind, what) -> pageDomain \/ ok
                           [] OTHER -> pageDomain
  BY DEF Tab!Ask, Tab!Wait
<1>2. ok \in BOOLEAN /\ (what # "attach" => (ok => attached))
  BY <1>1, CommandIs DEF Tab!Outcomes
<1>3. Handler' = Handler /\ Command' = [kind |-> kind, step |-> what]
  BY <1>1, Became
<1> DEFINE m == [to |-> "command", ok |-> ok]
<1>4. rest \in Seq(Msg) /\ m \in Msg /\ m.to = "command" /\ m.ok = ok
  BY <1>2, CommandIs DEF Point, Ready, Msg
<1>. HIDE DEF m
<1>5. /\ DOMAIN rest = 1..Len(rest) /\ DOMAIN inbox' = 1..Len(rest) + 1
      /\ Len(rest) \in Nat /\ inbox'[Len(rest) + 1] = m
      /\ Len(rest) + 1 \in 1..Len(rest) + 1
      /\ \A i \in 1..Len(rest) : inbox'[i] = rest[i] /\ i \in 1..Len(rest) + 1
      /\ \A i \in 1..Len(rest) + 1 : i \in 1..Len(rest) \/ i = Len(rest) + 1
  BY <1>1, <1>4, AppendOf DEF m
<1>6. News' <=> News
  BY <1>4, <1>5 DEF News, NewsIn, Point
<1>7. \A i \in DOMAIN rest : rest[i].to # "command"
  BY CommandIs, FreedIs DEF Point, Ready, Mail
<1>8. Promised' => ok
  BY <1>4, <1>5, <1>7 DEF Promised
<1>9. ~News => InTime'
  BY <1>4, <1>5 DEF News, NewsIn, Point, InTime
<1>10. attached => ~News
  BY PointFacts
<1>11. /\ what = "attach" => domain' = domain
       /\ what = "enable" => domain' = (domain \/ ok) /\ attached' = attached
       /\ what = "send" => domain' = domain /\ attached' = attached
       /\ what = "disable" => (domain' => domain) /\ attached' = attached
       /\ what = "detach" => domain' = FALSE /\ attached' = FALSE
       /\ pageDomain' \in BOOLEAN /\ domain' \in BOOLEAN
  BY <1>1, <1>2, CommandIs
<1>12. QED
  BY <1>2, <1>3, <1>6, <1>8, <1>9, <1>10, <1>11, CommandIs

LEMMA RestGives ==
  ASSUME RunsInv, NEW rest, Point(rest), Tab!Quiet(rest)
  PROVE  /\ News' <=> News
         /\ attached' = attached /\ domain' = domain /\ pageDomain' = pageDomain
  BY DEF Tab!Quiet, Point, News

\* What the worker's own variables may become, and the command.
Typed ==
  /\ enabled' \in BOOLEAN /\ console' \in BOOLEAN
  /\ cdpEnabled' \in BOOLEAN /\ debuggerAttached' \in BOOLEAN
Fits(k, s) ==
  /\ k \in Tab!Kinds /\ k # "closed" /\ s \in Tab!Steps /\ s \in StepsOf(k)
  /\ k \in {"start", "restart"} => enabled'
  /\ k = "stop" => ~enabled'
  /\ k = "console" => console'

\* The command has got to step s.
LEMMA Arrives ==
  ASSUME RunsInv, MailNext, NEW k, NEW s, Fits(k, s), Typed,
         run' = [run EXCEPT !["command"] = [kind |-> k, step |-> s]],
         domain' \in BOOLEAN, pageDomain' \in BOOLEAN, domain' => attached',
         capture' \in {"off", "on", "lost"}, left' \in BOOLEAN,
         UsersOK(k, s, enabled', users', capture'),
         debuggerAttached' /\ attached' /\ ~LetsGoLater(k) =>
           enabled' \/ console' \/ left',
         DomainOK(k, s, Handler.step, enabled', users', capture', cdpEnabled',
                  debuggerAttached', domain' \/ News'),
         s = "enable" /\ Promised' =>
           debuggerAttached' /\ Handler.step # "detach" /\ (domain' \/ News') /\ InTime'
  PROVE  DebuggerInv'
<1>1. Handler' = Handler /\ Command' = [kind |-> k, step |-> s]
  BY Became
<1>2. Command'.kind = k /\ Command'.step = s
  BY <1>1
<1>3. users' \in Nat
  BY DEF UsersOK
<1>4. run' \in [Tab!Runs -> Job]
  BY CommandIs DEF Job, Fits
<1>5. Tab!TypeOK'
  BY <1>3, <1>4 DEF Tab!TypeOK, MailNext, Typed, Job, Msg
<1>6. RunsInv'
  <2>1. Handler \in {Tab!Idle} \cup [kind : {"closed"}, step : {"post", "detach"}]
    BY DEF RunsInv
  <2>2. QED
    BY <1>1, <1>2, <1>5, <2>1 DEF RunsInv, Fits
<1>7. UsersInv'
  BY <1>2 DEF UsersInv
<1>8. HeldInv'
  BY <1>2 DEF HeldInv
<1>9. DomainInv'
  BY <1>1, <1>2 DEF DomainInv
<1>10. QED
  BY <1>6, <1>7, <1>8, <1>9 DEF DebuggerInv, MailNext

\* Chrome is asked by a command.
LEMMA Asks ==
  ASSUME RunsInv, NEW rest, Point(rest), NEW kind, NEW what \in Waits, Fits(kind, what), Typed,
         Tab!Ask("command", kind, what, rest), UNCHANGED <<capture, left>>,
         what = "attach" => ~debuggerAttached',
         UsersOK(kind, what, enabled', users', capture),
         attached /\ what # "detach" /\ ~LetsGoLater(kind) =>
           enabled' \/ console' \/ left,
         what # "enable" =>
           DomainOK(kind, what, Handler.step, enabled', users', capture, cdpEnabled',
                    debuggerAttached', (domain /\ what \notin {"disable", "detach"}) \/ News),
         what = "enable" => ~cdpEnabled' /\ (capture = "on" => domain \/ News)
  PROVE  DebuggerInv'
<1>1. MailNext
  BY MailAsks DEF Point
<1>2. /\ Handler' = Handler /\ Command' = [kind |-> kind, step |-> what]
      /\ News' <=> News
      /\ what = "attach" => domain' = domain
      /\ what = "enable" => /\ domain => domain'
                            /\ domain' => attached
                            /\ attached' = attached
                            /\ Promised' => attached /\ domain'
                            /\ attached => InTime'
      /\ what = "send" => domain' = domain /\ attached' = attached
      /\ what = "disable" => (domain' => domain) /\ attached' = attached
      /\ what = "detach" => domain' = FALSE /\ attached' = FALSE
      /\ pageDomain' \in BOOLEAN /\ domain' \in BOOLEAN
  BY AskGives
<1>3. run' = [run EXCEPT !["command"] = [kind |-> kind, step |-> what]]
  BY DEF Tab!Ask, Tab!Wait
<1>4. /\ domain \in BOOLEAN /\ attached \in BOOLEAN /\ (domain => attached)
      /\ capture \in {"off", "on", "lost"} /\ left \in BOOLEAN
  BY CommandIs
<1>5. attached => debuggerAttached' /\ ~News /\ Handler.step # "detach"
  BY PointFacts
<1>6. domain' \in BOOLEAN /\ (domain' => attached')
  <2>1. what = "attach" /\ attached => attached'
    BY CommandIs DEF Tab!Ask
  <2>2. CASE what = "attach"
    BY <1>2, <1>4, <2>1, <2>2
  <2>3. CASE what \in {"enable", "send"}
    BY <1>2, <1>4, <2>3
  <2>4. CASE what \in {"disable", "detach"}
    BY <1>2, <1>4, <2>4
  <2>5. QED
    BY <2>2, <2>3, <2>4 DEF Waits
<1>7. debuggerAttached' /\ attached' /\ ~LetsGoLater(kind) =>
        enabled' \/ console' \/ left'
  BY <1>2 DEF Waits
<1>8. DomainOK(kind, what, Handler.step, enabled', users', capture, cdpEnabled',
               debuggerAttached', domain' \/ News')
  <2>1. CASE what = "enable"
    BY <1>2, <1>4, <2>1 DEF DomainOK
  <2>2. CASE what # "enable"
    <3>1. (domain /\ what \notin {"disable", "detach"}) \/ News => domain' \/ News'
      BY <1>2, <2>2 DEF Waits
    <3>2. QED
      BY <2>2, <3>1 DEF DomainOK
  <2>3. QED
    BY <2>1, <2>2
<1>9. what = "enable" /\ Promised' =>
        debuggerAttached' /\ Handler.step # "detach" /\ (domain' \/ News') /\ InTime'
  BY <1>2, <1>5
<1>10. QED
  BY <1>1, <1>2, <1>3, <1>4, <1>6, <1>7, <1>8, <1>9, Arrives

\* A command goes on without Chrome.
LEMMA GoesOn ==
  ASSUME RunsInv, NEW rest, Point(rest), NEW k, NEW s, Fits(k, s), Typed, s \notin Waits,
         Tab!Quiet(rest), run' = [run EXCEPT !["command"] = [kind |-> k, step |-> s]],
         capture' \in {"off", "on", "lost"}, left' \in BOOLEAN,
         UsersOK(k, s, enabled', users', capture'),
         debuggerAttached' /\ attached /\ ~LetsGoLater(k) =>
           enabled' \/ console' \/ left',
         DomainOK(k, s, Handler.step, enabled', users', capture', cdpEnabled',
                  debuggerAttached', domain \/ News)
  PROVE  DebuggerInv'
<1>1. MailNext
  <2>1. [kind |-> k, step |-> s].step \notin Waits
    OBVIOUS
  <2>2. QED
    BY <2>1, MailQuiet DEF Point
<1>2. /\ News' <=> News
      /\ attached' = attached /\ domain' = domain /\ pageDomain' = pageDomain
  BY RestGives
<1>3. domain \in BOOLEAN /\ pageDomain \in BOOLEAN /\ (domain => attached)
  BY CommandIs
<1>4. (domain' \/ News') <=> (domain \/ News)
  BY <1>2
<1>5. DomainOK(k, s, Handler.step, enabled', users', capture', cdpEnabled',
               debuggerAttached', domain' \/ News')
  BY <1>4 DEF DomainOK
<1>6. s # "enable"
  BY DEF Waits
<1>7. QED
  BY <1>1, <1>2, <1>3, <1>5, <1>6, Arrives

\* A command ends.
LEMMA EndsOK ==
  ASSUME RunsInv, NEW rest, Point(rest), NEW kind \in Tab!Kinds, Typed,
         Tab!End("command", kind, rest),
         kind \in {"start", "restart"} => enabled', kind = "stop" => ~enabled',
         UsersOK(kind, "detach", enabled', users', capture),
         debuggerAttached' /\ attached /\ ~LetsGoLater(Tab!Behind(kind).kind) =>
           enabled' \/ console' \/ left',
         DomainOK(kind, "send", Handler.step, enabled', users', capture, cdpEnabled',
                  debuggerAttached', domain \/ News),
         kind \in {"start", "restart"} /\ ~Stale(kind, enabled', capture) => domain \/ News
  PROVE  DebuggerInv'
<1> DEFINE k == Tab!Behind(kind).kind
           s == Tab!Behind(kind).step
<1>0. Tab!Behind(kind) = [kind |-> k, step |-> s]
  BY DEF Tab!Behind, Tab!Idle
<1>1. /\ Tab!Quiet(rest)
      /\ run' = [run EXCEPT !["command"] = [kind |-> k, step |-> s]]
  BY <1>0 DEF Tab!End
<1>2. /\ capture' = CASE kind = "start" -> "on"
                      [] kind = "restart" /\ capture # "lost" -> "on"
                      [] kind = "dataFailed" -> "lost"
                      [] kind = "stop" -> "off"
                      [] OTHER -> capture
      /\ left' = CASE Tab!Keeps(kind) -> debuggerAttached
                   [] Tab!Lets(kind) -> FALSE
                   [] OTHER -> left
  BY DEF Tab!End
<1>3. capture \in {"off", "on", "lost"} /\ left \in BOOLEAN /\ debuggerAttached \in BOOLEAN
  BY CommandIs
<1>4. capture' \in {"off", "on", "lost"} /\ left' \in BOOLEAN
  BY <1>2, <1>3
<1>5. Fits(k, s) /\ s \notin Waits
  BY DEF Fits, StepsOf, Tab!Kinds, Tab!Steps, Tab!Behind, Tab!Idle, Waits
<1>6. k \notin {"start", "stop", "goto", "data"} /\ s \notin {"detach", "enable", "disable"}
      /\ (k = "dataFailed" <=> kind = "data")
  BY DEF Tab!Behind, Tab!Idle
<1>. HIDE DEF k, s
<1>7. /\ kind = "start" => capture' = "on"
      /\ kind = "restart" => capture' = IF capture = "lost" THEN "lost" ELSE "on"
      /\ kind = "dataFailed" => capture' = "lost"
      /\ kind = "stop" => capture' = "off"
      /\ kind \notin {"start", "restart", "dataFailed", "stop"} => capture' = capture
  BY <1>2
<1>8. UsersOK(k, s, enabled', users', capture')
  BY <1>6, <1>7 DEF UsersOK, Visits
<1>9. DomainOK(k, s, Handler.step, enabled', users', capture', cdpEnabled',
               debuggerAttached', domain \/ News)
  <2>1. cdpEnabled' /\ ~Stale(k, enabled', capture') => ~Stale(kind, enabled', capture)
    BY <1>3, <1>6, <1>7 DEF Stale
  <2>2. capture' = "on" /\ k \notin {"stop", "dataFailed"} => domain \/ News
    BY <1>3, <1>6, <1>7 DEF Stale, DomainOK
  <2>3. QED
    BY <1>6, <2>1, <2>2 DEF DomainOK
<1>10. debuggerAttached' /\ attached /\ ~LetsGoLater(k) => enabled' \/ console' \/ left'
  BY DEF k
<1>11. QED
  BY <1>1, <1>4, <1>5, <1>8, <1>9, <1>10, GoesOn

\* A command fails.
LEMMA FailsOK ==
  ASSUME RunsInv, NEW rest, Point(rest), Typed, Tab!Fail("command", rest),
         NEW cap, cap = (IF Command.kind = "start" THEN "lost" ELSE capture),
         UsersOK("none", "none", enabled', users', cap),
         debuggerAttached' /\ attached => enabled' \/ console' \/ left',
         DomainOK("none", "none", Handler.step, enabled', users', cap, cdpEnabled',
                  debuggerAttached', domain \/ News)
  PROVE  DebuggerInv'
<1>1. /\ Tab!Quiet(rest) /\ capture' = cap
      /\ left' = (left \/ (Tab!KeepsFailed(Command.kind) /\ debuggerAttached))
      /\ run' = [run EXCEPT !["command"] = [kind |-> "none", step |-> "none"]]
  BY DEF Tab!Fail, Tab!Idle, Command
<1>2. cap \in {"off", "on", "lost"} /\ left' \in BOOLEAN
  BY <1>1, CommandIs
<1>3. Fits("none", "none") /\ "none" \notin Waits
  BY DEF Fits, StepsOf, Tab!Kinds, Tab!Steps, Waits
<1>4. debuggerAttached' /\ attached /\ ~LetsGoLater("none") =>
        enabled' \/ console' \/ left'
  BY <1>1
<1>5. QED
  BY <1>1, <1>2, <1>3, <1>4, GoesOn

\* detachDebuggerIfIdle: nothing that uses the debugger loses it.
LEMMA LetsGoOK ==
  ASSUME RunsInv, NEW rest, Point(rest), Typed,
         NEW kind \in {"goto", "data", "dataFailed", "stop", "consoleStop", "disarm", "input",
                       "keys"},
         NEW u, NEW con, u = users', con = console', debuggerAttached' = debuggerAttached,
         Tab!DetachIfIdle("command", kind, u, con, rest),
         kind = "stop" => ~enabled',
         UsersOK(kind, "detach", enabled', users', capture),
         DomainOK(kind, "send", Handler.step, enabled', users', capture, cdpEnabled',
                  debuggerAttached', domain \/ News)
  PROVE  DebuggerInv'
<1>1. CASE ~debuggerAttached \/ u > 0 \/ con
  <2>1. Tab!End("command", kind, rest)
    BY <1>1 DEF Tab!DetachIfIdle
  <2>2. debuggerAttached' => enabled' \/ console'
    BY <1>1 DEF UsersOK, Visits
  <2>3. kind \in Tab!Kinds
    BY DEF Tab!Kinds
  <2>4. QED
    BY <2>1, <2>2, <2>3, EndsOK
<1>2. CASE ~(~debuggerAttached \/ u > 0 \/ con)
  <2>1. Tab!Ask("command", kind, "detach", rest) /\ UNCHANGED <<capture, left>>
    BY <1>2 DEF Tab!DetachIfIdle, Tab!ghosts
  <2>2. users' = 0
    BY <1>2 DEF UsersOK
  <2>3. Fits(kind, "detach") /\ "detach" \in Waits
    BY DEF Fits, StepsOf, Tab!Kinds, Tab!Steps, Waits
  <2>4. DomainOK(kind, "detach", Handler.step, enabled', users', capture, cdpEnabled',
                 debuggerAttached', (domain /\ "detach" \notin {"disable", "detach"}) \/ News)
    BY <2>2 DEF DomainOK, UsersOK
  <2>5. QED
    BY <2>1, <2>3, <2>4, Asks
<1>3. QED
  BY <1>1, <1>2

\* releaseNetworkTracking
LEMMA ReleasesOK ==
  ASSUME RunsInv, NEW rest, Point(rest), Typed,
         NEW kind \in {"goto", "data", "dataFailed", "stop"},
         debuggerAttached' = debuggerAttached, cdpEnabled' = cdpEnabled, console' = console,
         Tab!Release("command", kind, rest),
         kind = "stop" => ~enabled',
         UsersOK(kind, "detach", enabled', users', capture),
         kind # "stop" =>
           DomainOK(kind, "send", Handler.step, enabled', users, capture, cdpEnabled',
                    debuggerAttached', domain \/ News)
  PROVE  DebuggerInv'
<1>1. users' \in {0, 1}
  BY DEF UsersOK, Visits
<1>2. CASE users' > 0
  <2>1. Tab!End("command", kind, rest)
    BY <1>2 DEF Tab!Release
  <2>2. kind # "stop" /\ enabled' /\ users' # 0
    BY <1>1, <1>2 DEF UsersOK, Visits
  <2>3. DomainOK(kind, "send", Handler.step, enabled', users', capture, cdpEnabled',
                 debuggerAttached', domain \/ News)
    BY <2>2 DEF DomainOK
  <2>4. kind \in Tab!Kinds
    BY DEF Tab!Kinds
  <2>5. QED
    BY <2>1, <2>2, <2>3, <2>4, EndsOK
<1>3. CASE ~(users' > 0) /\ cdpEnabled
  <2>1. Tab!Ask("command", kind, "disable", rest) /\ UNCHANGED <<capture, left>>
    BY <1>3 DEF Tab!Release, Tab!ghosts
  <2>2. users' = 0
    BY <1>1, <1>3
  <2>3. Fits(kind, "disable") /\ "disable" \in Waits /\ LetsGoLater(kind)
    BY DEF Fits, StepsOf, Tab!Kinds, Tab!Steps, Waits, LetsGoLater
  <2>4. UsersOK(kind, "disable", enabled', users', capture)
    BY DEF UsersOK, Visits
  <2>5. DomainOK(kind, "disable", Handler.step, enabled', users', capture, cdpEnabled',
                 debuggerAttached', (domain /\ "disable" \notin {"disable", "detach"}) \/ News)
    BY <2>2 DEF DomainOK, UsersOK
  <2>6. QED
    BY <2>1, <2>3, <2>4, <2>5, Asks
<1>4. CASE ~(users' > 0) /\ ~cdpEnabled
  <2>1. Tab!DetachIfIdle("command", kind, 0, console, rest)
    BY <1>4 DEF Tab!Release
  <2>2. users' = 0
    BY <1>1, <1>4
  <2>3. DomainOK(kind, "send", Handler.step, enabled', users', capture, cdpEnabled',
                 debuggerAttached', domain \/ News)
    BY <1>4, <2>2 DEF DomainOK
  <2>4. QED
    BY <2>1, <2>2, <2>3, LetsGoOK
<1>5. QED
  BY <1>2, <1>3, <1>4, CommandIs

\* ensureNetworkDomainEnabled has succeeded.
LEMMA EnsuredOK ==
  ASSUME RunsInv, NEW rest, Point(rest), Typed, NEW kind \in {"start", "restart", "goto", "data"},
         Tab!Ensured("command", kind, rest), cdpEnabled',
         kind \in {"start", "restart"} => enabled',
         UsersOK(kind, "enable", enabled', users', capture),
         DomainOK(kind, "send", Handler.step, enabled', users', capture, cdpEnabled',
                  debuggerAttached', domain \/ News)
  PROVE  DebuggerInv'
<1>1. CASE kind \in {"start", "restart"}
  <2>1. Tab!End("command", kind, rest)
    BY <1>1 DEF Tab!Ensured
  <2>2. UsersOK(kind, "detach", enabled', users', capture)
    BY <1>1 DEF UsersOK, Visits
  <2>3. ~Stale(kind, enabled', capture) => domain \/ News
    BY DEF DomainOK
  <2>4. kind \in Tab!Kinds /\ kind # "stop"
    BY DEF Tab!Kinds
  <2>5. QED
    BY <1>1, <2>1, <2>2, <2>3, <2>4, EndsOK
<1>2. CASE kind \in {"goto", "data"}
  <2>1. /\ Tab!Quiet(rest) /\ capture' = capture /\ left' = left
        /\ run' = [run EXCEPT !["command"] = [kind |-> kind, step |-> "page"]]
    BY <1>2 DEF Tab!Ensured, Tab!Wait, Tab!ghosts
  <2>2. UsersOK(kind, "page", enabled', users', capture')
    BY <1>2, <2>1 DEF UsersOK, Visits
  <2>3. Fits(kind, "page") /\ "page" \notin Waits /\ LetsGoLater(kind)
    BY <1>2 DEF Fits, StepsOf, Tab!Kinds, Tab!Steps, Waits, LetsGoLater
  <2>4. DomainOK(kind, "page", Handler.step, enabled', users', capture', cdpEnabled',
                 debuggerAttached', domain \/ News)
    BY <2>1 DEF DomainOK
  <2>5. capture' \in {"off", "on", "lost"} /\ left' \in BOOLEAN
    BY <2>1, CommandIs
  <2>6. QED
    BY <2>1, <2>2, <2>3, <2>4, <2>5, GoesOn
<1>3. QED
  BY <1>1, <1>2

\* ensureNetworkDomainEnabled
LEMMA EnsuresOK ==
  ASSUME RunsInv, NEW rest, Point(rest), Typed, NEW kind \in {"start", "restart", "goto", "data"},
         Tab!EnsureEnabled("command", kind, rest), cdpEnabled' = cdpEnabled,
         kind \in {"start", "restart"} => enabled',
         UsersOK(kind, "enable", enabled', users', capture),
         DomainOK(kind, "send", Handler.step, enabled', users', capture, cdpEnabled',
                  debuggerAttached', domain \/ News)
  PROVE  DebuggerInv'
<1>1. CASE cdpEnabled
  <2>1. Tab!Ensured("command", kind, rest)
    BY <1>1 DEF Tab!EnsureEnabled
  <2>2. QED
    BY <1>1, <2>1, EnsuredOK
<1>2. CASE ~cdpEnabled
  <2>1. Tab!Ask("command", kind, "enable", rest) /\ UNCHANGED <<capture, left>>
    BY <1>2 DEF Tab!EnsureEnabled, Tab!ghosts
  <2>2. Fits(kind, "enable") /\ "enable" \in Waits
    BY DEF Fits, StepsOf, Tab!Kinds, Tab!Steps, Waits
  <2>3. ~LetsGoLater(kind) => enabled'
    BY DEF LetsGoLater
  <2>4. capture = "on" => domain \/ News
    BY DEF DomainOK
  <2>5. QED
    BY <1>2, <2>1, <2>2, <2>3, <2>4, Asks
<1>3. QED
  BY <1>1, <1>2

\* The debugger is attached.
LEMMA AttachedOK ==
  ASSUME RunsInv, NEW rest, Point(rest), Typed,
         NEW kind \in {"start", "restart", "goto", "data", "console", "input",
                       "inputAttached", "arm", "wait", "handle", "keys", "keysAttached"},
         Tab!Attached("command", kind, rest), cdpEnabled' = cdpEnabled,
         kind \in {"start", "restart"} => enabled', kind = "console" => console',
         UsersOK(kind, "enable", enabled', users', capture),
         kind = "inputAttached" /\ attached => enabled' \/ console' \/ left,
         DomainOK(kind, "send", Handler.step, enabled', users', capture, cdpEnabled',
                  debuggerAttached', domain \/ News)
  PROVE  DebuggerInv'
<1>1. CASE kind \in {"start", "restart", "goto", "data"}
  BY <1>1, EnsuresOK DEF Tab!Attached
<1>2. CASE kind \in {"console", "input", "inputAttached", "arm", "wait", "handle", "keys",
                     "keysAttached"}
  <2>1. Tab!Ask("command", kind, "send", rest) /\ UNCHANGED <<capture, left>>
    BY <1>2 DEF Tab!Attached, Tab!ghosts
  <2>2. Fits(kind, "send") /\ "send" \in Waits
    BY <1>2 DEF Fits, StepsOf, Tab!Kinds, Tab!Steps, Waits
  <2>3. attached /\ ~LetsGoLater(kind) => enabled' \/ console' \/ left
    BY <1>2 DEF LetsGoLater
  <2>4. UsersOK(kind, "send", enabled', users', capture)
    BY <1>2 DEF UsersOK, Visits
  <2>5. DomainOK(kind, "send", Handler.step, enabled', users', capture, cdpEnabled',
                 debuggerAttached', (domain /\ "send" \notin {"disable", "detach"}) \/ News)
    BY DEF DomainOK
  <2>6. QED
    BY <2>1, <2>2, <2>3, <2>4, <2>5, Asks
<1>3. QED
  BY <1>1, <1>2

\* attachDebugger
LEMMA AttachesOK ==
  ASSUME RunsInv, NEW rest, Point(rest), Typed,
         NEW kind \in {"start", "restart", "goto", "data", "console", "input",
                       "inputAttached", "arm", "wait", "handle", "keys", "keysAttached"},
         Tab!Attach("command", kind, rest), cdpEnabled' = cdpEnabled,
         debuggerAttached' = debuggerAttached,
         kind \in {"inputAttached", "keysAttached"} => debuggerAttached,
         kind \in {"start", "restart"} => enabled', kind = "console" => console',
         UsersOK(kind, "enable", enabled', users', capture),
         kind = "inputAttached" /\ attached => enabled' \/ console' \/ left,
         DomainOK(kind, "send", Handler.step, enabled', users', capture, cdpEnabled',
                  debuggerAttached', domain \/ News)
  PROVE  DebuggerInv'
<1>1. CASE debuggerAttached
  BY <1>1, AttachedOK DEF Tab!Attach
<1>2. CASE ~debuggerAttached
  <2>1. Tab!Ask("command", kind, "attach", rest) /\ UNCHANGED <<capture, left>>
    BY <1>2 DEF Tab!Attach, Tab!ghosts
  <2>2. Fits(kind, "attach") /\ "attach" \in Waits
    BY <1>2 DEF Fits, StepsOf, Tab!Kinds, Tab!Steps, Waits
  <2>3. ~attached
    BY <1>2, PointFacts
  <2>4. UsersOK(kind, "attach", enabled', users', capture)
    BY DEF UsersOK, Visits
  <2>5. DomainOK(kind, "attach", Handler.step, enabled', users', capture, cdpEnabled',
                 debuggerAttached', (domain /\ "attach" \notin {"disable", "detach"}) \/ News)
    BY DEF DomainOK
  <2>6. QED
    BY <1>2, <2>1, <2>2, <2>3, <2>4, <2>5, Asks
<1>3. QED
  BY <1>1, <1>2

\* acquireNetworkTracking: its user is counted before.
LEMMA AcquiresOK ==
  ASSUME RunsInv, NEW rest, Point(rest), Typed, NEW kind \in {"start", "restart", "goto", "data"},
         Tab!Acquire("command", kind, rest), cdpEnabled' = cdpEnabled,
         debuggerAttached' = debuggerAttached,
         kind \in {"start", "restart"} => enabled',
         kind = "start" => UsersOK("start", "post", enabled', users, capture),
         kind # "start" => UsersOK("none", "none", enabled', users, capture),
         DomainOK(kind, "send", Handler.step, enabled', users, capture, cdpEnabled',
                  debuggerAttached', domain \/ News)
  PROVE  DebuggerInv'
<1>1. /\ Tab!Attach("command", kind, rest)
      /\ users' = IF kind \in {"start", "goto", "data"} THEN users + 1 ELSE users
  BY DEF Tab!Acquire, Tab!Counts
<1>2. users \in {0, 1} /\ (users = 0 => users + 1 = 1) /\ (users = 1 => users + 1 = 2)
  BY DEF UsersOK, Visits
<1>3. UsersOK(kind, "enable", enabled', users', capture)
  <2>1. CASE kind = "restart"
    BY <1>1, <2>1 DEF UsersOK, Visits
  <2>2. CASE kind = "start"
    BY <1>1, <1>2, <2>2 DEF UsersOK, Visits
  <2>3. CASE kind \in {"goto", "data"}
    BY <1>1, <1>2, <2>3 DEF UsersOK, Visits
  <2>4. QED
    BY <2>1, <2>2, <2>3
<1>4. DomainOK(kind, "send", Handler.step, enabled', users', capture, cdpEnabled',
               debuggerAttached', domain \/ News)
  <2>1. users # 0 => users' # 0
    BY <1>1, <1>2
  <2>2. QED
    BY <2>1 DEF DomainOK
<1>5. QED
  BY <1>1, <1>3, <1>4, AttachesOK

-----------------------------------------------------------------------------
(* The commands begin.                                                     *)

LEMMA FreeIs ==
  ASSUME DebuggerInv, Tab!Free, debuggerAttached' = debuggerAttached
  PROVE  /\ RunsInv /\ Point(inbox)
         /\ Command.kind = "none" /\ Command.step = "none"
         /\ UsersOK("none", "none", enabled, users, capture)
         /\ debuggerAttached /\ attached => enabled \/ console \/ left
         /\ DomainOK("none", "none", Handler.step, enabled, users, capture, cdpEnabled,
                     debuggerAttached, domain \/ News)
<1>1. Command.kind = "none" /\ Command.step = "none" /\ RunsInv /\ MailInv
  BY DEF Tab!Free, Tab!Idle, Command, DebuggerInv
<1>2. Point(inbox)
  BY <1>1, PointAtRest DEF Waits
<1>3. ~LetsGoLater("none")
  BY DEF LetsGoLater
<1>4. QED
  BY <1>1, <1>2, <1>3 DEF DebuggerInv, UsersInv, HeldInv, DomainInv

\* A start goes on after its post.
LEMMA AfterOK ==
  ASSUME RunsInv, Point(inbox), Typed, NEW kind \in {"start", "restart"}, Tab!After(kind),
         enabled', cdpEnabled' = cdpEnabled, debuggerAttached' = debuggerAttached,
         kind = "start" => UsersOK("start", "post", enabled', users, capture),
         kind # "start" => UsersOK("none", "none", enabled', users, capture),
         DomainOK(kind, "send", Handler.step, enabled', users, capture, cdpEnabled',
                  debuggerAttached', domain \/ News)
  PROVE  DebuggerInv'
<1>1. CASE kind = "restart" /\ cdpEnabled
  <2>1. users' = users /\ Tab!End("command", kind, inbox)
    BY <1>1 DEF Tab!After
  <2>2. UsersOK(kind, "detach", enabled', users', capture)
    BY <1>1, <2>1 DEF UsersOK, Visits
  <2>3. DomainOK(kind, "send", Handler.step, enabled', users', capture, cdpEnabled',
                 debuggerAttached', domain \/ News)
    BY <2>1 DEF DomainOK
  <2>4. ~Stale(kind, enabled', capture) => domain \/ News
    BY <1>1, <2>3 DEF DomainOK
  <2>5. kind \in Tab!Kinds /\ kind # "stop"
    BY DEF Tab!Kinds
  <2>6. QED
    BY <2>1, <2>2, <2>3, <2>4, <2>5, EndsOK
<1>2. CASE ~(kind = "restart" /\ cdpEnabled)
  <2>1. Tab!Acquire("command", kind, inbox)
    BY <1>2 DEF Tab!After
  <2>2. QED
    BY <2>1, AcquiresOK
<1>3. QED
  BY <1>1, <1>2

LEMMA StartOK ==
  ASSUME DebuggerInv, NEW clear \in BOOLEAN, Tab!Start(clear)
  PROVE  DebuggerInv'
<1> DEFINE kind == IF enabled THEN "restart" ELSE "start"
<1>1. /\ Tab!Free /\ enabled' = TRUE /\ kind \in {"start", "restart"}
      /\ cdpEnabled' = cdpEnabled /\ debuggerAttached' = debuggerAttached /\ console' = console
      /\ IF clear THEN /\ Tab!Wait("command", kind, "post")
                       /\ UNCHANGED <<users, Tab!chromeVars, Tab!ghosts>>
                  ELSE Tab!After(kind)
  BY DEF Tab!Start
<1>2. /\ RunsInv /\ Point(inbox)
      /\ UsersOK("none", "none", enabled, users, capture)
      /\ DomainOK("none", "none", Handler.step, enabled, users, capture, cdpEnabled,
                  debuggerAttached, domain \/ News)
  BY <1>1, FreeIs
<1>3. kind = "start" <=> ~enabled
  OBVIOUS
<1>. HIDE DEF kind
<1>4. Typed
  BY <1>1, <1>2, CommandIs DEF Typed
<1>5. kind = "start" => users = 0 /\ capture # "on"
  BY <1>2, <1>3 DEF UsersOK, Visits
<1>6. /\ kind = "start" => UsersOK("start", "post", TRUE, users, capture)
      /\ kind # "start" => UsersOK("none", "none", TRUE, users, capture)
  BY <1>2, <1>3, <1>5 DEF UsersOK, Visits
<1>7. ~Stale(kind, TRUE, capture) => ~Stale("none", enabled, capture)
  BY <1>3 DEF Stale
<1>8. CASE clear
  <2>1. /\ Tab!Quiet(inbox) /\ users' = users /\ capture' = capture /\ left' = left
        /\ run' = [run EXCEPT !["command"] = [kind |-> kind, step |-> "post"]]
    BY <1>1, <1>8 DEF Tab!Wait, Tab!Quiet, Tab!chromeVars, Tab!ghosts
  <2>2. Fits(kind, "post") /\ "post" \notin Waits
    BY <1>1 DEF Fits, StepsOf, Tab!Kinds, Tab!Steps, Waits
  <2>3. UsersOK(kind, "post", enabled', users', capture')
    BY <1>1, <1>2, <1>3, <1>5, <2>1 DEF UsersOK, Visits
  <2>4. DomainOK(kind, "post", Handler.step, enabled', users', capture', cdpEnabled',
                 debuggerAttached', domain \/ News)
    BY <1>1, <1>2, <1>7, <2>1 DEF DomainOK
  <2>5. capture' \in {"off", "on", "lost"} /\ left' \in BOOLEAN
    BY <1>2, <2>1, CommandIs
  <2>6. QED
    BY <1>1, <1>2, <1>4, <2>1, <2>2, <2>3, <2>4, <2>5, GoesOn
<1>9. CASE ~clear
  <2>1. Tab!After(kind) /\ enabled'
    BY <1>1, <1>9
  <2>2. DomainOK(kind, "send", Handler.step, enabled', users, capture, cdpEnabled',
                 debuggerAttached', domain \/ News)
    BY <1>1, <1>2, <1>7 DEF DomainOK
  <2>3. QED
    BY <1>1, <1>2, <1>4, <1>6, <2>1, <2>2, AfterOK
<1>10. QED
  BY <1>8, <1>9

\* What the invariant says of a command at its step.
LEMMA AtStep ==
  ASSUME DebuggerInv
  PROVE  /\ RunsInv /\ MailInv /\ Command.step \in StepsOf(Command.kind)
         /\ UsersOK(Command.kind, Command.step, enabled, users, capture)
         /\ DomainOK(Command.kind, Command.step, Handler.step, enabled, users, capture,
                     cdpEnabled, debuggerAttached, domain \/ News)
         /\ Command.kind \in {"start", "restart"} => enabled
         /\ Command.kind = "stop" => ~enabled
         /\ Command.kind = "console" => console
         /\ Command.kind \in Tab!Kinds
<1>1. RunsInv
  BY DEF DebuggerInv
<1>2. Command \in Job
  BY <1>1, CommandIs DEF Command
<1>3. Command.kind \in Tab!Kinds
  BY <1>2 DEF Job
<1>4. QED
  BY <1>1, <1>3 DEF DebuggerInv, RunsInv, UsersInv, DomainInv

LEMMA StartPostedOK ==
  ASSUME DebuggerInv, NEW ok \in BOOLEAN, Tab!StartPosted(ok)
  PROVE  DebuggerInv'
<1>1. PICK kind \in {"start", "restart"} :
        /\ Tab!Posted(kind)
        /\ IF ok THEN Tab!After(kind) ELSE Tab!Fail("command", inbox) /\ UNCHANGED users
        /\ UNCHANGED <<enabled, cdpEnabled, debuggerAttached, console>>
  BY DEF Tab!StartPosted
<1>2. Command.kind = kind /\ Command.step = "post"
  BY <1>1 DEF Tab!Posted, Command
<1>3. /\ RunsInv /\ MailInv /\ enabled
      /\ UsersOK(kind, "post", enabled, users, capture)
      /\ DomainOK(kind, "post", Handler.step, enabled, users, capture,
                  cdpEnabled, debuggerAttached, domain \/ News)
  BY <1>2, AtStep
<1>4. Point(inbox)
  BY <1>1, <1>2, <1>3, PointAtRest DEF Waits
<1>5. Typed
  BY <1>1, <1>3, CommandIs DEF Typed
<1>6. CASE ok
  <2>1. Tab!After(kind)
    BY <1>1, <1>6
  <2>2. /\ kind = "start" => UsersOK("start", "post", enabled', users, capture)
        /\ kind # "start" => UsersOK("none", "none", enabled', users, capture)
    BY <1>1, <1>3 DEF UsersOK, Visits
  <2>3. DomainOK(kind, "send", Handler.step, enabled', users, capture, cdpEnabled',
                 debuggerAttached', domain \/ News)
    BY <1>1, <1>3 DEF DomainOK
  <2>4. QED
    BY <1>1, <1>3, <1>4, <1>5, <2>1, <2>2, <2>3, AfterOK
<1>7. CASE ~ok
  <2>1. Tab!Fail("command", inbox) /\ users' = users
    BY <1>1, <1>7
  <2> DEFINE cap == IF Command.kind = "start" THEN "lost" ELSE capture
  <2>2. /\ kind = "start" => cap = "lost"
        /\ kind = "restart" => cap = capture
    BY <1>2
  <2>3. cap = (IF Command.kind = "start" THEN "lost" ELSE capture)
    OBVIOUS
  <2>. HIDE DEF cap
  <2>4. UsersOK("none", "none", enabled', users', cap)
    BY <1>1, <1>3, <2>1, <2>2 DEF UsersOK, Visits
  <2>5. DomainOK("none", "none", Handler.step, enabled', users', cap, cdpEnabled',
                 debuggerAttached', domain \/ News)
    BY <1>1, <1>3, <2>1, <2>2 DEF DomainOK, Stale
  <2>6. QED
    BY <1>1, <1>3, <1>4, <1>5, <2>1, <2>3, <2>4, <2>5, FailsOK
<1>8. QED
  BY <1>6, <1>7

LEMMA LessIs ==
  ASSUME NEW u \in {0, 1, 2}
  PROVE  /\ u = 0 => Tab!Less(u) = 0
         /\ u = 1 => Tab!Less(u) = 0
         /\ u = 2 => Tab!Less(u) = 1
  BY DEF Tab!Less

LEMMA StopOK ==
  ASSUME DebuggerInv, Tab!Stop
  PROVE  DebuggerInv'
<1>1. /\ Tab!Free /\ enabled' = FALSE
      /\ Tab!Release("command", "stop", inbox)
      /\ cdpEnabled' = cdpEnabled /\ debuggerAttached' = debuggerAttached /\ console' = console
  BY DEF Tab!Stop
<1>2. /\ RunsInv /\ Point(inbox)
      /\ UsersOK("none", "none", enabled, users, capture)
  BY <1>1, FreeIs
<1>3. Typed
  BY <1>1, <1>2, CommandIs DEF Typed
<1>4. users' = Tab!Less(users)
  BY <1>1 DEF Tab!Release
<1>5. users \in {0, 1, 2} /\ users # 2
  BY <1>2 DEF UsersOK, Visits
<1>6. users' = 0
  BY <1>4, <1>5, LessIs
<1>7. UsersOK("stop", "detach", enabled', users', capture)
  BY <1>1, <1>6 DEF UsersOK, Visits
<1>8. QED
  BY <1>1, <1>2, <1>3, <1>7, ReleasesOK

LEMMA GotoOK ==
  ASSUME DebuggerInv, NEW kind \in {"goto", "data"}, Tab!Goto(kind)
  PROVE  DebuggerInv'
<1>1. /\ Tab!Free /\ Tab!Acquire("command", kind, inbox)
      /\ enabled' = enabled /\ cdpEnabled' = cdpEnabled
      /\ debuggerAttached' = debuggerAttached /\ console' = console
  BY DEF Tab!Goto
<1>2. /\ RunsInv /\ Point(inbox)
      /\ UsersOK("none", "none", enabled, users, capture)
      /\ DomainOK("none", "none", Handler.step, enabled, users, capture, cdpEnabled,
                  debuggerAttached, domain \/ News)
  BY <1>1, FreeIs
<1>3. Typed
  BY <1>1, <1>2, CommandIs DEF Typed
<1>4. UsersOK("none", "none", enabled', users, capture)
  BY <1>1, <1>2
<1>5. DomainOK(kind, "send", Handler.step, enabled', users, capture, cdpEnabled',
               debuggerAttached', domain \/ News)
  BY <1>1, <1>2 DEF DomainOK, Stale
<1>6. QED
  BY <1>1, <1>2, <1>3, <1>4, <1>5, AcquiresOK

LEMMA PageEndsOK ==
  ASSUME DebuggerInv, Tab!PageEnds
  PROVE  DebuggerInv'
<1>1. /\ Command.step = "page" /\ Tab!Release("command", Command.kind, inbox)
      /\ enabled' = enabled /\ cdpEnabled' = cdpEnabled
      /\ debuggerAttached' = debuggerAttached /\ console' = console
  BY DEF Tab!PageEnds, Command
<1>2. /\ RunsInv /\ MailInv
      /\ UsersOK(Command.kind, "page", enabled, users, capture)
      /\ DomainOK(Command.kind, "page", Handler.step, enabled, users, capture,
                  cdpEnabled, debuggerAttached, domain \/ News)
      /\ "page" \in StepsOf(Command.kind)
  BY <1>1, AtStep
<1>3. Command.kind \in {"goto", "data", "dataFailed"}
  BY <1>2 DEF StepsOf
<1>4. Point(inbox)
  BY <1>1, <1>2, PointAtRest DEF Waits
<1>5. Typed
  BY <1>1, <1>2, CommandIs DEF Typed
<1>6. UsersOK(Command.kind, "detach", enabled', users', capture)
  <2>1. users' = Tab!Less(users)
    BY <1>1 DEF Tab!Release
  <2>2. users \in {0, 1, 2}
    BY <1>2 DEF UsersOK
  <2>3. /\ users = 0 => users' = 0
        /\ users = 1 => users' = 0
        /\ users = 2 => users' = 1
    BY <2>1, <2>2, LessIs
  <2>4. QED
    BY <1>1, <1>2, <1>3, <2>2, <2>3 DEF UsersOK, Visits
<1>7. DomainOK(Command.kind, "send", Handler.step, enabled', users, capture, cdpEnabled',
               debuggerAttached', domain \/ News)
  BY <1>1, <1>2 DEF DomainOK
<1>8. QED
  BY <1>1, <1>2, <1>3, <1>4, <1>5, <1>6, <1>7, ReleasesOK

\* The others but ConsolePosted begin in a free worker.
BeginOthers ==
  \/ Tab!ConsoleStart \/ Tab!ConsoleStop \/ Tab!Input \/ Tab!Disarm
  \/ \E kind \in {"arm", "wait", "handle"} : Tab!Dialog(kind)

LEMMA OthersOK ==
  ASSUME DebuggerInv, BeginOthers
  PROVE  DebuggerInv'
<1>1. /\ Tab!Free /\ enabled' = enabled /\ users' = users /\ cdpEnabled' = cdpEnabled
      /\ debuggerAttached' = debuggerAttached
      /\ \/ console' = console
         \/ Tab!ConsoleStart /\ console' = TRUE
         \/ Tab!ConsoleStop /\ console' = FALSE
  BY DEF BeginOthers, Tab!ConsoleStart, Tab!Begin, Tab!ConsoleStop, Tab!Input, Tab!Dialog,
         Tab!Disarm, Tab!stateVars
<1>2. /\ RunsInv /\ Point(inbox)
      /\ UsersOK("none", "none", enabled, users, capture)
      /\ debuggerAttached /\ attached => enabled \/ console \/ left
      /\ DomainOK("none", "none", Handler.step, enabled, users, capture, cdpEnabled,
                  debuggerAttached, domain \/ News)
  BY <1>1, FreeIs
<1>3. console \in BOOLEAN
  BY <1>2, CommandIs
<1>4. Typed
  BY <1>1, <1>2, <1>3, CommandIs DEF Typed
<1>5. \A k, s : /\ k \notin {"start", "goto", "data"} =>
                     UsersOK(k, s, enabled', users', capture)
                /\ s \notin {"enable", "disable", "detach"} /\ k # "start" =>
                     DomainOK(k, s, Handler.step, enabled', users', capture, cdpEnabled',
                              debuggerAttached', domain \/ News)
  <2>1. ASSUME NEW k, NEW s, k \notin {"start", "goto", "data"}
        PROVE  UsersOK(k, s, enabled', users', capture)
    BY <1>1, <1>2, <2>1 DEF UsersOK, Visits
  <2>2. ASSUME NEW k, NEW s, s \notin {"enable", "disable", "detach"}, k # "start"
        PROVE  DomainOK(k, s, Handler.step, enabled', users', capture, cdpEnabled',
                        debuggerAttached', domain \/ News)
    BY <1>1, <1>2, <2>2 DEF DomainOK, Stale
  <2>3. QED
    BY <2>1, <2>2
<1>6. CASE Tab!ConsoleStart
  <2>1. /\ Tab!Quiet(inbox) /\ capture' = capture /\ left' = left /\ console' = TRUE
        /\ run' = [run EXCEPT !["command"] = [kind |-> "console", step |-> "post"]]
    BY <1>6 DEF Tab!ConsoleStart, Tab!Begin, Tab!Wait, Tab!Quiet, Tab!chromeVars, Tab!ghosts
  <2>2. Fits("console", "post") /\ "post" \notin Waits
    BY <2>1 DEF Fits, StepsOf, Tab!Kinds, Tab!Steps, Waits
  <2>3. capture' \in {"off", "on", "lost"} /\ left' \in BOOLEAN
    BY <1>2, <2>1, CommandIs
  <2>4. /\ UsersOK("console", "post", enabled', users', capture')
        /\ DomainOK("console", "post", Handler.step, enabled', users', capture', cdpEnabled',
                    debuggerAttached', domain \/ News)
    BY <1>5, <2>1
  <2>5. QED
    BY <1>2, <1>4, <2>1, <2>2, <2>3, <2>4, GoesOn
<1>7. CASE Tab!ConsoleStop
  <2>1. Tab!DetachIfIdle("command", "consoleStop", users, FALSE, inbox) /\ console' = FALSE
    BY <1>7 DEF Tab!ConsoleStop
  <2>2. /\ UsersOK("consoleStop", "detach", enabled', users', capture)
        /\ DomainOK("consoleStop", "send", Handler.step, enabled', users', capture, cdpEnabled',
                    debuggerAttached', domain \/ News)
    BY <1>5
  <2>3. QED
    BY <1>1, <1>2, <1>4, <2>1, <2>2, LetsGoOK
<1>8. CASE Tab!Disarm
  <2>1. Tab!DetachIfIdle("command", "disarm", users, console, inbox) /\ console' = console
    BY <1>8 DEF Tab!Disarm, Tab!stateVars
  <2>2. /\ UsersOK("disarm", "detach", enabled', users', capture)
        /\ DomainOK("disarm", "send", Handler.step, enabled', users', capture, cdpEnabled',
                    debuggerAttached', domain \/ News)
    BY <1>5
  <2>3. QED
    BY <1>1, <1>2, <1>4, <2>1, <2>2, LetsGoOK
<1>9. CASE Tab!Input
  <2>1. PICK kind \in {"input", "inputAttached"} :
          /\ Tab!Attach("command", kind, inbox)
          /\ kind = "inputAttached" => debuggerAttached
    BY <1>9 DEF Tab!Input
  <2>2. console' = console
    BY <1>9 DEF Tab!Input, Tab!stateVars
  <2>3. /\ UsersOK(kind, "enable", enabled', users', capture)
        /\ DomainOK(kind, "send", Handler.step, enabled', users', capture, cdpEnabled',
                    debuggerAttached', domain \/ News)
    BY <1>5
  <2>4. kind = "inputAttached" /\ attached => enabled' \/ console' \/ left
    BY <1>1, <1>2, <2>1, <2>2
  <2>5. QED
    BY <1>1, <1>2, <1>4, <2>1, <2>2, <2>3, <2>4, AttachesOK
<1>10. CASE \E kind \in {"arm", "wait", "handle"} : Tab!Dialog(kind)
  <2>1. PICK kind \in {"arm", "wait", "handle"} :
          Tab!Attach("command", kind, inbox) /\ console' = console
    BY <1>10 DEF Tab!Dialog, Tab!stateVars
  <2>2. /\ UsersOK(kind, "enable", enabled', users', capture)
        /\ DomainOK(kind, "send", Handler.step, enabled', users', capture, cdpEnabled',
                    debuggerAttached', domain \/ News)
    BY <1>5
  <2>3. QED
    BY <1>1, <1>2, <1>4, <2>1, <2>2, AttachesOK
<1>11. QED
  BY <1>6, <1>7, <1>8, <1>9, <1>10 DEF BeginOthers

\* A dialog is waited for, or watched.
LEMMA DialogOK ==
  ASSUME DebuggerInv, Tab!DialogWaited \/ Tab!DialogHandled
  PROVE  DebuggerInv'
<1> DEFINE kind == IF Tab!DialogWaited THEN "waiting" ELSE "handled"
<1>1. /\ Command.kind = kind /\ Command.step = "dialog"
      /\ enabled' = enabled /\ users' = users /\ cdpEnabled' = cdpEnabled
      /\ debuggerAttached' = debuggerAttached /\ console' = console
      /\ \/ Tab!End("command", kind, inbox)
         \/ Tab!DetachIfIdle("command", "disarm", users, console, inbox)
         \/ Tab!Fail("command", inbox) /\ kind = "handled"
         \/ Tab!Attach("command", IF debuggerAttached THEN "keysAttached" ELSE "keys", inbox)
  BY DEF Tab!DialogWaited, Tab!DialogHandled, Tab!At, Command, Tab!stateVars
<1>2. /\ RunsInv /\ MailInv
      /\ UsersOK(Command.kind, "dialog", enabled, users, capture)
      /\ DomainOK(Command.kind, "dialog", Handler.step, enabled, users, capture,
                  cdpEnabled, debuggerAttached, domain \/ News)
  BY <1>1, AtStep
<1>3. Point(inbox)
  BY <1>1, <1>2, PointAtRest DEF Waits
<1>4. Typed
  BY <1>1, <1>2, CommandIs DEF Typed
<1>5. kind \in {"waiting", "handled"} /\ kind \in Tab!Kinds
  BY DEF Tab!Kinds
<1>. HIDE DEF kind
<1>6. \A k, s : /\ k \notin {"start", "goto", "data"} =>
                     UsersOK(k, s, enabled', users', capture)
                /\ s \notin {"enable", "disable", "detach"} /\ k # "start" =>
                     DomainOK(k, s, Handler.step, enabled', users', capture, cdpEnabled',
                              debuggerAttached', domain \/ News)
  <2>1. ASSUME NEW k, NEW s, k \notin {"start", "goto", "data"}
        PROVE  UsersOK(k, s, enabled', users', capture)
    BY <1>1, <1>2, <1>5, <2>1 DEF UsersOK, Visits
  <2>2. ASSUME NEW k, NEW s, s \notin {"enable", "disable", "detach"}, k # "start"
        PROVE  DomainOK(k, s, Handler.step, enabled', users', capture, cdpEnabled',
                        debuggerAttached', domain \/ News)
    BY <1>1, <1>2, <1>5, <2>2 DEF DomainOK, Stale
  <2>3. QED
    BY <2>1, <2>2
<1>7. CASE Tab!End("command", kind, inbox)
  <2>1. left' = debuggerAttached
    <3>1. left' = CASE Tab!Keeps(kind) -> debuggerAttached
                    [] Tab!Lets(kind) -> FALSE
                    [] OTHER -> left
      BY <1>7 DEF Tab!End
    <3>2. QED
      BY <1>5, <3>1 DEF Tab!Keeps, Tab!Lets
  <2>2. UsersOK(kind, "detach", enabled', users', capture)
    BY <1>5, <1>6
  <2>3. DomainOK(kind, "send", Handler.step, enabled', users', capture, cdpEnabled',
                 debuggerAttached', domain \/ News)
    BY <1>5, <1>6
  <2>4. QED
    BY <1>1, <1>2, <1>3, <1>4, <1>5, <1>7, <2>1, <2>2, <2>3, EndsOK
<1>8. CASE Tab!DetachIfIdle("command", "disarm", users, console, inbox)
  <2>1. UsersOK("disarm", "detach", enabled', users', capture)
    BY <1>6
  <2>2. DomainOK("disarm", "send", Handler.step, enabled', users', capture, cdpEnabled',
                 debuggerAttached', domain \/ News)
    BY <1>6
  <2>3. QED
    BY <1>1, <1>2, <1>3, <1>4, <1>8, <2>1, <2>2, LetsGoOK
<1>9. CASE Tab!Fail("command", inbox) /\ kind = "handled"
  <2>1. capture = IF Command.kind = "start" THEN "lost" ELSE capture
    BY <1>1, <1>9
  <2>2. debuggerAttached' => left'
    BY <1>1, <1>9 DEF Tab!Fail, Tab!KeepsFailed, Command
  <2>3. UsersOK("none", "none", enabled', users', capture)
    BY <1>6
  <2>4. DomainOK("none", "none", Handler.step, enabled', users', capture, cdpEnabled',
                 debuggerAttached', domain \/ News)
    BY <1>6
  <2>5. QED
    BY <1>1, <1>2, <1>3, <1>4, <1>9, <2>1, <2>2, <2>3, <2>4, FailsOK
<1>10. CASE Tab!Attach("command", IF debuggerAttached THEN "keysAttached" ELSE "keys", inbox)
  <2>1. PICK k \in {"keys", "keysAttached"} :
          /\ Tab!Attach("command", k, inbox)
          /\ k = "keysAttached" => debuggerAttached
    BY <1>10
  <2>2. UsersOK(k, "enable", enabled', users', capture)
    BY <1>6
  <2>3. DomainOK(k, "send", Handler.step, enabled', users', capture, cdpEnabled',
                 debuggerAttached', domain \/ News)
    BY <1>6
  <2>4. QED
    BY <1>1, <1>2, <1>3, <1>4, <2>1, <2>2, <2>3, AttachesOK
<1>11. QED
  BY <1>1, <1>7, <1>8, <1>9, <1>10

LEMMA ConsolePostedOK ==
  ASSUME DebuggerInv, Tab!ConsolePosted
  PROVE  DebuggerInv'
<1>1. /\ Command.kind = "console" /\ Command.step = "post"
      /\ Tab!Attach("command", "console", inbox) \/ Tab!Fail("command", inbox)
      /\ enabled' = enabled /\ users' = users /\ cdpEnabled' = cdpEnabled
      /\ debuggerAttached' = debuggerAttached /\ console' = console
  BY DEF Tab!ConsolePosted, Tab!Posted, Command, Tab!stateVars
<1>2. /\ RunsInv /\ MailInv /\ console
      /\ UsersOK("console", "post", enabled, users, capture)
      /\ DomainOK("console", "post", Handler.step, enabled, users, capture,
                  cdpEnabled, debuggerAttached, domain \/ News)
  BY <1>1, AtStep
<1>3. Point(inbox)
  BY <1>1, <1>2, PointAtRest DEF Waits
<1>4. Typed
  BY <1>1, <1>2, CommandIs DEF Typed
<1>5. CASE Tab!Attach("command", "console", inbox)
  <2>1. UsersOK("console", "enable", enabled', users', capture)
    BY <1>1, <1>2 DEF UsersOK, Visits
  <2>2. DomainOK("console", "send", Handler.step, enabled', users', capture, cdpEnabled',
                 debuggerAttached', domain \/ News)
    BY <1>1, <1>2 DEF DomainOK
  <2>3. QED
    BY <1>1, <1>2, <1>3, <1>4, <1>5, <2>1, <2>2, AttachesOK
<1>6. CASE Tab!Fail("command", inbox)
  <2>1. capture = IF Command.kind = "start" THEN "lost" ELSE capture
    BY <1>1
  <2>2. UsersOK("none", "none", enabled', users', capture)
    BY <1>1, <1>2 DEF UsersOK, Visits
  <2>3. DomainOK("none", "none", Handler.step, enabled', users', capture, cdpEnabled',
                 debuggerAttached', domain \/ News)
    BY <1>1, <1>2 DEF DomainOK, Stale
  <2>4. QED
    BY <1>1, <1>2, <1>3, <1>4, <1>6, <2>1, <2>2, <2>3, FailsOK
<1>7. QED
  BY <1>1, <1>5, <1>6

-----------------------------------------------------------------------------
(* Chrome answers a command.                                               *)

LEMMA OkIs ==
  ASSUME RunsInv, NEW r, NEW step, Tab!Answer(r, step)
  PROVE  Tab!Ok \in BOOLEAN
<1>1. inbox \in Seq(Msg)
  BY RunTypes
<1>2. inbox # <<>>
  BY DEF Tab!Answer
<1>3. QED
  BY <1>1, <1>2, TailOf DEF Tab!Ok, Msg

LEMMA AttachAnsweredOK ==
  ASSUME DebuggerInv, Tab!AttachAnswered("command")
  PROVE  DebuggerInv'
<1>1. /\ Tab!Answer("command", "attach") /\ Command.step = "attach"
      /\ enabled' = enabled /\ cdpEnabled' = cdpEnabled /\ console' = console
      /\ IF Tab!Ok THEN /\ Tab!Attached("command", Command.kind, Tab!Rest)
                        /\ debuggerAttached' = TRUE
                        /\ users' = users
                   ELSE /\ IF Command.kind = "keys"
                           THEN Tab!End("command", "keys", Tab!Rest)
                           ELSE Tab!Fail("command", Tab!Rest)
                        /\ users' = Tab!Undo(Command.kind)
                        /\ debuggerAttached' = debuggerAttached
  BY DEF Tab!AttachAnswered, Tab!Answer, Tab!FlagOnFailure, Command
<1>2. /\ RunsInv /\ MailInv /\ "attach" \in StepsOf(Command.kind)
      /\ UsersOK(Command.kind, "attach", enabled, users, capture)
      /\ DomainOK(Command.kind, "attach", Handler.step, enabled, users, capture,
                  cdpEnabled, debuggerAttached, domain \/ News)
      /\ Command.kind \in {"start", "restart"} => enabled
      /\ Command.kind = "console" => console
  BY <1>1, AtStep
<1>3. Command.kind \in {"start", "restart", "goto", "data", "console", "input", "arm",
                        "wait", "handle", "keys"}
  BY <1>2 DEF StepsOf
<1>4. ~debuggerAttached
  BY <1>1, <1>2 DEF MailInv, FlagOK, Command
<1>5. Tab!Ok \in BOOLEAN
  BY <1>1, <1>2, OkIs
<1>6. debuggerAttached' = FlagAfter(debuggerAttached, "attach", Tab!Ok)
  BY <1>1, <1>2, <1>4, <1>5, CommandIs DEF FlagAfter
<1>7. Point(Tab!Rest)
  BY <1>1, <1>2, <1>6, PointOnAnswer DEF Waits
<1>8. Typed
  BY <1>1, <1>2, <1>5, CommandIs DEF Typed
<1>9. CASE Tab!Ok
  <2>1. UsersOK(Command.kind, "enable", enabled', users', capture)
    BY <1>1, <1>2, <1>9 DEF UsersOK, Visits
  <2>2. DomainOK(Command.kind, "send", Handler.step, enabled', users', capture, cdpEnabled',
                 debuggerAttached', domain \/ News)
    BY <1>1, <1>2, <1>9 DEF DomainOK
  <2>3. QED
    BY <1>1, <1>2, <1>3, <1>7, <1>8, <1>9, <2>1, <2>2, AttachedOK
<1>10. CASE ~Tab!Ok
  <2> DEFINE cap == IF Command.kind = "start" THEN "lost" ELSE capture
  <2>1. /\ Command.kind # "keys" => Tab!Fail("command", Tab!Rest)
        /\ Command.kind = "keys" => Tab!End("command", "keys", Tab!Rest)
        /\ ~debuggerAttached' /\ users' = Tab!Undo(Command.kind)
    BY <1>1, <1>4, <1>10
  <2>2. cap = (IF Command.kind = "start" THEN "lost" ELSE capture)
    OBVIOUS
  <2>. HIDE DEF cap
  <2>3. UsersOK("none", "none", enabled', users', cap)
    <3>1. users \in {0, 1, 2}
      BY <1>2 DEF UsersOK
    <3>2. CASE Command.kind \in {"start", "goto", "data"}
      <4>1. users' = Tab!Less(users)
        BY <2>1, <3>2 DEF Tab!Undo, Tab!Counts
      <4>2. /\ users = 0 => users' = 0
            /\ users = 1 => users' = 0
            /\ users = 2 => users' = 1
        BY <3>1, <4>1, LessIs
      <4>3. QED
        BY <1>1, <1>2, <2>2, <3>1, <3>2, <4>2 DEF UsersOK, Visits
    <3>3. CASE Command.kind \notin {"start", "goto", "data"}
      <4>1. users' = users
        BY <2>1, <3>3 DEF Tab!Undo, Tab!Counts
      <4>2. QED
        BY <1>1, <1>2, <1>3, <2>2, <3>3, <4>1 DEF UsersOK, Visits
    <3>4. QED
      BY <3>2, <3>3
  <2>4. DomainOK("none", "none", Handler.step, enabled', users', cap, cdpEnabled',
                 debuggerAttached', domain \/ News)
    BY <1>1, <1>2, <1>3, <1>4, <2>2 DEF DomainOK, Stale
  <2>5. CASE Command.kind # "keys"
    BY <1>2, <1>7, <1>8, <2>1, <2>2, <2>3, <2>4, <2>5, FailsOK
  <2>6. CASE Command.kind = "keys"
    <3>1. UsersOK("keys", "detach", enabled', users', capture)
      BY <2>2, <2>3, <2>6 DEF UsersOK, Visits
    <3>2. DomainOK("keys", "send", Handler.step, enabled', users', capture, cdpEnabled',
                   debuggerAttached', domain \/ News)
      BY <1>1, <1>2, <1>4, <2>2, <2>4, <2>6 DEF DomainOK, Stale
    <3>3. "keys" \in Tab!Kinds
      BY DEF Tab!Kinds
    <3>4. QED
      BY <1>2, <1>7, <1>8, <2>1, <2>6, <3>1, <3>2, <3>3, EndsOK
  <2>7. QED
    BY <2>5, <2>6
<1>11. QED
  BY <1>9, <1>10

LEMMA EnableAnsweredOK ==
  ASSUME DebuggerInv, Tab!EnableAnswered("command")
  PROVE  DebuggerInv'
<1>1. /\ Tab!Answer("command", "enable") /\ Command.step = "enable"
      /\ enabled' = enabled /\ debuggerAttached' = debuggerAttached /\ console' = console
      /\ IF Tab!Ok THEN /\ Tab!Ensured("command", Command.kind, Tab!Rest)
                        /\ cdpEnabled' = TRUE
                        /\ users' = users
                   ELSE /\ Tab!Fail("command", Tab!Rest)
                        /\ users' = Tab!Undo(Command.kind)
                        /\ cdpEnabled' = cdpEnabled
  BY DEF Tab!EnableAnswered, Tab!Answer, Command
<1>2. /\ RunsInv /\ MailInv /\ "enable" \in StepsOf(Command.kind)
      /\ UsersOK(Command.kind, "enable", enabled, users, capture)
      /\ DomainOK(Command.kind, "enable", Handler.step, enabled, users, capture,
                  cdpEnabled, debuggerAttached, domain \/ News)
      /\ Command.kind \in {"start", "restart"} => enabled
  BY <1>1, AtStep
<1>3. Command.kind \in {"start", "restart", "goto", "data"}
  BY <1>2 DEF StepsOf
<1>4. ~cdpEnabled
  BY <1>2 DEF DomainOK
<1>5. debuggerAttached' = FlagAfter(debuggerAttached, "enable", Tab!Ok)
  BY <1>1 DEF FlagAfter
<1>6. /\ Point(Tab!Rest) /\ Tab!Ok \in BOOLEAN
      /\ Tab!Ok => Promised
  BY <1>1, <1>2, <1>5, PointOnAnswer DEF Waits
<1>7. Typed
  BY <1>1, <1>2, <1>6, CommandIs DEF Typed
<1>8. CASE Tab!Ok
  <2>1. UsersOK(Command.kind, "enable", enabled', users', capture)
    BY <1>1, <1>2, <1>8
  <2>2. ~Stale(Command.kind, enabled, capture) =>
          debuggerAttached /\ Handler.step # "detach" /\ (domain \/ News)
    BY <1>1, <1>6, <1>8 DEF DebuggerInv, DomainInv
  <2>3. ~Stale(Command.kind, enabled, capture) => users # 0
    BY <1>2, <1>3 DEF UsersOK, Visits, Stale
  <2>4. DomainOK(Command.kind, "send", Handler.step, enabled', users', capture, cdpEnabled',
                 debuggerAttached', domain \/ News)
    BY <1>1, <1>2, <1>8, <2>2, <2>3 DEF DomainOK
  <2>5. QED
    BY <1>1, <1>2, <1>3, <1>6, <1>7, <1>8, <2>1, <2>4, EnsuredOK
<1>9. CASE ~Tab!Ok
  <2> DEFINE cap == IF Command.kind = "start" THEN "lost" ELSE capture
  <2>1. /\ Tab!Fail("command", Tab!Rest) /\ ~cdpEnabled'
        /\ users' = Tab!Undo(Command.kind)
        /\ debuggerAttached' => enabled' \/ left'
    BY <1>1, <1>2, <1>3, <1>4, <1>6, <1>9 DEF Tab!Fail, Tab!KeepsFailed, Command
  <2>2. cap = (IF Command.kind = "start" THEN "lost" ELSE capture)
    OBVIOUS
  <2>. HIDE DEF cap
  <2>3. UsersOK("none", "none", enabled', users', cap)
    <3>1. users \in {0, 1, 2}
      BY <1>2 DEF UsersOK
    <3>2. CASE Command.kind \in {"start", "goto", "data"}
      <4>1. users' = Tab!Less(users)
        BY <2>1, <3>2 DEF Tab!Undo, Tab!Counts
      <4>2. /\ users = 0 => users' = 0
            /\ users = 1 => users' = 0
            /\ users = 2 => users' = 1
        BY <3>1, <4>1, LessIs
      <4>3. QED
        BY <1>1, <1>2, <2>2, <3>1, <3>2, <4>2 DEF UsersOK, Visits
    <3>3. CASE Command.kind = "restart"
      <4>1. users' = users
        BY <2>1, <3>3 DEF Tab!Undo, Tab!Counts
      <4>2. QED
        BY <1>1, <1>2, <2>2, <3>3, <4>1 DEF UsersOK, Visits
    <3>4. QED
      BY <1>3, <3>2, <3>3
  <2>4. DomainOK("none", "none", Handler.step, enabled', users', cap, cdpEnabled',
                 debuggerAttached', domain \/ News)
    BY <1>2, <1>3, <2>1, <2>2 DEF DomainOK
  <2>5. QED
    BY <1>2, <1>6, <1>7, <2>1, <2>2, <2>3, <2>4, FailsOK
<1>10. QED
  BY <1>8, <1>9

LEMMA DisableAnsweredOK ==
  ASSUME DebuggerInv, Tab!DisableAnswered("command")
  PROVE  DebuggerInv'
<1>1. /\ Tab!Answer("command", "disable") /\ Command.step = "disable" /\ cdpEnabled' = FALSE
      /\ enabled' = enabled /\ users' = users
      /\ debuggerAttached' = debuggerAttached /\ console' = console
      /\ Tab!DetachIfIdle("command", Command.kind, users, console, Tab!Rest)
  BY DEF Tab!DisableAnswered, Tab!Answer, Command
<1>2. /\ RunsInv /\ MailInv /\ "disable" \in StepsOf(Command.kind)
      /\ UsersOK(Command.kind, "disable", enabled, users, capture)
      /\ DomainOK(Command.kind, "disable", Handler.step, enabled, users, capture,
                  cdpEnabled, debuggerAttached, domain \/ News)
      /\ Command.kind = "stop" => ~enabled
  BY <1>1, AtStep
<1>3. Command.kind \in {"stop", "goto", "data", "dataFailed"}
  BY <1>2 DEF StepsOf
<1>4. debuggerAttached' = FlagAfter(debuggerAttached, "disable", Tab!Ok)
  BY <1>1 DEF FlagAfter
<1>5. Point(Tab!Rest)
  BY <1>1, <1>2, <1>4, PointOnAnswer DEF Waits
<1>6. Typed
  BY <1>1, <1>2, CommandIs DEF Typed
<1>7. UsersOK(Command.kind, "detach", enabled', users', capture)
  BY <1>1, <1>2 DEF UsersOK, Visits
<1>8. DomainOK(Command.kind, "send", Handler.step, enabled', users', capture, cdpEnabled',
               debuggerAttached', domain \/ News)
  BY <1>1, <1>2 DEF DomainOK
<1>9. QED
  BY <1>1, <1>2, <1>3, <1>5, <1>6, <1>7, <1>8, LetsGoOK

LEMMA DetachAnsweredOK ==
  ASSUME DebuggerInv, Tab!DetachAnswered("command")
  PROVE  DebuggerInv'
<1>1. /\ Tab!Answer("command", "detach") /\ Command.step = "detach"
      /\ enabled' = enabled /\ users' = users /\ cdpEnabled' = cdpEnabled
      /\ debuggerAttached' = FALSE /\ console' = console
      /\ Tab!End("command", Command.kind, Tab!Rest)
  BY DEF Tab!DetachAnswered, Tab!Answer, Command
<1>2. /\ RunsInv /\ MailInv /\ "detach" \in StepsOf(Command.kind)
      /\ UsersOK(Command.kind, "detach", enabled, users, capture)
      /\ DomainOK(Command.kind, "detach", Handler.step, enabled, users, capture,
                  cdpEnabled, debuggerAttached, domain \/ News)
      /\ Command.kind = "stop" => ~enabled
      /\ Command.kind \in Tab!Kinds
  BY <1>1, AtStep
<1>3. Command.kind \notin {"start", "restart"}
  BY <1>2 DEF StepsOf
<1>4. debuggerAttached' = FlagAfter(debuggerAttached, "detach", Tab!Ok)
  BY <1>1 DEF FlagAfter
<1>5. Point(Tab!Rest)
  BY <1>1, <1>2, <1>4, PointOnAnswer DEF Waits
<1>6. Typed
  BY <1>1, <1>2, CommandIs DEF Typed
<1>7. UsersOK(Command.kind, "detach", enabled', users', capture)
  BY <1>1, <1>2
<1>8. DomainOK(Command.kind, "send", Handler.step, enabled', users', capture, cdpEnabled',
               debuggerAttached', domain \/ News)
  BY <1>1, <1>2 DEF DomainOK
<1>9. QED
  BY <1>1, <1>2, <1>3, <1>5, <1>6, <1>7, <1>8, EndsOK

LEMMA SendAnsweredOK ==
  ASSUME DebuggerInv, Tab!SendAnswered("command")
  PROVE  DebuggerInv'
<1>1. /\ Tab!Answer("command", "send") /\ Command.step = "send"
      /\ enabled' = enabled /\ users' = users /\ cdpEnabled' = cdpEnabled
      /\ debuggerAttached' = debuggerAttached /\ console' = console
      /\ \/ /\ Command.kind \in {"input", "keys"}
            /\ Tab!DetachIfIdle("command", Command.kind, users, console, Tab!Rest)
         \/ /\ Command.kind \notin {"input", "keys", "keysAttached"}
            /\ Tab!Fail("command", Tab!Rest)
         \/ /\ Command.kind = "handle"
            /\ Tab!Ask("command", "handling", "send", Tab!Rest)
            /\ UNCHANGED <<capture, left>>
         \/ /\ Command.kind \notin {"input", "keys", "handle"}
            /\ Tab!End("command", Command.kind, Tab!Rest)
  BY DEF Tab!SendAnswered, Tab!Answer, Tab!LetsGo, Command, Tab!stateVars, Tab!ghosts
<1>2. /\ RunsInv /\ MailInv /\ "send" \in StepsOf(Command.kind)
      /\ UsersOK(Command.kind, "send", enabled, users, capture)
      /\ DomainOK(Command.kind, "send", Handler.step, enabled, users, capture,
                  cdpEnabled, debuggerAttached, domain \/ News)
      /\ Command.kind = "console" => console
      /\ Command.kind \in Tab!Kinds
  BY <1>1, AtStep
<1>3. Command.kind \in {"console", "input", "inputAttached", "arm", "wait", "handle",
                        "handling", "keys", "keysAttached"}
  BY <1>2 DEF StepsOf
<1>4. debuggerAttached' = FlagAfter(debuggerAttached, "send", Tab!Ok)
  BY <1>1 DEF FlagAfter
<1>5. Point(Tab!Rest)
  BY <1>1, <1>2, <1>4, PointOnAnswer DEF Waits
<1>6. Typed
  BY <1>1, <1>2, CommandIs DEF Typed
<1>7. \A k \in {Command.kind, "handling"} :
        /\ UsersOK(k, "detach", enabled', users', capture)
        /\ UsersOK(k, "send", enabled', users', capture)
        /\ DomainOK(k, "send", Handler.step, enabled', users', capture, cdpEnabled',
                    debuggerAttached', domain \/ News)
  BY <1>1, <1>2, <1>3 DEF UsersOK, Visits, DomainOK, Stale
<1>8. Command.kind = "inputAttached" /\ debuggerAttached /\ attached =>
        enabled \/ console \/ left
  BY DEF DebuggerInv, HeldInv, LetsGoLater
<1>9. CASE /\ Command.kind \in {"input", "keys"}
           /\ Tab!DetachIfIdle("command", Command.kind, users, console, Tab!Rest)
  BY <1>1, <1>2, <1>5, <1>6, <1>7, <1>9, LetsGoOK
<1>10. CASE /\ Command.kind \notin {"input", "keys", "keysAttached"}
            /\ Tab!Fail("command", Tab!Rest)
  <2>1. capture = IF Command.kind = "start" THEN "lost" ELSE capture
    BY <1>3
  <2>2. left' = (left \/ (Command.kind \in {"arm", "wait", "handle", "handling"}
                          /\ debuggerAttached))
    BY <1>3, <1>10 DEF Tab!Fail, Tab!KeepsFailed, Command
  <2>3. debuggerAttached' /\ attached => enabled' \/ console' \/ left'
    BY <1>1, <1>2, <1>3, <1>8, <1>10, <2>2
  <2>4. UsersOK("none", "none", enabled', users', capture)
    BY <1>1, <1>2, <1>3 DEF UsersOK, Visits
  <2>5. DomainOK("none", "none", Handler.step, enabled', users', capture, cdpEnabled',
                 debuggerAttached', domain \/ News)
    BY <1>1, <1>2, <1>3 DEF DomainOK, Stale
  <2>6. QED
    BY <1>2, <1>5, <1>6, <1>10, <2>1, <2>3, <2>4, <2>5, FailsOK
<1>11. CASE /\ Tab!Ask("command", "handling", "send", Tab!Rest)
            /\ UNCHANGED <<capture, left>>
  <2>1. Fits("handling", "send") /\ "send" \in Waits /\ LetsGoLater("handling")
    BY DEF Fits, StepsOf, Tab!Kinds, Tab!Steps, Waits, LetsGoLater
  <2>2. DomainOK("handling", "send", Handler.step, enabled', users', capture, cdpEnabled',
                 debuggerAttached', (domain /\ "send" \notin {"disable", "detach"}) \/ News)
    BY <1>7 DEF DomainOK
  <2>3. QED
    BY <1>2, <1>5, <1>6, <1>7, <1>11, <2>1, <2>2, Asks
<1>12. CASE /\ Command.kind \notin {"input", "keys", "handle"}
            /\ Tab!End("command", Command.kind, Tab!Rest)
  <2>1. left' = IF Command.kind = "arm" THEN debuggerAttached ELSE left
    BY <1>3, <1>12 DEF Tab!End, Tab!Keeps, Tab!Lets
  <2>2. Command.kind \in {"wait", "handling", "keysAttached"} =>
          LetsGoLater(Tab!Behind(Command.kind).kind)
    BY DEF LetsGoLater, Tab!Behind
  <2>3. /\ debuggerAttached' /\ attached /\ ~LetsGoLater(Tab!Behind(Command.kind).kind)
        => enabled' \/ console' \/ left'
    BY <1>1, <1>2, <1>3, <1>8, <1>12, <2>1, <2>2
  <2>4. QED
    BY <1>2, <1>3, <1>5, <1>6, <1>7, <1>12, <2>3, EndsOK
<1>13. QED
  BY <1>1, <1>9, <1>10, <1>11, <1>12

-----------------------------------------------------------------------------
(* What happens beside a command.                                          *)

HandlerStates == {Tab!Idle} \cup [kind : {"closed"}, step : {"post", "detach"}]

LEMMA Beside ==
  ASSUME DebuggerInv, MailNext, run' \in [Tab!Runs -> Job], Command' = Command,
         Handler' \in HandlerStates,
         enabled' = enabled, users' = users, console' = console,
         cdpEnabled' \in BOOLEAN, debuggerAttached' \in BOOLEAN,
         domain' \in BOOLEAN, pageDomain' \in BOOLEAN, domain' => attached',
         capture' \in {"off", "on", "lost"}, left' \in BOOLEAN,
         UsersOK(Command.kind, Command.step, enabled, users, capture'),
         debuggerAttached' /\ attached' /\ ~LetsGoLater(Command.kind) =>
           enabled \/ console \/ left',
         DomainOK(Command.kind, Command.step, Handler'.step, enabled, users, capture',
                  cdpEnabled', debuggerAttached', domain' \/ News'),
         Command.step = "enable" /\ Promised' /\ ~Stale(Command.kind, enabled, capture') =>
           debuggerAttached' /\ Handler'.step # "detach" /\ (domain' \/ News') /\ InTime'
  PROVE  DebuggerInv'
<1>1. RunsInv
  BY DEF DebuggerInv
<1>2. Tab!TypeOK'
  BY <1>1, CommandIs DEF Tab!TypeOK, MailNext, Job, Msg
<1>3. RunsInv'
  BY <1>1, <1>2 DEF RunsInv, HandlerStates
<1>4. UsersInv' /\ HeldInv' /\ DomainInv'
  BY DEF UsersInv, HeldInv, DomainInv
<1>5. QED
  BY <1>3, <1>4 DEF DebuggerInv, MailNext

LEMMA TailKeeps ==
  ASSUME inbox \in Seq(Msg), inbox # <<>>, inbox' = Tail(inbox), Head(inbox).to # "command"
  PROVE  /\ Promised' => Promised
         /\ Head(inbox).to # "onDetach" => (News' <=> News)
         /\ Head(inbox).to = "onDetach" /\ InTime => ~Promised
<1>1. /\ DOMAIN inbox = 1..Len(inbox) /\ DOMAIN inbox' = 1..Len(inbox) - 1
      /\ Len(inbox) \in Nat \ {0} /\ Head(inbox) = inbox[1]
      /\ \A i \in 1..Len(inbox) - 1 : inbox'[i] = inbox[i + 1] /\ i + 1 \in 1..Len(inbox)
      /\ \A i \in 1..Len(inbox) :
           i # 1 => i - 1 \in 1..Len(inbox) - 1 /\ inbox'[i - 1] = inbox[i]
  BY TailOf
<1>2. 1 \in 1..Len(inbox) /\ \A i \in 1..Len(inbox) : i # 1 => 1 < i
  BY <1>1
<1>3. Promised' => Promised
  BY <1>1 DEF Promised
<1>4. ASSUME Head(inbox).to # "onDetach"
      PROVE  News' <=> News
  <2>1. ASSUME NEW i \in DOMAIN inbox, inbox[i].to = "onDetach"
        PROVE  News'
    <3>1. i # 1
      BY <1>1, <1>4, <2>1
    <3>2. i - 1 \in DOMAIN inbox' /\ inbox'[i - 1] = inbox[i]
      BY <1>1, <3>1
    <3>3. QED
      BY <2>1, <3>2 DEF News, NewsIn
  <2>2. ASSUME NEW i \in DOMAIN inbox', inbox'[i].to = "onDetach"
        PROVE  News
    <3>1. i + 1 \in DOMAIN inbox /\ inbox[i + 1] = inbox'[i]
      BY <1>1
    <3>2. QED
      BY <2>2, <3>1 DEF News, NewsIn
  <2>3. QED
    BY <2>1, <2>2 DEF News, NewsIn
<1>5. Head(inbox).to = "onDetach" /\ InTime => ~Promised
  BY <1>1, <1>2 DEF Promised, InTime
<1>6. QED
  BY <1>3, <1>4, <1>5

LEMMA AppendKeeps ==
  ASSUME inbox \in Seq(Msg), NEW m \in Msg, inbox' = Append(inbox, m), m.to # "command"
  PROVE  /\ Promised' => Promised
         /\ InTime => InTime'
         /\ m.to # "onDetach" => (News' <=> News)
         /\ m.to = "onDetach" => News'
<1>1. /\ DOMAIN inbox = 1..Len(inbox) /\ DOMAIN inbox' = 1..Len(inbox) + 1
      /\ Len(inbox) \in Nat /\ inbox'[Len(inbox) + 1] = m
      /\ Len(inbox) + 1 \in 1..Len(inbox) + 1
      /\ \A i \in 1..Len(inbox) : inbox'[i] = inbox[i] /\ i \in 1..Len(inbox) + 1
      /\ \A i \in 1..Len(inbox) + 1 : i \in 1..Len(inbox) \/ i = Len(inbox) + 1
  BY AppendOf
<1>2. Promised' => Promised
  BY <1>1 DEF Promised
<1>3. m.to # "onDetach" => (News' <=> News)
  BY <1>1 DEF News, NewsIn
<1>4. m.to = "onDetach" => News'
  BY <1>1 DEF News, NewsIn
<1>5. InTime => InTime'
  <2>1. ASSUME InTime, NEW i \in DOMAIN inbox', NEW j \in DOMAIN inbox',
               inbox'[i].to = "command", j < i
        PROVE  inbox'[j].to # "onDetach"
    <3>1. i \in DOMAIN inbox /\ j \in DOMAIN inbox
      BY <1>1, <2>1
    <3>2. QED
      BY <1>1, <2>1, <3>1 DEF InTime
  <2>2. QED
    BY <2>1 DEF InTime
<1>6. QED
  BY <1>2, <1>3, <1>4, <1>5

LEMMA UserDetachesOK ==
  ASSUME DebuggerInv, Tab!UserDetaches
  PROVE  DebuggerInv'
<1>1. /\ attached' = FALSE /\ domain' = FALSE /\ pageDomain' = FALSE
      /\ inbox' = Append(inbox, Tab!Detachment)
      /\ enabled' = enabled /\ users' = users /\ cdpEnabled' = cdpEnabled
      /\ debuggerAttached' = debuggerAttached /\ console' = console
      /\ run' = run /\ capture' = capture /\ left' = left
  BY DEF Tab!UserDetaches, Tab!stateVars, Tab!ghosts
<1>2. /\ RunsInv /\ MailInv
      /\ UsersOK(Command.kind, Command.step, enabled, users, capture)
      /\ DomainOK(Command.kind, Command.step, Handler.step, enabled, users, capture,
                  cdpEnabled, debuggerAttached, domain \/ News)
  BY AtStep
<1>3. inbox \in Seq(Msg) /\ Tab!Detachment \in Msg /\ Tab!Detachment.to = "onDetach"
  BY <1>2, RunTypes DEF Msg, Tab!Detachment
<1>4. MailNext
  BY <1>1, <1>2, <1>3, AppendOf, MailOfUser DEF MailNext, MailInv
<1>5. (Promised' => Promised) /\ (InTime => InTime') /\ News'
  BY <1>1, <1>3, AppendKeeps
<1>6. Command' = Command /\ Handler' = Handler /\ Handler \in HandlerStates
  BY <1>1, <1>2 DEF Command, Handler, HandlerStates, RunsInv
<1>7. DomainOK(Command.kind, Command.step, Handler'.step, enabled, users, capture',
               cdpEnabled', debuggerAttached', domain' \/ News')
  BY <1>1, <1>2, <1>5, <1>6 DEF DomainOK
<1>8. Command.step = "enable" /\ Promised' /\ ~Stale(Command.kind, enabled, capture') =>
        debuggerAttached' /\ Handler'.step # "detach" /\ (domain' \/ News') /\ InTime'
  BY <1>1, <1>5, <1>6 DEF DebuggerInv, DomainInv
<1>9. QED
  BY <1>1, <1>2, <1>4, <1>6, <1>7, <1>8, Beside, CommandIs

LEMMA OnDetachOK ==
  ASSUME DebuggerInv, Tab!OnDetach
  PROVE  DebuggerInv'
<1>1. /\ inbox # <<>> /\ Head(inbox).to = "onDetach" /\ inbox' = Tail(inbox)
      /\ attached' = attached /\ domain' = domain /\ pageDomain' = pageDomain
      /\ enabled' = enabled /\ users' = users /\ cdpEnabled' = FALSE
      /\ debuggerAttached' = FALSE /\ console' = console
      /\ run' = run /\ capture' = (IF capture = "on" THEN "off" ELSE capture)
      /\ left' = FALSE
  BY DEF Tab!OnDetach, Tab!Quiet
<1>2. /\ RunsInv /\ MailInv
      /\ UsersOK(Command.kind, Command.step, enabled, users, capture)
      /\ DomainOK(Command.kind, Command.step, Handler.step, enabled, users, capture,
                  cdpEnabled, debuggerAttached, domain \/ News)
  BY AtStep
<1>3. inbox \in Seq(Msg) /\ debuggerAttached \in BOOLEAN /\ attached \in BOOLEAN
  BY <1>2, RunTypes
<1>4. MailNext
  <2>1. Mail(Tail(inbox), run) /\ FlagOK(FALSE, attached, Tail(inbox), run)
    BY <1>1, <1>2, <1>3, MailOfDetachment DEF MailInv
  <2>2. Tail(inbox) \in Seq(Msg)
    BY <1>1, <1>3, TailOf
  <2>3. QED
    BY <1>1, <1>3, <2>1, <2>2 DEF MailNext, MailInv
<1>5. (Promised' => Promised) /\ (InTime => ~Promised)
  BY <1>1, <1>3, TailKeeps
<1>6. Command' = Command /\ Handler' = Handler /\ Handler \in HandlerStates
  BY <1>1, <1>2 DEF Command, Handler, HandlerStates, RunsInv
<1>7. capture \in {"off", "on", "lost"} /\ domain \in BOOLEAN /\ pageDomain \in BOOLEAN
      /\ run \in [Tab!Runs -> Job] /\ (domain => attached)
  BY <1>2, CommandIs
<1>8. capture' \in {"off", "lost"} /\ (capture' = "lost" <=> capture = "lost")
  BY <1>1, <1>7
<1>9. UsersOK(Command.kind, Command.step, enabled, users, capture')
  BY <1>2, <1>8 DEF UsersOK, Visits
<1>10. DomainOK(Command.kind, Command.step, Handler'.step, enabled, users, capture',
                cdpEnabled', debuggerAttached', domain' \/ News')
  BY <1>1, <1>8 DEF DomainOK
<1>11. ~(Command.step = "enable" /\ Promised' /\ ~Stale(Command.kind, enabled, capture'))
  BY <1>5, <1>8 DEF DebuggerInv, DomainInv, Stale
<1>12. QED
  BY <1>1, <1>4, <1>6, <1>7, <1>8, <1>9, <1>10, <1>11, Beside

-----------------------------------------------------------------------------
(* The handler of a closed dialog.                                         *)

\* What the invariant says, for the steps of the handler.
LEMMA AtHandler ==
  ASSUME DebuggerInv
  PROVE  /\ RunsInv /\ MailInv
         /\ UsersOK(Command.kind, Command.step, enabled, users, capture)
         /\ DomainOK(Command.kind, Command.step, Handler.step, enabled, users, capture,
                     cdpEnabled, debuggerAttached, domain \/ News)
         /\ Command.step = "enable" => Command.kind \in {"start", "restart", "goto", "data"}
         /\ Command.step = "enable" /\ Command.kind \in {"start", "restart"} => enabled
         /\ Command.step = "enable" /\ Promised /\ ~Stale(Command.kind, enabled, capture) =>
              debuggerAttached /\ Handler.step # "detach" /\ (domain \/ News) /\ InTime
         /\ users \in {0, 1, 2}
<1>1. Command.step = "enable" => Command.kind \in {"start", "restart", "goto", "data"}
  BY AtStep DEF StepsOf
<1>2. QED
  BY <1>1, AtStep DEF DebuggerInv, DomainInv, UsersOK

\* Where the network domain serves somebody, it has a user.
LEMMA Used ==
  ASSUME DebuggerInv, users = 0
  PROVE  /\ cdpEnabled /\ Command.step # "disable" => Stale(Command.kind, enabled, capture)
         /\ capture = "on" => Command.kind \in {"stop", "dataFailed"}
         /\ Command.step = "enable" => Stale(Command.kind, enabled, capture)
<1>1. cdpEnabled /\ Command.step # "disable" => Stale(Command.kind, enabled, capture)
  BY AtHandler DEF DomainOK
<1>2. capture = "on" => Command.kind \in {"stop", "dataFailed"}
  BY AtHandler DEF UsersOK
<1>3. Command.step = "enable" => Stale(Command.kind, enabled, capture)
  BY AtHandler DEF UsersOK, Visits, Stale
<1>4. QED
  BY <1>1, <1>2, <1>3

LEMMA HandlerBecame ==
  ASSUME RunsInv, NEW x \in HandlerStates, run' = [run EXCEPT !["handler"] = x]
  PROVE  Command' = Command /\ Handler' = x /\ run' \in [Tab!Runs -> Job]
<1>1. x \in Job
  BY DEF HandlerStates, Job, Tab!Idle, Tab!Kinds, Tab!Steps
<1>2. QED
  BY <1>1, CommandIs DEF Handler, Command, Tab!Runs

\* The handler goes on, or fails, and nothing else changes.
LEMMA HandlerRestsOK ==
  ASSUME DebuggerInv, NEW x \in HandlerStates, x.step \notin Waits,
         Handler.step \notin Waits, run' = [run EXCEPT !["handler"] = x],
         Tab!Quiet(inbox), UNCHANGED Tab!stateVars, capture' = capture,
         left' \in BOOLEAN,
         left' = left \/ ~debuggerAttached \/ users > 0 \/ console
  PROVE  DebuggerInv'
<1>1. /\ enabled' = enabled /\ users' = users /\ cdpEnabled' = cdpEnabled
      /\ debuggerAttached' = debuggerAttached /\ console' = console
      /\ inbox' = inbox /\ attached' = attached /\ domain' = domain
      /\ pageDomain' = pageDomain
  BY DEF Tab!stateVars, Tab!Quiet
<1>2. /\ RunsInv /\ MailInv
      /\ UsersOK(Command.kind, Command.step, enabled, users, capture)
      /\ DomainOK(Command.kind, Command.step, Handler.step, enabled, users, capture,
                  cdpEnabled, debuggerAttached, domain \/ News)
      /\ Command.step = "enable" /\ Promised /\ ~Stale(Command.kind, enabled, capture) =>
           debuggerAttached /\ Handler.step # "detach" /\ (domain \/ News) /\ InTime
  BY AtHandler
<1>3. Command' = Command /\ Handler' = x /\ run' \in [Tab!Runs -> Job]
  BY <1>2, HandlerBecame
<1>4. MailNext
  <2>1. Ready("handler", inbox, debuggerAttached')
    BY <1>1, <1>2, CommandIs, ReadyAtRest DEF Handler
  <2>2. QED
    BY <2>1, MailQuiet
<1>5. (News' <=> News) /\ (Promised' <=> Promised) /\ (InTime' <=> InTime)
  BY <1>1 DEF News, NewsIn, Promised, InTime
<1>6. x.step # "detach"
  BY DEF Waits
<1>7. DomainOK(Command.kind, Command.step, Handler'.step, enabled, users, capture',
               cdpEnabled', debuggerAttached', domain' \/ News')
  BY <1>1, <1>2, <1>3, <1>5, <1>6 DEF DomainOK
<1>8. Command.step = "enable" /\ Promised' /\ ~Stale(Command.kind, enabled, capture') =>
        debuggerAttached' /\ Handler'.step # "detach" /\ (domain' \/ News') /\ InTime'
  BY <1>1, <1>2, <1>3, <1>5, <1>6
<1>9. debuggerAttached' /\ attached' /\ ~LetsGoLater(Command.kind) =>
        enabled \/ console \/ left'
  <2>1. users > 0 => enabled \/ Visits(Command.kind, Command.step)
    BY <1>2 DEF UsersOK
  <2>2. Visits(Command.kind, Command.step) => LetsGoLater(Command.kind)
    BY DEF Visits, LetsGoLater
  <2>3. debuggerAttached /\ attached /\ ~LetsGoLater(Command.kind) =>
          enabled \/ console \/ left
    BY DEF DebuggerInv, HeldInv
  <2>4. QED
    BY <1>1, <2>1, <2>2, <2>3
<1>10. QED
  BY <1>1, <1>2, <1>3, <1>4, <1>7, <1>8, <1>9, Beside, CommandIs

LEMMA DialogClosesOK ==
  ASSUME DebuggerInv, Tab!DialogCloses
  PROVE  DebuggerInv'
<1> DEFINE x == [kind |-> "closed", step |-> "post"]
<1>1. /\ Handler = Tab!Idle /\ run' = [run EXCEPT !["handler"] = x]
      /\ Tab!Quiet(inbox) /\ UNCHANGED Tab!stateVars /\ capture' = capture /\ left' = left
  BY DEF Tab!DialogCloses, Tab!Wait, Tab!Quiet, Tab!chromeVars, Tab!ghosts, Handler
<1>2. x \in HandlerStates /\ x.step \notin Waits
  BY DEF HandlerStates, Waits
<1>3. Handler.step \notin Waits
  BY <1>1 DEF Tab!Idle, Waits
<1>4. left \in BOOLEAN
  BY AtHandler, CommandIs
<1>. HIDE DEF x
<1>5. QED
  BY <1>1, <1>2, <1>3, <1>4, HandlerRestsOK

LEMMA ClosedPostedOK ==
  ASSUME DebuggerInv, Tab!ClosedPosted
  PROVE  DebuggerInv'
<1>1. /\ Handler = [kind |-> "closed", step |-> "post"]
      /\ \/ Tab!DetachIfIdle("handler", "closed", users, console, inbox)
         \/ Tab!Fail("handler", inbox)
      /\ UNCHANGED Tab!stateVars
  BY DEF Tab!ClosedPosted, Handler
<1>2. Handler.step \notin Waits /\ Handler.kind = "closed"
  BY <1>1 DEF Waits
<1>3. Tab!Idle \in HandlerStates /\ Tab!Idle.step \notin Waits
  BY DEF HandlerStates, Tab!Idle, Waits
<1>4. /\ RunsInv /\ MailInv /\ users \in {0, 1, 2}
      /\ UsersOK(Command.kind, Command.step, enabled, users, capture)
      /\ DomainOK(Command.kind, Command.step, Handler.step, enabled, users, capture,
                  cdpEnabled, debuggerAttached, domain \/ News)
  BY AtHandler
<1>5. left \in BOOLEAN /\ debuggerAttached \in BOOLEAN /\ capture \in {"off", "on", "lost"}
      /\ attached \in BOOLEAN /\ inbox \in Seq(Msg) /\ cdpEnabled \in BOOLEAN
  BY <1>4, CommandIs
<1>6. CASE Tab!Fail("handler", inbox)
  <2>1. /\ Tab!Quiet(inbox) /\ run' = [run EXCEPT !["handler"] = Tab!Idle]
        /\ left' = left
    BY <1>2, <1>5, <1>6 DEF Tab!Fail, Tab!KeepsFailed, Handler
  <2>2. capture' = capture
    BY <1>2, <1>6 DEF Tab!Fail, Handler
  <2>3. QED
    BY <1>1, <1>2, <1>3, <1>5, <2>1, <2>2, HandlerRestsOK
<1>7. CASE /\ Tab!DetachIfIdle("handler", "closed", users, console, inbox)
           /\ ~debuggerAttached \/ users > 0 \/ console
  <2>1. Tab!End("handler", "closed", inbox)
    BY <1>7 DEF Tab!DetachIfIdle
  <2>2. /\ Tab!Quiet(inbox) /\ run' = [run EXCEPT !["handler"] = Tab!Idle]
        /\ capture' = capture /\ left' = FALSE
    BY <2>1 DEF Tab!End, Tab!Keeps, Tab!Lets, Tab!Behind
  <2>3. QED
    BY <1>1, <1>2, <1>3, <1>7, <2>2, HandlerRestsOK
<1>8. CASE /\ Tab!DetachIfIdle("handler", "closed", users, console, inbox)
           /\ ~(~debuggerAttached \/ users > 0 \/ console)
  <2> DEFINE x == [kind |-> "closed", step |-> "detach"]
             m == [to |-> "handler", ok |-> attached]
  <2>1. Tab!Ask("handler", "closed", "detach", inbox) /\ capture' = capture /\ left' = left
    BY <1>8 DEF Tab!DetachIfIdle, Tab!ghosts
  <2>2. /\ run' = [run EXCEPT !["handler"] = x] /\ inbox' = Append(inbox, m)
        /\ attached' = FALSE /\ domain' = FALSE /\ pageDomain' = FALSE
    <3>1. Tab!Outcomes("detach") = {attached}
      BY DEF Tab!Outcomes
    <3> DEFINE what == "detach"
    <3>2. PICK ok \in Tab!Outcomes(what) :
            /\ run' = [run EXCEPT !["handler"] = [kind |-> "closed", step |-> what]]
            /\ inbox' = Append(inbox, [to |-> "handler", ok |-> ok])
            /\ attached' = CASE what = "attach" -> attached \/ ok
                             [] what = "detach" -> FALSE
                             [] OTHER -> attached
            /\ domain' = CASE what = "enable" -> domain \/ ok
                           [] what = "disable" -> domain /\ ~ok
                           [] what = "detach" -> FALSE
                           [] OTHER -> domain
            /\ pageDomain' = CASE what = "detach" -> FALSE
                               [] Tab!EnablesPage("closed", what) -> pageDomain \/ ok
                               [] OTHER -> pageDomain
      <4>. HIDE DEF what
      <4>1. Tab!Ask("handler", "closed", what, inbox)
        BY <2>1 DEF what
      <4>2. QED
        BY <4>1 DEF Tab!Ask, Tab!Wait
    <3>3. attached' = FALSE /\ domain' = FALSE /\ pageDomain' = FALSE
      BY <3>2 DEF Tab!EnablesPage
    <3>4. QED
      BY <3>1, <3>2, <3>3
  <2>3. /\ enabled' = enabled /\ users' = users /\ cdpEnabled' = cdpEnabled
        /\ debuggerAttached' = debuggerAttached /\ console' = console
    BY <1>1 DEF Tab!stateVars
  <2>4. x \in HandlerStates /\ m \in Msg /\ m.to = "handler"
    BY <1>5 DEF HandlerStates, Msg, Tab!Runs
  <2>. HIDE DEF x, m
  <2>5. Command' = Command /\ Handler' = x /\ run' \in [Tab!Runs -> Job]
    BY <1>4, <2>2, <2>4, HandlerBecame
  <2>6. MailNext
    <3>1. Ready("handler", inbox, debuggerAttached')
      BY <1>2, <1>4, <2>3, CommandIs, ReadyAtRest DEF Handler
    <3>2. QED
      BY <2>1, <3>1, MailAsks DEF Waits
  <2>7. (Promised' => Promised) /\ (News' <=> News)
    BY <1>5, <2>2, <2>4, AppendKeeps
  <2>8. users = 0
    BY <1>4, <1>8
  <2>9. DomainOK(Command.kind, Command.step, Handler'.step, enabled, users, capture',
                 cdpEnabled', debuggerAttached', domain' \/ News')
    BY <1>4, <2>1, <2>3, <2>8, Used DEF DomainOK
  <2>10. ~(Command.step = "enable" /\ ~Stale(Command.kind, enabled, capture'))
    BY <2>1, <2>8, Used
  <2>11. QED
    BY <1>4, <1>5, <2>1, <2>2, <2>3, <2>4, <2>5, <2>6, <2>9, <2>10, Beside
<1>9. QED
  BY <1>1, <1>6, <1>7, <1>8

LEMMA HandlerDetachedOK ==
  ASSUME DebuggerInv, Tab!DetachAnswered("handler")
  PROVE  DebuggerInv'
<1>1. /\ Tab!Answer("handler", "detach") /\ Handler.step = "detach"
      /\ debuggerAttached' = FALSE
      /\ Tab!End("handler", Handler.kind, Tab!Rest)
      /\ enabled' = enabled /\ users' = users /\ cdpEnabled' = cdpEnabled /\ console' = console
  BY DEF Tab!DetachAnswered, Tab!Answer, Handler
<1>2. /\ RunsInv /\ MailInv
      /\ UsersOK(Command.kind, Command.step, enabled, users, capture)
      /\ DomainOK(Command.kind, Command.step, Handler.step, enabled, users, capture,
                  cdpEnabled, debuggerAttached, domain \/ News)
      /\ Command.step = "enable" /\ Promised /\ ~Stale(Command.kind, enabled, capture) =>
           debuggerAttached /\ Handler.step # "detach" /\ (domain \/ News) /\ InTime
  BY AtHandler
<1>3. Handler.kind = "closed"
  BY <1>1, <1>2 DEF RunsInv, Tab!Idle
<1>4. /\ inbox' = Tail(inbox) /\ attached' = attached /\ domain' = domain
      /\ pageDomain' = pageDomain
      /\ run' = [run EXCEPT !["handler"] = Tab!Idle] /\ capture' = capture /\ left' = FALSE
  BY <1>1, <1>3 DEF Tab!End, Tab!Quiet, Tab!Rest, Tab!Keeps, Tab!Lets, Tab!Behind
<1>5. /\ inbox \in Seq(Msg) /\ domain \in BOOLEAN /\ pageDomain \in BOOLEAN
      /\ (domain => attached) /\ capture \in {"off", "on", "lost"} /\ cdpEnabled \in BOOLEAN
  BY <1>2, CommandIs
<1>6. inbox # <<>> /\ Head(inbox).to = "handler"
  BY <1>1, <1>5 DEF Tab!Answer
<1>7. (Promised' => Promised) /\ (News' <=> News)
  BY <1>4, <1>5, <1>6, TailKeeps
<1>8. MailNext
  <2>1. Ready("handler", Tab!Rest, FlagAfter(debuggerAttached, "detach", Tab!Ok))
    BY <1>1, <1>2, CommandIs, ReadyOnAnswer DEF Waits
  <2>2. FlagAfter(debuggerAttached, "detach", Tab!Ok) = debuggerAttached'
    BY <1>1 DEF FlagAfter
  <2>3. QED
    BY <1>1, <2>1, <2>2, MailEnds
<1>9. Tab!Idle \in HandlerStates /\ Tab!Idle.step = "none"
  BY DEF HandlerStates, Tab!Idle
<1>10. Command' = Command /\ Handler' = Tab!Idle /\ run' \in [Tab!Runs -> Job]
  BY <1>2, <1>4, <1>9, HandlerBecame
<1>11. DomainOK(Command.kind, Command.step, Handler'.step, enabled, users, capture',
                cdpEnabled', debuggerAttached', domain' \/ News')
  BY <1>1, <1>2, <1>4, <1>7 DEF DomainOK
<1>12. ~(Command.step = "enable" /\ Promised' /\ ~Stale(Command.kind, enabled, capture'))
  BY <1>1, <1>2, <1>4, <1>7
<1>13. QED
  BY <1>1, <1>2, <1>4, <1>5, <1>8, <1>9, <1>10, <1>11, <1>12, Beside

-----------------------------------------------------------------------------
(* The invariant of the debugger holds.                                    *)

LEMMA DebuggerInit == Tab!Init => DebuggerInv
<1> SUFFICES ASSUME Tab!Init
             PROVE  DebuggerInv
  OBVIOUS
<1>1. /\ enabled = FALSE /\ users = 0
      /\ cdpEnabled = FALSE /\ debuggerAttached = FALSE /\ console = FALSE
      /\ attached = FALSE /\ domain = FALSE /\ pageDomain = FALSE
      /\ inbox = <<>> /\ capture = "off" /\ left = FALSE
      /\ run = [r \in Tab!Runs |-> Tab!Idle]
  BY DEF Tab!Init
<1>2. /\ \A r \in Tab!Runs : run[r] = Tab!Idle
      /\ Command = Tab!Idle /\ Handler = Tab!Idle
  BY <1>1 DEF Command, Handler, Tab!Runs
<1>3. Tab!Idle.kind = "none" /\ Tab!Idle.step = "none" /\ Tab!Idle \in Job
  BY DEF Tab!Idle, Job, Tab!Kinds, Tab!Steps
<1>4. inbox \in Seq(Msg) /\ \A i \in DOMAIN inbox : FALSE
  BY <1>1
<1>5. Tab!TypeOK
  <2>1. run \in [Tab!Runs -> Job]
    BY <1>1, <1>3
  <2>2. QED
    BY <1>1, <1>4, <2>1 DEF Tab!TypeOK, Job, Msg
<1>6. RunsInv
  BY <1>1, <1>2, <1>3, <1>5 DEF RunsInv, StepsOf
<1>7. MailInv
  BY <1>1, <1>2, <1>3, <1>4 DEF MailInv, Mail, FlagOK, Waits, Command
<1>8. UsersInv
  BY <1>1, <1>2, <1>3 DEF UsersInv, UsersOK, Visits
<1>9. HeldInv /\ DomainInv
  BY <1>1, <1>2, <1>3 DEF HeldInv, DomainInv, DomainOK
<1>10. QED
  BY <1>6, <1>7, <1>8, <1>9 DEF DebuggerInv

LEMMA AnswersOK ==
  ASSUME DebuggerInv, Tab!Answers
  PROVE  DebuggerInv'
<1>1. PICK r \in Tab!Runs :
        \/ Tab!AttachAnswered(r) \/ Tab!EnableAnswered(r) \/ Tab!DisableAnswered(r)
        \/ Tab!DetachAnswered(r) \/ Tab!SendAnswered(r)
  BY DEF Tab!Answers
<1>2. CASE r = "command"
  BY <1>1, <1>2, AttachAnsweredOK, EnableAnsweredOK, DisableAnsweredOK, DetachAnsweredOK,
     SendAnsweredOK
<1>3. CASE r = "handler"
  <2>1. run["handler"].step \in {"none", "post", "detach"}
    BY AtHandler, RunTypes DEF Handler
  <2>2. Tab!DetachAnswered("handler")
    BY <1>1, <1>3, <2>1 DEF Tab!AttachAnswered, Tab!EnableAnswered, Tab!DisableAnswered,
                            Tab!SendAnswered, Tab!Answer
  <2>3. QED
    BY <2>2, HandlerDetachedOK
<1>4. QED
  BY <1>1, <1>2, <1>3 DEF Tab!Runs

LEMMA DebuggerStep ==
  ASSUME DebuggerInv, [Tab!Next]_Tab!vars
  PROVE  DebuggerInv'
<1>1. CASE UNCHANGED Tab!vars
  BY <1>1 DEF Tab!vars, Tab!stateVars, Tab!chromeVars, Tab!ghosts, DebuggerInv, RunsInv,
              Tab!TypeOK, MailInv, UsersInv, HeldInv, DomainInv, Command, Handler, News,
              Promised, InTime
<1>2. CASE \E clear \in BOOLEAN : Tab!Start(clear)
  BY <1>2, StartOK
<1>3. CASE \E ok \in BOOLEAN : Tab!StartPosted(ok)
  BY <1>3, StartPostedOK
<1>4. CASE Tab!Stop
  BY <1>4, StopOK
<1>5. CASE Tab!Answers
  BY <1>5, AnswersOK
<1>6. CASE Tab!Others
  <2>1. CASE Tab!Goto("goto") \/ Tab!Goto("data")
    BY <2>1, GotoOK
  <2>2. CASE BeginOthers
    BY <2>2, OthersOK
  <2>3. CASE \/ Tab!DialogCloses \/ Tab!PageEnds \/ Tab!ConsolePosted \/ Tab!ClosedPosted
             \/ Tab!DialogWaited \/ Tab!DialogHandled
    BY <2>3, DialogClosesOK, PageEndsOK, ConsolePostedOK, ClosedPostedOK, DialogOK
  <2>4. CASE Tab!UserDetaches \/ Tab!OnDetach
    BY <2>4, UserDetachesOK, OnDetachOK
  <2>5. QED
    BY <1>6, <2>1, <2>2, <2>3, <2>4 DEF Tab!Others, BeginOthers
<1>7. QED
  BY <1>1, <1>2, <1>3, <1>4, <1>5, <1>6 DEF Tab!Next

\* A step of the tab is one of the debugger, or leaves it alone.
LEMMA TabStepsDebugger ==
  ASSUME [TabNext]_<<vars, tabVars>>
  PROVE  [Tab!Next]_Tab!vars
<1>1. UNCHANGED tabVars => UNCHANGED Tab!vars
  BY DEF tabVars, Tab!vars, Tab!stateVars, Tab!chromeVars, Tab!ghosts
<1>2. CASE UNCHANGED <<vars, tabVars>>
  BY <1>1, <1>2
<1>3. CASE Observe \/ Posting \/ Relayed
  BY <1>1, <1>3 DEF Observe, Posting, Relayed
<1>4. CASE Clear \/ Cleared \/ NotCleared
  BY <1>4 DEF Clear, Cleared, NotCleared, Tab!Next
<1>5. CASE TabStep
  BY <1>5 DEF TabStep, Tab!Next
<1>6. QED
  BY <1>2, <1>3, <1>4, <1>5 DEF TabNext

\* The invariant of the debugger holds in every state of a tab: Chrome's answers make
\* the flag right, every user of the network domain is a capture or a navigation, and
\* what holds the debugger is wanted (attachDebugger, acquireNetworkTracking,
\* releaseNetworkTracking, detachDebuggerIfIdle, onDetach).
THEOREM DebuggerSound == TabSpec => []DebuggerInv
<1>1. TabInit => DebuggerInv
  BY DebuggerInit DEF TabInit
<1>2. DebuggerInv /\ [TabNext]_<<vars, tabVars>> => DebuggerInv'
  BY TabStepsDebugger, DebuggerStep
<1>3. QED
  BY <1>1, <1>2, PTL DEF TabSpec

\* Once nothing is under way, the count of users, the worker's flag and Chrome agree,
\* and the debugger is attached only for a capture, the console, or where a command for a
\* dialog or a failed navigation has left it so: acquireNetworkTracking and
\* releaseNetworkTracking, detachDebuggerIfIdle, onDetach.
THEOREM DebuggerIsSettled == TabSpec => []DebuggerSettles
<1>1. ASSUME DebuggerInv
      PROVE  DebuggerSettles
  <2>1. SUFFICES ASSUME Tab!Resting
                 PROVE  /\ users <= IF enabled THEN 1 ELSE 0
                        /\ debuggerAttached = attached
                        /\ ~enabled /\ ~console /\ ~left => ~attached
    BY DEF DebuggerSettles, Tab!UsersBalanced, Tab!FlagIsTrue, Tab!NothingLeftAttached
  <2>2. Command.kind = "none" /\ Command.step = "none"
    BY <2>1 DEF Tab!Resting, Tab!Runs, Tab!Idle, Command
  <2>3. UsersOK("none", "none", enabled, users, capture) /\ RunsInv /\ MailInv
    BY <1>1, <2>2, AtStep
  <2>4. users <= IF enabled THEN 1 ELSE 0
    BY <2>3 DEF UsersOK, Visits
  <2>5. debuggerAttached = attached
    <3>1. debuggerAttached \in BOOLEAN /\ attached \in BOOLEAN
      BY <2>3, RunTypes
    <3>2. \A i \in DOMAIN inbox : FALSE
      BY <2>1 DEF Tab!Resting
    <3>3. attached <=> debuggerAttached
      BY <2>3, <3>2 DEF MailInv, FlagOK
    <3>4. QED
      BY <3>1, <3>3
  <2>6. ~LetsGoLater("none")
    BY DEF LetsGoLater
  <2>7. ~enabled /\ ~console /\ ~left => ~attached
    BY <1>1, <2>2, <2>5, <2>6 DEF DebuggerInv, HeldInv
  <2>8. QED
    BY <2>4, <2>5, <2>7
<1>2. QED
  BY <1>1, DebuggerSound, PTL

\* A start of a capture that has succeeded is served: the network domain is enabled
\* and has a user, until a stop, or until Chrome's user detaches the debugger
\* (startNetworkCapture, ensureNetworkDomainEnabled, releaseNetworkTracking).
THEOREM CapturesAreServed == TabSpec => []CaptureIsServed
<1>1. ASSUME DebuggerInv
      PROVE  CaptureIsServed
  <2>1. SUFFICES ASSUME Tab!Resting, capture = "on"
                 PROVE  users > 0 /\ domain
    BY DEF CaptureIsServed, Tab!CaptureIsServed
  <2>2. Command.kind = "none" /\ Command.step = "none"
    BY <2>1 DEF Tab!Resting, Tab!Runs, Tab!Idle, Command
  <2>3. /\ UsersOK("none", "none", enabled, users, capture)
        /\ DomainOK("none", "none", Handler.step, enabled, users, capture, cdpEnabled,
                    debuggerAttached, domain \/ News)
    BY <1>1, <2>2, AtStep
  <2>4. users > 0
    BY <2>1, <2>3 DEF UsersOK, Visits
  <2>5. ~News
    BY <2>1 DEF Tab!Resting, News, NewsIn
  <2>6. domain
    BY <2>1, <2>3, <2>5 DEF DomainOK
  <2>7. QED
    BY <2>4, <2>6
<1>2. QED
  BY <1>1, DebuggerSound, PTL
==============================================================================
