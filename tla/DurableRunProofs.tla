--------------------------- MODULE DurableRunProofs ---------------------------
(***************************************************************************)
(* The safety of durable runs, for every set of runs and of calls.         *)
(*                                                                         *)
(* OneHandler needs to know where executions come from: as long as none of *)
(* a run has been aborted, an execution under way is the one registered    *)
(* for its run (Registered); and one that starts the handler afresh does   *)
(* so for the first time, because every write of a record takes it out of  *)
(* "pending" and its own write comes before the handler (Afresh).  That    *)
(* handlers of two runs exclude each other is the lease's doing alone      *)
(* (Leased).  SettledStays follows from what the restart leaves: as long   *)
(* as no user's call has been let in for a run, it is not settled when the *)
(* sweep comes to it, and the sweep's call has it to itself (Swept).       *)
(***************************************************************************)
EXTENDS DurableRun, TLAPS, FiniteSetTheorems

\* What a call is at its labels, apart from its types.
CallInv == \A c \in Calls :
  /\ call[c].at \in {"open", "begin", "acquire", "handler", "note", "close", "finish"}
       => call[c].mode # "cancel"
  /\ call[c].at \in {"note", "close", "finish", "end"} => call[c].out # "none"
  /\ call[c].at = "idle" => call[c] = NewCall
  /\ call[c].at \notin Updates => call[c].base = None
  /\ call[c].at = "cleaning" => call[c].mode = "cancel"

\* The record has been written since it was inserted.
Left(r) == run[r].status \notin {"absent", "pending"}
LeftInv ==
  /\ \A c \in Calls :
       /\ call[c].at \in {"acquire", "handler", "note", "save", "clean", "cleaning"}
            => Left(Target[c])
       /\ call[c].at = "save" /\ call[c].base # None =>
            call[c].base.status \notin {"absent", "pending"}
  /\ \A r \in Runs : started[r] > 0 => Left(r)

Registered == \A r \in Runs : Calm(r) =>
  \A c \in Calls : Executes(c) /\ Target[c] = r => control[r] = c

Afresh == \A r \in Runs : Calm(r) =>
  /\ started[r] <= 1
  /\ \A c \in Calls : Target[c] = r /\ call[c].mode = "start"
                      /\ call[c].at \in {"open", "begin", "acquire"} => started[r] = 0

Leased == \A c \in Calls : InHandler(c) /\ Target[c] \in Keyed => holder[Key] = Target[c]

Inv == TypeOK /\ CallInv /\ LeftInv /\ Registered /\ Afresh /\ Leased

\* Before the crash the sweep's calls are idle.  After it, as long as no call of a
\* user has been let in for a run, the run is on the list and not settled, or a call
\* of the sweep has it to itself until it settles it.
Under(c) == call[c].at \notin {"idle", "over", "refused", "lost"}
\* The call's run is not settled, and was not when the call read it.
Unsettled(c) ==
  /\ run[Target[c]].status \in Recoverable
  /\ call[c].base # None => call[c].base.status \in Recoverable
Swept ==
  /\ sweep = None => \A c \in Sweeps : At(c, "idle")
  /\ sweep # None =>
       /\ \A r \in sweep : LetIn(r) \/ run[r].status \in Recoverable
       /\ \A c \in Sweeps : ~At(c, "idle") => Target[c] \notin sweep
       /\ \A c, d \in Sweeps : Target[c] = Target[d] /\ ~At(c, "idle") /\ ~At(d, "idle") => c = d
       /\ \A c \in Sweeps : Under(c) => LetIn(Target[c]) \/ Unsettled(c)
-----------------------------------------------------------------------------
(* Types.                                                                  *)

USE DEF At, Goto, Is, Rec, memory, lease

\* A step of a call changes that call's record alone.
OneCall(c) == call' = [call EXCEPT ![c] = call'[c]] /\ call'[c] \in CallRecords

LEMMA InitInv == Init => Inv /\ Swept
<1> SUFFICES ASSUME Init PROVE Inv /\ Swept
  OBVIOUS
<1> USE RunAssumption DEF Init, NewCall
<1>0. call \in [Calls -> CallRecords]
  BY DEF CallRecords
<1>1. TypeOK
  BY <1>0 DEF TypeOK, Records, Absent, Lease!LeaseInit
<1>2. CallInv /\ LeftInv
  BY DEF CallInv, LeftInv
<1>3. Registered /\ Afresh /\ Leased
  BY DEF Registered, Afresh, Leased, Executes, InHandler
<1>4. Swept
  BY DEF Swept
<1> QED
  BY <1>1, <1>2, <1>3, <1>4 DEF Inv

LEMMA CallTypes ==
  ASSUME TypeOK, CallInv, NEW c \in Calls,
         Start(c) \/ Recover(c) \/ Cancel(c) \/ Progress(c) \/ Note(c)
  PROVE  OneCall(c)
<1> USE DEF TypeOK, OneCall
<1>r. /\ Target[c] \in Runs /\ Rec(c) \in Records /\ Rec(c).seq \in Nat
      /\ control[Target[c]] \in Calls \cup {None}
  BY RunAssumption DEF Records
<1>c. call[c] \in CallRecords
  OBVIOUS
<1>n. \A l \in {"over", "refused"} : [NewCall EXCEPT !.at = l] \in CallRecords
  BY DEF NewCall, CallRecords
<1>g. \A l \in Updates \cup {"open", "pause", "clean", "acquire", "handler",
                      "cleaning", "note", "close", "finish", "over", "refused"} :
        Goto(c, l) => OneCall(c)
  BY <1>c, <1>n DEF CallRecords, Ends, Updates
<1>i. \A k \in CallRecords : Is(c, k) => OneCall(c)
  OBVIOUS
<1>1. CASE Start(c) \/ Recover(c) \/ Cancel(c)
  <2>1. \A m \in {"start", "resume", "reconcile"} : Execute(c, m) => OneCall(c)
    BY <1>c, <1>g DEF Execute, CallRecords
  <2>2. CASE Start(c)
    BY <2>1, <2>2 DEF Start
  <2>3. CASE Recover(c)
    BY <1>g, <2>1, <2>3 DEF Recover, RecoverWith, Updates
  <2>4. CASE Cancel(c)
    <3>1. \/ Goto(c, "refused")
          \/ \E e \in Calls \cup {None} :
               Is(c, [call[c] EXCEPT !.at = "ask", !.seen = e])
      BY <1>r, <2>4 DEF Cancel
    <3>2. \A e \in Calls \cup {None} :
            [call[c] EXCEPT !.at = "ask", !.seen = e] \in CallRecords
      BY <1>c DEF CallRecords, Updates
    <3> QED
      BY <1>g, <1>i, <3>1, <3>2
  <2> QED
    BY <1>1, <2>2, <2>3, <2>4
<1>2. CASE Open(c) \/ Pause(c) \/ Close(c) \/ Cleaned(c)
  BY <1>2, <1>g DEF Open, Pause, Close, Cleaned, Timeline, Updates
<1>3. CASE Clean(c) \/ Return(c) \/ Finish(c)
  <2>1. /\ [call[c] EXCEPT !.at = "cleaning", !.mode = "cancel"] \in CallRecords
        /\ \A out \in Terminal, next \in {"close", "note"} :
             [call[c] EXCEPT !.at = next, !.out = out, !.mode = "none"] \in CallRecords
        /\ \A out \in Terminal \cup {"none"} :
             [call[c] EXCEPT !.at = "end", !.out = out] \in CallRecords
    BY <1>c DEF CallRecords, Updates
  <2>2. call[c].out \in Terminal \cup {"none"} /\ "cancelled" \in Terminal
    BY <1>c DEF CallRecords, Terminal
  <2>3. CASE Clean(c)
    BY <1>i, <2>1, <2>3 DEF Clean
  <2>4. CASE Return(c)
    BY <1>i, <2>1, <2>4 DEF Return
  <2>5. CASE Finish(c)
    <3>1. \E out \in Terminal \cup {"none"} : Is(c, [call[c] EXCEPT !.at = "end", !.out = out])
      BY <2>2, <2>5 DEF Finish
    <3> QED
      BY <1>i, <2>1, <3>1
  <2> QED
    BY <1>3, <2>3, <2>4, <2>5
<1>4. CASE ReadRecord(c) \/ Note(c)
  BY <1>4, <1>c, <1>r DEF ReadRecord, Note, CallRecords, Updates
<1>5. CASE Begun(c) \/ Saved(c) \/ Updated(c) \/ Asked(c)
  <2>1. \A l \in {"acquire", "cleaning", "handler", "close", "clean", "over", "cancel"} :
          Write(c, l) => OneCall(c)
    <3>1. \A l \in {"acquire", "cleaning", "handler", "close", "clean", "cancel"} :
            [call[c] EXCEPT !.at = l, !.base = None, !.seq = 0] \in CallRecords
      BY <1>c DEF CallRecords, Updates
    <3> QED
      BY <1>n, <1>i, <3>1 DEF Write
  <2> QED
    BY <1>5, <2>1 DEF Begun, Saved, Updated, Asked
<1>6. CASE Enter(c) \/ Wait(c) \/ GiveUp(c)
  BY <1>6, <1>c, <1>g DEF Enter, EnterHandler, Wait, GiveUp, CallRecords, Terminal
<1> QED
  BY <1>1, <1>2, <1>3, <1>4, <1>5, <1>6 DEF Progress

\* What a step does to the records: it inserts one, or writes one that was read.
Inserts(c) == Start(c) /\ run' = [run EXCEPT ![Target[c]] = NewRun]
Writes(c) ==
  /\ Begun(c) \/ Saved(c) \/ Updated(c) \/ Asked(c)
  /\ call[c].base # None
  /\ run' = [run EXCEPT ![Target[c]] = Changed(c, call[c].base)]
  /\ call'[c].base = None

Works(c) == Start(c) \/ Recover(c) \/ Cancel(c) \/ Progress(c) \/ Note(c)

LEMMA RunEffect ==
  ASSUME TypeOK, NEW c \in Calls, Works(c)
  PROVE  run' = run \/ Inserts(c) \/ Writes(c)
<1>1. CASE Begun(c) \/ Saved(c) \/ Updated(c) \/ Asked(c)
  <2>1. \E next : Write(c, next)
    BY <1>1 DEF Begun, Saved, Updated, Asked
  <2>2. call'[c].base = None
    BY <2>1 DEF Write, TypeOK, CallRecords, NewCall
  <2> QED
    BY <1>1, <2>1, <2>2 DEF Writes, Write
<1>2. CASE ~(Begun(c) \/ Saved(c) \/ Updated(c) \/ Asked(c))
  BY <1>2 DEF Works, Inserts, Start, Recover, Cancel, Progress, Open, Pause, Clean,
              Timeline, ReadRecord, Enter, EnterHandler, Wait, GiveUp, Return, Cleaned,
              Note, Close, Finish
<1> QED
  BY <1>1, <1>2

LEMMA WriteLeaves ==
  ASSUME TypeOK, CallInv, LeftInv, NEW c \in Calls, Writes(c)
  PROVE  /\ run'[Target[c]] \in Records /\ Left(Target[c])'
         /\ \A r \in Runs \ {Target[c]} : run'[r] = run[r]
<1>1. Target[c] \in Runs /\ call[c] \in CallRecords
  BY RunAssumption DEF TypeOK
<1>2. call[c].base \in Records /\ call[c].seq \in Nat /\ call[c].out \in Terminal \cup {"none"}
  BY <1>1 DEF Writes, CallRecords
<1>3. call[c].at \in {"begin", "save", "end", "ask", "review", "mismatch", "cancel"}
  BY DEF Writes, Begun, Saved, Updated, Asked
<1>4. run'[Target[c]] = Changed(c, call[c].base)
  BY <1>1 DEF Writes, TypeOK
<1>5. Changed(c, call[c].base) \in Records
      /\ Changed(c, call[c].base).status \notin {"absent", "pending"}
  <2>1. CASE call[c].at = "begin"
    BY <1>2, <2>1 DEF Changed, BegunStatus, Records, Recoverable
  <2>2. CASE call[c].at = "save"
    BY <1>2, <2>2 DEF Changed, Records, LeftInv, Writes
  <2>3. CASE call[c].at = "end"
    <3>1. call[c].out \in Terminal
      BY <1>2, <2>3 DEF CallInv
    <3> QED
      BY <1>2, <2>3, <3>1 DEF Changed, Records, Terminal
  <2>4. CASE call[c].at \in {"ask", "review", "mismatch", "cancel"}
    BY <1>2, <2>4 DEF Changed, Records, Terminal, Recoverable, Paused
  <2> QED
    BY <1>3, <2>1, <2>2, <2>3, <2>4
<1> QED
  BY <1>1, <1>4, <1>5 DEF Left, Writes, TypeOK

\* What it does to the manager's memory.
LEMMA MemoryEffect ==
  ASSUME NEW c \in Calls, Works(c)
  PROVE  /\ control' \in {control, [control EXCEPT ![Target[c]] = c],
                          [control EXCEPT ![Target[c]] = None]}
         /\ aborted' \in {aborted, aborted \cup ({call[c].seen} \ {None})}
         /\ started' \in {started, [started EXCEPT ![Target[c]] = @ + 1]}
<1>1. CASE Start(c) \/ Recover(c) \/ Cancel(c)
  BY <1>1 DEF Start, Execute, Recover, RecoverWith, Cancel
<1>2. CASE Open(c) \/ Pause(c) \/ Clean(c) \/ ReadRecord(c) \/ Cleaned(c) \/ Note(c) \/ Close(c)
  BY <1>2 DEF Open, Pause, Clean, Timeline, ReadRecord, Cleaned, Note, Close
<1>3. CASE Begun(c) \/ Saved(c) \/ Updated(c) \/ Asked(c)
  BY <1>3 DEF Begun, Saved, Updated, Asked, Write
<1>4. CASE Enter(c) \/ Wait(c) \/ GiveUp(c) \/ Return(c) \/ Finish(c)
  BY <1>4 DEF Enter, EnterHandler, Wait, GiveUp, Return, Finish
<1> QED
  BY <1>1, <1>2, <1>3, <1>4 DEF Works, Progress

LEMMA TypeStep ==
  ASSUME TypeOK, CallInv, LeftInv, [Next]_vars
  PROVE  TypeOK'
<1> USE RunAssumption
<1>i. inPlay' = inPlay
  BY DEF Next, vars
<1>1. CASE UNCHANGED vars
  BY <1>1 DEF TypeOK, vars
<1>2. CASE Crash
  <2>1. call' \in [Calls -> CallRecords]
    BY <1>2 DEF Crash, NewCall, CallRecords
  <2> QED
    BY <1>2, <1>i, <2>1 DEF Crash, TypeOK
<1>3. CASE \E c \in Calls : Signal(c)
  BY <1>3, <1>i DEF Signal, TypeOK
<1>4. ASSUME NEW c \in Calls, Works(c), sweep' \in {sweep, sweep \ {Target[c]}},
             sweep' # sweep => sweep # None
      PROVE  TypeOK'
  <2>1. call' \in [Calls -> CallRecords]
    BY <1>4, CallTypes DEF OneCall, TypeOK, Works
  <2>2. run' \in [Runs -> Records]
    BY <1>4, RunEffect, WriteLeaves DEF TypeOK, Inserts, NewRun, Absent, Records, Recoverable,
       Writes
  <2>3. control' \in [Runs -> Calls \cup {None}] /\ aborted' \subseteq Calls
    <3>1. call[c].seen \in Calls \cup {None}
      BY DEF TypeOK, CallRecords
    <3> QED
      BY <1>4, <3>1, MemoryEffect DEF TypeOK
  <2>4. started' \in [Runs -> Nat]
    BY <1>4, MemoryEffect DEF TypeOK
  <2>5. holder' \in [{Key} -> Runs \cup {None}] /\ wanted' \in [{Key} -> SUBSET Calls]
    <3>1. \/ UNCHANGED lease
          \/ Lease!Take(c, Key) \/ Lease!Ask(c, Key) \/ Lease!Withdraw(c, Key)
          \/ Lease!Leave(Key) \/ Lease!PassOn(Key)
      BY <1>4 DEF Works, Start, Recover, Cancel, Progress, Open,
         Pause, Clean, Timeline, ReadRecord, Begun, Saved, Updated, Asked, Write, Enter,
         EnterHandler, Wait, GiveUp, Return, Cleaned, Note, Close, Finish, Leave
    <3> QED
      BY <3>1 DEF TypeOK, Lease!Take, Lease!Ask, Lease!Withdraw, Lease!Leave, Lease!PassOn
  <2>6. sweep' \in {None} \cup SUBSET Runs
    BY <1>4 DEF TypeOK
  <2> QED
    BY <1>i, <2>1, <2>2, <2>3, <2>4, <2>5, <2>6 DEF TypeOK
<1>5. ASSUME NEW c \in Calls,
             \/ Start(c) \/ UserRecovers(c) \/ Cancel(c)
             \/ Progress(c) \/ Note(c) \/ RecoverNext(c)
      PROVE  Works(c) /\ sweep' \in {sweep, sweep \ {Target[c]}} /\ (sweep' # sweep => sweep # None)
  BY <1>5 DEF Works, UserRecovers, RecoverNext, Start, Cancel, Note, Progress, Open,
         Pause, Clean, Timeline, ReadRecord, Begun, Saved, Updated, Asked, Write, Enter,
         EnterHandler, Wait, GiveUp, Return, Cleaned, Close, Finish
<1> QED
  BY <1>1, <1>2, <1>3, <1>4, <1>5 DEF Next
-----------------------------------------------------------------------------
(* The steps of a call.                                                    *)

\* A call leaves idle to execute, having found no execution of its run; or to ask,
\* to pause or to clean up; or it throws or is over.
Begins(c) ==
  /\ At(c, "idle") /\ call'[c].at = "open" /\ call'[c].mode \in {"start", "resume", "reconcile"}
  /\ call'[c].out = call[c].out /\ call'[c].base = call[c].base
  /\ ~Executing(Target[c]) /\ control' = [control EXCEPT ![Target[c]] = c]
  /\ call'[c].mode = "start" => Rec(c).status \in {"absent", "pending"}

Ended(c) == call'[c].at \in Ends /\ call'[c].base = None

LEMMA FromIdle ==
  ASSUME TypeOK, CallInv, NEW c \in Calls, Start(c) \/ Recover(c) \/ Cancel(c)
  PROVE  /\ At(c, "idle") /\ UNCHANGED <<aborted, lease, started>>
         /\ \/ Begins(c)
            \/ Ended(c) /\ control' = control
            \/ /\ call'[c].at \in {"pause", "mismatch", "clean", "ask"} /\ control' = control
               /\ call'[c].base = None
               /\ call'[c].at = "clean" => Left(Target[c])
<1> USE DEF TypeOK, Ready
<1>i. At(c, "idle") /\ call[c] = NewCall
  BY DEF CallInv, Start, Recover, Cancel
<1>1. \A m \in {"start", "resume", "reconcile"} : Execute(c, m) =>
        \/ Ended(c) /\ control' = control
        \/ (m = "start" => Rec(c).status \in {"absent", "pending"}) => Begins(c)
  BY <1>i DEF Execute, Begins, Ended, Ends, NewCall, CallRecords
<1>2. \A l \in {"pause", "mismatch", "clean", "refused", "over"} : Goto(c, l) =>
        /\ call'[c].at = l /\ call'[c].base = None
  BY <1>i DEF Ends, NewCall, CallRecords
<1>3. CASE Start(c)
  BY <1>i, <1>1, <1>3 DEF Start
<1>4. CASE Recover(c)
  <2>1. PICK contract \in Contracts[c] : RecoverWith(c, contract)
    BY <1>4 DEF Recover
  <2>2. UNCHANGED <<aborted, lease, started>>
    BY <1>4 DEF Recover
  <2>3. CASE Goto(c, "refused") /\ control' = control
    BY <1>i, <1>2, <2>2, <2>3 DEF Ended, Ends
  <2>4. CASE (Goto(c, "pause") \/ Goto(c, "mismatch")) /\ control' = control
    BY <1>i, <1>2, <2>2, <2>4
  <2>5. CASE Goto(c, "clean") /\ control' = control /\ Rec(c).status = "cancel_requested"
    BY <1>i, <1>2, <2>2, <2>5 DEF Left
  <2>6. CASE Execute(c, "start") /\ Rec(c).status = "pending"
    BY <1>i, <1>1, <2>2, <2>6
  <2>7. CASE contract \in {"resume", "reconcile"} /\ Execute(c, contract)
    BY <1>i, <1>1, <2>2, <2>7
  <2> QED
    BY <2>1, <2>3, <2>4, <2>5, <2>6, <2>7 DEF RecoverWith
<1>5. CASE Cancel(c)
  <2>1. UNCHANGED <<control, aborted, lease, started>>
    BY <1>5 DEF Cancel
  <2>2. \/ Goto(c, "refused")
        \/ \E e : Is(c, [call[c] EXCEPT !.at = "ask", !.seen = e])
    BY <1>5 DEF Cancel
  <2>3. CASE Goto(c, "refused")
    BY <1>i, <1>2, <2>1, <2>3 DEF Ended, Ends
  <2>4. CASE \E e : Is(c, [call[c] EXCEPT !.at = "ask", !.seen = e])
    <3>1. call'[c].at = "ask" /\ call'[c].base = None
      BY <1>i, <2>4 DEF NewCall
    <3> QED
      BY <1>i, <2>1, <3>1
  <2> QED
    BY <2>2, <2>3, <2>4
<1> QED
  BY <1>3, <1>4, <1>5

\* What the other steps do to their call.
Goes(c, from, to) == call[c].at \in from /\ call'[c].at \in to
Keeps(c) == call'[c].mode = call[c].mode /\ call'[c].out = call[c].out

LEMMA OnTheWay ==
  ASSUME TypeOK, CallInv, NEW c \in Calls, Progress(c) \/ Note(c)
  PROVE  \/ Goes(c, {"open"}, {"begin"}) /\ Keeps(c)
         \/ Goes(c, {"begin"}, {"acquire"}) /\ Keeps(c)
         \/ Goes(c, {"acquire"}, {"acquire", "handler"}) /\ Keeps(c)
         \/ Goes(c, {"acquire"}, {"close"}) /\ call'[c].mode = call[c].mode
                                            /\ call'[c].out = "cancelled"
         \/ Goes(c, {"handler"}, {"close", "note"}) /\ call'[c].mode = "none"
                                                    /\ call'[c].out # "none"
         \/ Goes(c, {"note", "handler", "cleaning"}, {"save"}) /\ Keeps(c)
         \/ Goes(c, {"close"}, {"finish"}) /\ Keeps(c)
         \/ Goes(c, {"finish"}, {"end"}) /\ call'[c].out # "none"
         \/ Goes(c, {"pause"}, {"review"}) /\ Keeps(c)
         \/ Goes(c, {"clean"}, {"cleaning"}) /\ call'[c].mode = "cancel"
         \/ Goes(c, {"cleaning"}, {"cancel", "review"}) /\ Keeps(c)
         \/ Goes(c, {"save"}, {"cleaning"}) /\ call[c].mode = "cancel" /\ Keeps(c)
         \/ Goes(c, {"save"}, {"handler"}) /\ call[c].mode # "cancel" /\ call[c].out = "none"
                                           /\ Keeps(c)
         \/ Goes(c, {"save"}, {"close"}) /\ call[c].mode # "cancel" /\ call[c].out # "none"
                                         /\ Keeps(c)
         \/ Goes(c, {"ask"}, {"clean", "cancel"}) /\ Keeps(c)
         \/ Goes(c, Updates, Updates) /\ call'[c].at = call[c].at /\ Keeps(c)
         \/ Ended(c) /\ call'[c].at = "over" /\ ~Executes(c)
<1> USE DEF TypeOK, Goes, Keeps
<1>c. call[c] \in CallRecords
  OBVIOUS
<1>1. CASE Open(c) \/ Pause(c) \/ Close(c)
  BY <1>1, <1>c DEF Open, Pause, Close, Timeline, Ends, CallRecords
<1>2. CASE Clean(c)
  BY <1>2, <1>c DEF Clean, CallRecords
<1>3. CASE Cleaned(c)
  BY <1>3, <1>c DEF Cleaned, Timeline, Ends, Ended, Executes, NewCall, CallRecords
<1>4. CASE ReadRecord(c)
  BY <1>4, <1>c DEF ReadRecord, CallRecords
<1>5. CASE Begun(c) \/ Saved(c) \/ Updated(c) \/ Asked(c)
  <2>1. \A l : Write(c, l) => IF l = "over" THEN Ended(c) /\ call'[c].at = "over"
                               ELSE call'[c].at = l /\ Keeps(c)
    BY <1>c DEF Write, Ended, Ends, NewCall, CallRecords
  <2>2. CASE Begun(c)
    BY <2>1, <2>2 DEF Begun
  <2>3. CASE Saved(c)
    BY <2>1, <2>3 DEF Saved
  <2>4. CASE Updated(c)
    BY <2>1, <2>4 DEF Updated, Executes
  <2>5. CASE Asked(c)
    <3>1. At(c, "ask") /\ (Write(c, "clean") \/ Write(c, "over") \/ Write(c, "cancel"))
      BY <2>5 DEF Asked
    <3> QED
      BY <2>1, <3>1 DEF Executes
  <2> QED
    BY <1>5, <2>2, <2>3, <2>4, <2>5
<1>6. CASE Enter(c) \/ Wait(c) \/ GiveUp(c)
  BY <1>6, <1>c DEF Enter, EnterHandler, Wait, GiveUp, Ends, CallRecords
<1>7. CASE Return(c)
  BY <1>7, <1>c DEF Return, Terminal, CallRecords
<1>8. CASE Note(c)
  BY <1>8, <1>c DEF Note, CallRecords
<1>9. CASE Finish(c)
  BY <1>9, <1>c DEF Finish, CallInv, CallRecords
<1> QED
  BY <1>1, <1>2, <1>3, <1>4, <1>5, <1>6, <1>7, <1>8, <1>9 DEF Progress

\* A record is read for one update, and forgotten once that is made.
LEMMA BaseEffect ==
  ASSUME TypeOK, CallInv, NEW c \in Calls, Works(c)
  PROVE  call'[c].base = None \/ ReadRecord(c)
<1> USE DEF TypeOK
<1>c. call[c] \in CallRecords /\ (call[c].at \notin Updates => call[c].base = None)
  BY DEF CallInv
<1>1. CASE Start(c) \/ Recover(c) \/ Cancel(c)
  BY <1>c, <1>1, FromIdle DEF Begins, Ended, Updates
<1>g. \A l : Goto(c, l) /\ call[c].base = None => call'[c].base = None
  BY <1>c DEF NewCall, CallRecords
<1>2. CASE Open(c) \/ Pause(c) \/ Close(c) \/ Cleaned(c)
  BY <1>2, <1>c, <1>g DEF Open, Pause, Close, Cleaned, Timeline, Updates
<1>3. CASE Begun(c) \/ Saved(c) \/ Updated(c) \/ Asked(c)
  <2>1. \A l : Write(c, l) => call'[c].base = None
    BY <1>c DEF Write, NewCall, CallRecords
  <2> QED
    BY <1>3, <2>1 DEF Begun, Saved, Updated, Asked
<1>4. CASE Enter(c) \/ Wait(c) \/ GiveUp(c)
  BY <1>4, <1>c DEF Enter, EnterHandler, Wait, GiveUp, Ends, CallRecords, Updates
<1>5. CASE Clean(c)
  BY <1>5, <1>c DEF Clean, CallRecords, Updates
<1>6. CASE Return(c)
  <2>1. call[c].base = None
    BY <1>6, <1>c DEF Return, Updates
  <2>2. PICK out \in Terminal, next \in {"close", "note"} :
          call' = [call EXCEPT ![c] = [call[c] EXCEPT !.at = next, !.out = out, !.mode = "none"]]
    BY <1>6 DEF Return
  <2> QED
    BY <1>c, <2>1, <2>2 DEF CallRecords
<1>8. CASE Note(c)
  <2>1. call[c].base = None
    BY <1>8, <1>c DEF Note, Updates
  <2> QED
    BY <1>8, <1>c, <2>1 DEF Note, CallRecords
<1>7. CASE Finish(c)
  BY <1>7, <1>c DEF Finish, CallRecords, Updates
<1> QED
  BY <1>1, <1>2, <1>3, <1>4, <1>5, <1>6, <1>7, <1>8 DEF Works, Progress

LEMMA OthersStay ==
  ASSUME TypeOK, CallInv, NEW c \in Calls, Works(c)
  PROVE  /\ \A d \in Calls \ {c} : call'[d] = call[d]
         /\ call'[c] \in CallRecords
<1>1. OneCall(c)
  BY CallTypes DEF Works
<1> QED
  BY <1>1 DEF OneCall, TypeOK

LEMMA CallStep ==
  ASSUME TypeOK, CallInv, NEW c \in Calls, Works(c)
  PROVE  CallInv'
<1>1. \A d \in Calls \ {c} : call'[d] = call[d]
  BY OthersStay
<1>2. SUFFICES
        /\ call'[c].at \in {"open", "begin", "acquire", "handler", "note", "close", "finish"}
             => call'[c].mode # "cancel"
        /\ call'[c].at \in {"note", "close", "finish", "end"} => call'[c].out # "none"
        /\ call'[c].at = "idle" => call'[c] = NewCall
        /\ call'[c].at \notin Updates => call'[c].base = None
        /\ call'[c].at = "cleaning" => call'[c].mode = "cancel"
  BY <1>1 DEF CallInv
<1>c. call[c].at = "idle" => call[c] = NewCall
  BY DEF CallInv
<1>3. CASE Start(c) \/ Recover(c) \/ Cancel(c)
  BY <1>3, <1>c, FromIdle DEF Begins, Ended, Ends, Updates, NewCall
<1>4. CASE Progress(c) \/ Note(c)
  <2>1. call'[c].base = None \/ call'[c].at \in Updates
    BY BaseEffect DEF ReadRecord, TypeOK, CallRecords
  <2>2. call'[c].at # "idle"
    BY <1>4, OnTheWay DEF Goes, Ended, Ends, Updates
  <2>3. /\ call'[c].at \in {"open", "begin", "acquire", "handler", "note", "close", "finish"}
             => call'[c].mode # "cancel"
        /\ call'[c].at \in {"note", "close", "finish", "end"} => call'[c].out # "none"
        /\ call'[c].at = "cleaning" => call'[c].mode = "cancel"
    BY <1>4, OnTheWay DEF CallInv, Goes, Keeps, Ended, Ends, Updates
  <2> QED
    BY <2>1, <2>2, <2>3
<1> QED
  BY <1>3, <1>4 DEF Works

LEMMA RunsStayLeft ==
  ASSUME TypeOK, CallInv, LeftInv, NEW c \in Calls, Works(c), NEW r \in Runs, Left(r)
  PROVE  Left(r)'
<1>1. CASE run' = run
  BY <1>1 DEF Left
<1>2. CASE Inserts(c)
  <2>1. r # Target[c]
    BY <1>2 DEF Inserts, Start, Left
  <2> QED
    BY <1>2, <2>1 DEF Inserts, Left, TypeOK
<1>3. CASE Writes(c)
  BY <1>3, WriteLeaves DEF Left
<1> QED
  BY <1>1, <1>2, <1>3, RunEffect

\* Where a handler is started afresh.
LEMMA StartedAtEnter ==
  ASSUME NEW c \in Calls, Works(c)
  PROVE  started' = started \/
           (Enter(c) /\ call[c].mode = "start" /\ started' = [started EXCEPT ![Target[c]] = @ + 1])
<1>1. CASE Start(c) \/ Recover(c) \/ Cancel(c)
  BY <1>1 DEF Start, Recover, Cancel
<1>2. CASE Open(c) \/ Pause(c) \/ Clean(c) \/ ReadRecord(c) \/ Cleaned(c) \/ Note(c) \/ Close(c)
  BY <1>2 DEF Open, Pause, Clean, Timeline, ReadRecord, Cleaned, Note, Close
<1>3. CASE Begun(c) \/ Saved(c) \/ Updated(c) \/ Asked(c)
  BY <1>3 DEF Begun, Saved, Updated, Asked, Write
<1>4. CASE Enter(c) \/ Wait(c) \/ GiveUp(c) \/ Return(c) \/ Finish(c)
  BY <1>4 DEF Enter, EnterHandler, Wait, GiveUp, Return, Finish
<1> QED
  BY <1>1, <1>2, <1>3, <1>4 DEF Works, Progress

LEMMA LeftStep ==
  ASSUME TypeOK, CallInv, LeftInv, NEW c \in Calls, Works(c)
  PROVE  LeftInv'
<1> DEFINE On == {"acquire", "handler", "note", "save", "clean", "cleaning"}
<1>t. /\ Target[c] \in Runs /\ Target \in [Calls -> Runs] /\ call[c] \in CallRecords
      /\ call[c].at \in On => Left(Target[c])
      /\ \A r \in Runs : started[r] > 0 => Left(r)
  BY RunAssumption DEF TypeOK, LeftInv
<1>2. \A d \in Calls \ {c} : call'[d] = call[d]
  BY OthersStay
<1>3. \A r \in Runs : Left(r) => Left(r)'
  BY RunsStayLeft
<1>5. call'[c].at \in On => Left(Target[c])'
  <2>1. CASE Start(c) \/ Recover(c) \/ Cancel(c)
    BY <1>t, <1>3, <2>1, FromIdle DEF Begins, Ended, Ends
  <2>2. CASE Begun(c) \/ Saved(c) \/ Updated(c) \/ Asked(c)
    <3>1. Writes(c)
      <4>1. call[c].base # None /\ run' = [run EXCEPT ![Target[c]] = Changed(c, call[c].base)]
        BY <2>2 DEF Begun, Saved, Updated, Asked, Write
      <4>2. call'[c].base = None
        BY <4>1, BaseEffect DEF ReadRecord
      <4> QED
        BY <2>2, <4>1, <4>2 DEF Writes
    <3> QED
      BY <3>1, WriteLeaves
  <2>3. CASE (Progress(c) \/ Note(c)) /\ ~(Begun(c) \/ Saved(c) \/ Updated(c) \/ Asked(c))
    <3>1. call[c].at \in On \/ call'[c].at \notin On
      <4>1. CASE Open(c) \/ Pause(c) \/ Clean(c) \/ Close(c) \/ Cleaned(c)
        BY <1>t, <4>1 DEF Open, Pause, Clean, Timeline, Close, Cleaned, Ends, TypeOK,
             CallRecords, NewCall
      <4>2. CASE ReadRecord(c) \/ Note(c)
        BY <1>t, <4>2 DEF ReadRecord, Note, TypeOK, CallRecords
      <4>3. CASE Enter(c) \/ Wait(c) \/ GiveUp(c) \/ Return(c)
        BY <1>t, <4>3 DEF Enter, Wait, GiveUp, Return
      <4>4. CASE Finish(c)
        BY <1>t, <4>4 DEF Finish, TypeOK, CallRecords
      <4> QED
        BY <2>3, <4>1, <4>2, <4>3, <4>4 DEF Progress
    <3> QED
      BY <1>t, <1>3, <3>1
  <2> QED
    BY <2>1, <2>2, <2>3 DEF Works
<1>6. call'[c].at = "save" /\ call'[c].base # None =>
        call'[c].base.status \notin {"absent", "pending"}
  <2>1. CASE ReadRecord(c)
    BY <1>t, <2>1 DEF ReadRecord, Left, TypeOK, CallRecords
  <2> QED
    BY <2>1, BaseEffect
<1>7. \A r \in Runs : started'[r] > 0 => Left(r)'
  <2>1. CASE started' = started
    BY <1>t, <1>3, <2>1
  <2>2. CASE Enter(c) /\ started' = [started EXCEPT ![Target[c]] = @ + 1]
    <3>1. Left(Target[c])
      BY <1>t, <2>2 DEF Enter
    <3> QED
      BY <1>t, <1>3, <2>2, <3>1 DEF TypeOK
  <2> QED
    BY <2>1, <2>2, StartedAtEnter
<1> QED
  BY <1>t, <1>2, <1>3, <1>5, <1>6, <1>7 DEF LeftInv

-----------------------------------------------------------------------------
(* Where the executions come from.                                         *)

\* A controller is registered when an execution begins, and taken away when it
\* finishes.
LEMMA ControlEffect ==
  ASSUME TypeOK, CallInv, NEW c \in Calls, Works(c)
  PROVE  \/ control' = control /\ ~Begins(c)
         \/ Begins(c)
         \/ /\ At(c, "finish") /\ call'[c].at = "end"
            /\ control' = [control EXCEPT ![Target[c]] = None]
<1>1. CASE Start(c) \/ Recover(c) \/ Cancel(c)
  BY <1>1, FromIdle
<1>2. CASE Open(c) \/ Pause(c) \/ Clean(c) \/ ReadRecord(c) \/ Cleaned(c) \/ Note(c) \/ Close(c)
  BY <1>2 DEF Open, Pause, Clean, Timeline, ReadRecord, Cleaned, Note, Close
<1>3. CASE Begun(c) \/ Saved(c) \/ Updated(c) \/ Asked(c)
  BY <1>3 DEF Begun, Saved, Updated, Asked, Write
<1>4. CASE Enter(c) \/ Wait(c) \/ GiveUp(c) \/ Return(c)
  BY <1>4 DEF Enter, EnterHandler, Wait, GiveUp, Return
<1>5. CASE Finish(c)
  BY <1>5 DEF Finish, TypeOK, CallRecords
<1> QED
  BY <1>1, <1>2, <1>3, <1>4, <1>5 DEF Works, Progress

\* Nothing else makes an execution of a call.
LEMMA ExecutesBefore ==
  ASSUME TypeOK, CallInv, NEW c \in Calls, Works(c), Executes(c)', ~Begins(c)
  PROVE  Executes(c) /\ ~At(c, "finish")
<1> USE DEF Executes
<1>1. CASE Start(c) \/ Recover(c) \/ Cancel(c)
  BY <1>1, FromIdle DEF Ended, Ends
<1>2. CASE Progress(c) \/ Note(c)
  BY <1>2, OnTheWay DEF CallInv, Goes, Keeps, Ended, Ends, Updates
<1> QED
  BY <1>1, <1>2 DEF Works

LEMMA RegisteredStep ==
  ASSUME TypeOK, CallInv, Registered, NEW c \in Calls, Works(c), aborted \subseteq aborted'
  PROVE  Registered'
<1> SUFFICES ASSUME NEW r \in Runs, Calm(r)', NEW d \in Calls, Executes(d)', Target[d] = r
             PROVE  control'[r] = d
  BY DEF Registered
<1>1. Calm(r)
  BY DEF Calm
<1>2. \A e \in Calls : Executes(e) /\ Target[e] = r => control[r] = e
  BY <1>1 DEF Registered
<1>3. d # c => Executes(d)
  BY OthersStay DEF Executes
<1>4. CASE Begins(c)
  <2>1. d = c \/ Target[c] # r
    <3>1. CASE d # c /\ Target[c] = r
      <4>1. control[r] = d /\ d \notin aborted
        BY <1>1, <1>2, <1>3, <3>1 DEF Calm
      <4> QED
        BY <1>4, <3>1, <4>1, RunAssumption DEF Begins, Executing
    <3> QED
      BY <3>1
  <2> QED
    BY <1>2, <1>3, <1>4, <2>1 DEF Begins, TypeOK
<1>5. CASE ~Begins(c)
  <2>1. Executes(d) /\ (d = c => ~At(c, "finish"))
    BY <1>3, <1>5, ExecutesBefore
  <2>2. control[r] = d
    BY <1>2, <2>1
  <2>3. CASE At(c, "finish") /\ control' = [control EXCEPT ![Target[c]] = None]
    <3>1. Executes(c)
      BY <2>3 DEF Executes, CallInv
    <3>2. Target[c] # r
      BY <1>2, <2>1, <2>2, <2>3, <3>1
    <3> QED
      BY <2>2, <2>3, <3>2 DEF TypeOK
  <2> QED
    BY <1>5, <2>2, <2>3, ControlEffect
<1> QED
  BY <1>4, <1>5

\* An execution on its way to a fresh start of its handler.
Fresh(c) == call[c].mode = "start" /\ call[c].at \in {"open", "begin", "acquire"}

LEMMA AfreshStep ==
  ASSUME TypeOK, CallInv, LeftInv, Registered, Afresh, NEW c \in Calls, Works(c),
         aborted \subseteq aborted'
  PROVE  Afresh'
<1> SUFFICES ASSUME NEW r \in Runs, Calm(r)'
             PROVE  /\ started'[r] <= 1
                    /\ \A d \in Calls : Target[d] = r /\ Fresh(d)' => started'[r] = 0
  BY DEF Afresh, Fresh
<1>1. Calm(r)
  BY DEF Calm
<1>2. /\ started[r] \in Nat /\ started[r] <= 1
      /\ \A d \in Calls : Target[d] = r /\ Fresh(d) => started[r] = 0
  BY <1>1 DEF Afresh, Fresh, TypeOK
<1>3. \A d \in Calls : d # c /\ Fresh(d)' => Fresh(d)
  BY OthersStay DEF Fresh
<1>4. CASE started'[r] = started[r]
  <2>1. SUFFICES ASSUME Target[c] = r, Fresh(c)'
                 PROVE  started[r] = 0
    BY <1>2, <1>3, <1>4
  <2>2. CASE Begins(c)
    <3>1. ~Left(r)
      BY <2>1, <2>2 DEF Begins, Fresh, Left
    <3> QED
      BY <1>2, <3>1 DEF LeftInv
  <2>3. CASE ~Begins(c)
    <3>1. Fresh(c)
      <4>1. CASE Start(c) \/ Recover(c) \/ Cancel(c)
        BY <2>1, <2>3, <4>1, FromIdle DEF Ended, Ends, Fresh
      <4>2. CASE Progress(c) \/ Note(c)
        BY <2>1, <4>2, OnTheWay DEF Goes, Keeps, Ended, Ends, Updates, Fresh
      <4> QED
        BY <4>1, <4>2 DEF Works
    <3> QED
      BY <1>2, <2>1, <3>1
  <2> QED
    BY <2>2, <2>3
<1>5. CASE started'[r] # started[r]
  <2>1. /\ Enter(c) /\ call[c].mode = "start" /\ Target[c] = r
        /\ started'[r] = started[r] + 1
    BY <1>5, StartedAtEnter, RunAssumption DEF TypeOK
  <2>2. At(c, "acquire") /\ call'[c].at = "handler"
    BY <2>1 DEF Enter, EnterHandler, Ends, TypeOK, CallRecords
  <2>3. Fresh(c) /\ Executes(c)
    BY <2>1, <2>2 DEF Fresh, Executes
  <2>4. started[r] = 0
    BY <1>2, <2>1, <2>3
  <2>5. \A d \in Calls : Target[d] = r /\ Fresh(d)' => FALSE
    <3> SUFFICES ASSUME NEW d \in Calls, Target[d] = r, Fresh(d)'
                 PROVE  FALSE
      OBVIOUS
    <3>1. d # c
      BY <2>2 DEF Fresh
    <3>2. Executes(d)
      BY <1>3, <3>1 DEF Fresh, Executes
    <3> QED
      BY <1>1, <2>1, <2>3, <3>1, <3>2 DEF Registered
  <2> QED
    BY <2>1, <2>4, <2>5
<1> QED
  BY <1>4, <1>5

\* What becomes of the lease.
LEMMA LeaseEffect ==
  ASSUME NEW c \in Calls, Works(c)
  PROVE  \/ holder' = holder
         \/ Enter(c) /\ holder[Key] = None /\ holder' = [holder EXCEPT ![Key] = Target[c]]
         \/ /\ Return(c) /\ Target[c] \in Keyed /\ Inside(Target[c]) = {c}
            /\ holder[Key] # None \/ wanted[Key] # {}
<1>1. CASE Start(c) \/ Recover(c) \/ Cancel(c)
  BY <1>1 DEF Start, Recover, Cancel
<1>2. CASE Open(c) \/ Pause(c) \/ Clean(c) \/ ReadRecord(c) \/ Cleaned(c) \/ Note(c) \/ Close(c)
  BY <1>2 DEF Open, Pause, Clean, Timeline, ReadRecord, Cleaned, Note, Close
<1>3. CASE Begun(c) \/ Saved(c) \/ Updated(c) \/ Asked(c)
  BY <1>3 DEF Begun, Saved, Updated, Asked, Write
<1>4. CASE Enter(c)
  BY <1>4 DEF Enter, Lease!Take
<1>5. CASE Wait(c) \/ GiveUp(c) \/ Finish(c)
  BY <1>5 DEF Wait, GiveUp, Finish, Lease!Ask, Lease!Withdraw
<1>6. CASE Return(c)
  BY <1>6 DEF Return, Leave, Lease!Leave, Lease!PassOn
<1> QED
  BY <1>1, <1>2, <1>3, <1>4, <1>5, <1>6 DEF Works, Progress

LEMMA LeasedStep ==
  ASSUME TypeOK, CallInv, Leased, NEW c \in Calls, Works(c)
  PROVE  Leased'
<1> SUFFICES ASSUME NEW d \in Calls, InHandler(d)', Target[d] \in Keyed
             PROVE  holder'[Key] = Target[d]
  BY DEF Leased
<1> USE DEF TypeOK
<1>1. Target[d] \in Runs /\ None \notin Runs
  BY RunAssumption
<1>2. CASE d = c /\ Enter(c)
  BY <1>1, <1>2 DEF Enter, Mine, Lease!Take
<1>3. CASE ~(d = c /\ Enter(c))
  <2>1. InHandler(d)
    <3>1. CASE d # c
      BY <3>1, OthersStay DEF InHandler
    <3>2. CASE d = c
      <4>1. CASE Start(c) \/ Recover(c) \/ Cancel(c)
        BY <3>2, <4>1, FromIdle DEF Begins, Ended, Ends, InHandler
      <4>2. CASE Progress(c) \/ Note(c)
        <5>1. ~(Goes(c, {"acquire"}, {"acquire", "handler"}) /\ call'[c].at = "handler")
          BY <1>3, <3>2, <4>2 DEF Goes, Progress, Open, Pause, Clean, Timeline, ReadRecord,
            Begun, Saved, Updated, Asked, Wait, GiveUp, Return, Cleaned, Note, Close, Finish,
            CallRecords
        <5> QED
          BY <3>2, <4>2, <5>1, OnTheWay DEF CallInv, Goes, Keeps, Ended, Ends, Updates, InHandler
      <4> QED
        BY <4>1, <4>2 DEF Works
    <3> QED
      BY <3>1, <3>2
  <2>2. holder[Key] = Target[d]
    BY <2>1 DEF Leased
  <2>3. CASE Return(c) /\ Target[c] \in Keyed /\ Inside(Target[c]) = {c}
    <3>1. InHandler(c) /\ call'[c].at # "handler" /\ call'[c].at # "save"
      BY <2>3 DEF Return, InHandler, CallRecords
    <3>2. d # c
      BY <3>1 DEF InHandler
    <3>3. holder[Key] = Target[c]
      BY <2>3, <3>1 DEF Leased
    <3> QED
      BY <2>1, <2>2, <2>3, <3>2, <3>3 DEF Inside
  <2> QED
    BY <1>1, <2>2, <2>3, LeaseEffect
<1> QED
  BY <1>2, <1>3

\* The steps, as the proofs take them.
LEMMA StepCases ==
  ASSUME [Next]_vars
  PROVE  \/ UNCHANGED vars
         \/ Crash
         \/ \E c \in Calls : Signal(c) /\ UNCHANGED inPlay
         \/ \E c \in Calls : Works(c) /\ sweep' = sweep /\ aborted \subseteq aborted'
                          /\ ~(c \in Sweeps /\ At(c, "idle"))
         \/ \E c \in Calls : RecoverNext(c)
<1>1. ASSUME NEW c \in Calls,
             Start(c) \/ UserRecovers(c) \/ Cancel(c) \/ Progress(c) \/ Note(c)
      PROVE  /\ Works(c) /\ sweep' = sweep /\ aborted \subseteq aborted'
             /\ ~(c \in Sweeps /\ At(c, "idle"))
  <2>1. CASE Start(c) \/ UserRecovers(c) \/ Cancel(c)
    BY <2>1, RunAssumption DEF Works, Start, UserRecovers, Recover, Cancel
  <2>2. CASE Open(c) \/ Pause(c) \/ Clean(c) \/ ReadRecord(c) \/ Cleaned(c) \/ Note(c) \/ Close(c)
    BY <2>2 DEF Works, Progress, Open, Pause, Clean, Timeline, ReadRecord, Cleaned, Note, Close,
       Updates
  <2>3. CASE Begun(c) \/ Saved(c) \/ Updated(c) \/ Asked(c)
    BY <2>3 DEF Works, Progress, Begun, Saved, Updated, Asked, Write
  <2>4. CASE Enter(c) \/ Wait(c) \/ GiveUp(c) \/ Return(c) \/ Finish(c)
    BY <2>4 DEF Works, Progress, Enter, EnterHandler, Wait, GiveUp, Return, Finish
  <2> QED
    BY <1>1, <2>1, <2>2, <2>3, <2>4 DEF Progress
<1> QED
  BY <1>1 DEF Next

LEMMA InvStep == Inv /\ [Next]_vars => Inv'
<1> SUFFICES ASSUME Inv, [Next]_vars PROVE Inv'
  OBVIOUS
<1> USE DEF Inv
<1>t. TypeOK'
  BY TypeStep
<1>1. CASE UNCHANGED vars
  <2>1. CallInv' /\ LeftInv' /\ Registered' /\ Afresh' /\ Leased'
    BY <1>1 DEF vars, CallInv, LeftInv, Left, Registered, Afresh, Leased, Calm, Executes,
       InHandler
  <2> QED
    BY <1>t, <2>1
<1>2. CASE Crash
  <2>0. UNCHANGED <<run, aborted, started>>
    BY <1>2 DEF Crash
  <2>1. \A c \in Calls : /\ call'[c].at \in {"idle", "lost"} /\ call'[c].base = None
                         /\ call'[c].at = "idle" => call'[c] = NewCall
    BY <1>2 DEF Crash, NewCall
  <2> HIDE DEF Inv
  <2>2. CallInv'
    BY <2>1 DEF CallInv, Updates, NewCall
  <2>3. LeftInv'
    <3>1. \A r \in Runs : started'[r] > 0 => Left(r)'
      BY <2>0 DEF Inv, LeftInv, Left
    <3>2. \A c \in Calls : call'[c].at \notin {"acquire", "handler", "note", "save", "clean", "cleaning"}
      BY <2>1
    <3> QED
      BY <3>1, <3>2 DEF LeftInv
  <2>4. \A c \in Calls : ~Executes(c)' /\ ~InHandler(c)'
    BY <2>1 DEF Executes, InHandler
  <2>5. Registered' /\ Leased'
    BY <2>4 DEF Registered, Leased
  <2>6. Afresh'
    <3>1. \A r \in Runs : Calm(r)' => Calm(r)
      BY <2>0 DEF Calm
    <3>2. \A c \in Calls : call'[c].at \notin {"open", "begin", "acquire"}
      BY <2>1
    <3> QED
      BY <2>0, <3>1, <3>2 DEF Inv, Afresh
  <2> QED
    BY <1>t, <2>2, <2>3, <2>5, <2>6 DEF Inv
<1>3. CASE \E c \in Calls : Signal(c)
  <2>1. /\ UNCHANGED <<run, call, control, holder, started>> /\ aborted \subseteq aborted'
    BY <1>3 DEF Signal
  <2>2. \A r \in Runs : Calm(r)' => Calm(r)
    BY <2>1 DEF Calm
  <2>3. CallInv' /\ LeftInv' /\ Leased'
    BY <2>1 DEF CallInv, LeftInv, Left, Leased, InHandler
  <2>4. Registered' /\ Afresh'
    BY <2>1, <2>2 DEF Registered, Afresh, Executes
  <2> QED
    BY <1>t, <2>3, <2>4
<1>4. ASSUME NEW c \in Calls, Works(c), aborted \subseteq aborted'
      PROVE  Inv'
  BY <1>t, <1>4, CallStep, LeftStep, RegisteredStep, AfreshStep, LeasedStep
<1>5. ASSUME NEW c \in Calls, RecoverNext(c)
      PROVE  Inv'
  BY <1>4, <1>5 DEF RecoverNext, Recover, Works
<1> QED
  BY <1>1, <1>2, <1>3, <1>4, <1>5, StepCases
-----------------------------------------------------------------------------
(* After the restart.                                                      *)

LEMMA AtWork ==
  ASSUME TypeOK, CallInv, NEW c \in Calls, Works(c), ~At(c, "idle")
  PROVE  (Progress(c) \/ Note(c)) /\ Under(c)
<1>1. ~(Start(c) \/ Recover(c) \/ Cancel(c))
  BY FromIdle
<1>2. Progress(c) \/ Note(c)
  BY <1>1 DEF Works
<1>3. call[c].at \notin {"over", "refused", "lost"}
  BY <1>2 DEF Progress, Open, Pause, Clean, Timeline, ReadRecord, Begun, Saved, Updated, Asked,
     Enter, Wait, GiveUp, Return, Cleaned, Note, Close, Finish, Updates
<1> QED
  BY <1>2, <1>3 DEF Under

\* What a write leaves of a run that is not settled.
LEMMA WriteKeeps ==
  ASSUME TypeOK, NEW c \in Calls, Writes(c), call[c].base.status \in Recoverable, Under(c)'
  PROVE  run'[Target[c]].status \in Recoverable
<1>1. Target[c] \in Runs /\ call[c] \in CallRecords
  BY RunAssumption DEF TypeOK
<1>2. call[c].base \in Records
  BY <1>1 DEF Writes, CallRecords
<1>3. run'[Target[c]] = Changed(c, call[c].base)
  BY <1>1 DEF Writes, TypeOK
<1>4. call[c].at \in {"begin", "save", "ask"}
  <2>1. CASE Updated(c)
    BY <1>1, <2>1 DEF Updated, Write, Under, TypeOK, NewCall
  <2> QED
    BY <2>1 DEF Writes, Begun, Saved, Asked
<1>5. Changed(c, call[c].base).status \in Recoverable
  BY <1>2, <1>4 DEF Changed, BegunStatus, Records, Recoverable
<1> QED
  BY <1>3, <1>5

\* A call that has been let in stays so.
LEMMA LetInStays ==
  ASSUME TypeOK, CallInv, NEW c \in Calls, Works(c), NEW r, LetIn(r)
  PROVE  LetIn(r)'
<1>1. PICK d \in Calls \ Sweeps :
        Target[d] = r /\ call[d].at \notin {"idle", "lost", "refused"}
  BY DEF LetIn
<1>2. CASE d = c
  <2>1. Progress(c) \/ Note(c)
    BY <1>1, <1>2, AtWork
  <2>2. call'[d].at \notin {"idle", "lost", "refused"}
    BY <1>2, <2>1, OnTheWay DEF Goes, Updates
  <2> QED
    BY <1>1, <2>2 DEF LetIn
<1>3. CASE d # c
  BY <1>1, <1>3, OthersStay DEF LetIn
<1> QED
  BY <1>2, <1>3

\* A step of a user's call leaves the run as it is, inserts it, or is one of a call
\* that has been let in.
LEMMA UsersStep ==
  ASSUME Inv, NEW c \in Calls \ Sweeps, Works(c)
  PROVE  \/ run' = run
         \/ Rec(c).status = "absent" /\ run' = [run EXCEPT ![Target[c]] = NewRun]
         \/ LetIn(Target[c])
<1> USE DEF Inv
<1>1. CASE At(c, "idle")
  <2>1. ~Writes(c)
    BY <1>1 DEF Writes, Begun, Saved, Updated, Asked
  <2> QED
    BY <2>1, RunEffect DEF Inserts, Start
<1>2. CASE ~At(c, "idle")
  BY <1>2, AtWork DEF Under, LetIn
<1> QED
  BY <1>1, <1>2

\* A step of the sweep's call for a run that no user's call was let in for.
LEMMA SweepsStep ==
  ASSUME Inv, Swept, NEW c \in Sweeps, Works(c), ~At(c, "idle"), sweep # None
  PROVE  /\ \A r \in Runs \ {Target[c]} : run'[r] = run[r]
         /\ call'[c].at # "idle"
         /\ ~LetIn(Target[c]) => Unsettled(c) /\ (Under(c)' => Unsettled(c)')
<1> USE DEF Inv
<1>1. c \in Calls /\ Target[c] \in Runs
  BY RunAssumption
<1>2. (Progress(c) \/ Note(c)) /\ Under(c)
  BY <1>1, AtWork
<1>3. ~Inserts(c)
  BY DEF Inserts, Start, Ready
<1>4. \A r \in Runs \ {Target[c]} : run'[r] = run[r]
  BY <1>1, <1>3, RunEffect, WriteLeaves
<1>5. call'[c].at # "idle"
  BY <1>1, <1>2, OnTheWay DEF Goes, Ended, Ends, Updates
<1>6. ASSUME ~LetIn(Target[c])
      PROVE  Unsettled(c) /\ (Under(c)' => Unsettled(c)')
  <2>1. Unsettled(c)
    BY <1>2, <1>6 DEF Swept
  <2>2. Under(c)' => run'[Target[c]].status \in Recoverable
    <3>1. CASE Writes(c)
      BY <1>1, <2>1, <3>1, WriteKeeps DEF Writes, Unsettled
    <3> QED
      BY <1>1, <1>3, <2>1, <3>1, RunEffect DEF Unsettled
  <2>3. call'[c].base # None => call'[c].base.status \in Recoverable
    BY <1>1, <2>1, BaseEffect DEF ReadRecord, TypeOK, CallRecords, Unsettled
  <2> QED
    BY <2>1, <2>2, <2>3 DEF Unsettled
<1> QED
  BY <1>4, <1>5, <1>6

LEMMA SweptStep == Inv /\ Swept /\ [Next]_vars => Swept'
<1> SUFFICES ASSUME Inv, Swept, [Next]_vars PROVE Swept'
  OBVIOUS
<1> USE DEF Inv
<1>1. CASE UNCHANGED vars
  BY <1>1 DEF vars, Swept, Under, Unsettled, LetIn
<1>2. CASE Crash
  <2>1. /\ \A c \in Sweeps : At(c, "idle")' /\ ~Under(c)'
        /\ sweep' = {r \in Runs : run[r].status \in Recoverable} /\ run' = run
    BY <1>2, RunAssumption DEF Crash, Swept, Under, Listed, TypeOK, NewCall
  <2>2. sweep' # None /\ \A r \in sweep' : run'[r].status \in Recoverable
    BY <2>1, RunAssumption
  <2> QED
    BY <2>1, <2>2 DEF Swept
<1>3. CASE \E c \in Calls : Signal(c)
  BY <1>3 DEF Signal, Swept, Under, Unsettled, LetIn
<1>4. ASSUME NEW c \in Calls, Works(c), sweep' = sweep, ~(c \in Sweeps /\ At(c, "idle"))
      PROVE  Swept'
  <2>1. /\ \A d \in Calls \ {c} : call'[d] = call[d] /\ (Under(d) <=> Under(d)')
    BY <1>4, OthersStay DEF Under
  <2>2. CASE sweep = None
    BY <1>4, <2>1, <2>2, RunAssumption DEF Swept
  <2>3. CASE sweep # None
    <3>1. \A r \in Runs : LetIn(r) => LetIn(r)'
      BY <1>4, LetInStays
    <3>2. sweep \subseteq Runs /\ Sweeps \subseteq Calls /\ Target \in [Calls -> Runs]
      BY <2>3, RunAssumption DEF TypeOK
    <3>3. CASE c \in Sweeps
      <4>1. /\ \A r \in Runs \ {Target[c]} : run'[r] = run[r]
            /\ call'[c].at # "idle"
            /\ ~LetIn(Target[c]) => Unsettled(c) /\ (Under(c)' => Unsettled(c)')
        BY <1>4, <2>3, <3>3, SweepsStep
      <4>2. /\ Target[c] \notin sweep
            /\ \A d \in Sweeps : d # c /\ Target[d] = Target[c] => At(d, "idle") /\ ~Under(d)
        BY <1>4, <2>3, <3>3 DEF Swept, Under
      <4>3. /\ \A r \in sweep : LetIn(r)' \/ run'[r].status \in Recoverable
            /\ \A d \in Sweeps : ~(call'[d].at = "idle") => Target[d] \notin sweep
            /\ \A d, e \in Sweeps : Target[d] = Target[e] /\ ~(call'[d].at = "idle")
                                   /\ ~(call'[e].at = "idle") => d = e
        BY <1>4, <2>1, <2>3, <3>1, <3>2, <3>3, <4>1, <4>2 DEF Swept
      <4>4. ASSUME NEW d \in Sweeps, Under(d)'
            PROVE  LetIn(Target[d])' \/ Unsettled(d)'
        <5>1. CASE d = c
          BY <3>1, <3>2, <4>1, <4>4, <5>1
        <5>2. CASE d # c
          <6>1. Under(d) /\ call'[d] = call[d] /\ Target[d] \in Runs \ {Target[c]}
            BY <2>1, <3>2, <4>2, <4>4, <5>2
          <6>2. LetIn(Target[d]) \/ Unsettled(d)
            BY <2>3, <6>1 DEF Swept
          <6> QED
            BY <3>1, <4>1, <6>1, <6>2 DEF Unsettled
        <5> QED
          BY <5>1, <5>2
      <4> QED
        BY <1>4, <2>3, <4>3, <4>4 DEF Swept
    <3>4. CASE c \notin Sweeps
      <4>1. \A d \in Sweeps : call'[d] = call[d] /\ (Under(d) <=> Under(d)')
        BY <2>1, <3>2, <3>4
      <4>2. \A r \in Runs : LetIn(r)' \/ run[r].status \notin Recoverable
                            \/ run'[r].status \in Recoverable
        <5>1. CASE LetIn(Target[c])
          <6>1. LetIn(Target[c])' /\ \A r \in Runs \ {Target[c]} : run'[r] = run[r]
            BY <1>4, <3>1, <3>2, <5>1, RunEffect, WriteLeaves DEF Inserts, TypeOK
          <6> QED
            BY <6>1
        <5>2. CASE ~LetIn(Target[c])
          <6>1. \/ run' = run
                \/ Rec(c).status = "absent" /\ run' = [run EXCEPT ![Target[c]] = NewRun]
            BY <1>4, <3>4, <5>2, UsersStep
          <6> QED
            BY <3>2, <6>1 DEF TypeOK, NewRun, Absent, Recoverable
        <5> QED
          BY <5>1, <5>2
      <4>3. /\ \A r \in sweep : LetIn(r)' \/ run'[r].status \in Recoverable
            /\ \A d \in Sweeps : ~(call'[d].at = "idle") => Target[d] \notin sweep
            /\ \A d, e \in Sweeps : Target[d] = Target[e] /\ ~(call'[d].at = "idle")
                                   /\ ~(call'[e].at = "idle") => d = e
        BY <2>3, <3>1, <3>2, <4>1, <4>2 DEF Swept
      <4>4. \A d \in Sweeps : Under(d)' => LetIn(Target[d])' \/ Unsettled(d)'
        <5> SUFFICES ASSUME NEW d \in Sweeps, Under(d)'
                     PROVE  LetIn(Target[d])' \/ Unsettled(d)'
          OBVIOUS
        <5>1. LetIn(Target[d]) \/ Unsettled(d)
          BY <2>3, <4>1 DEF Swept
        <5>2. Target[d] \in Runs /\ call'[d] = call[d]
          BY <3>2, <4>1
        <5> QED
          BY <3>1, <4>2, <5>1, <5>2 DEF Unsettled
      <4> QED
        BY <1>4, <2>3, <4>3, <4>4 DEF Swept
    <3> QED
      BY <3>3, <3>4
  <2> QED
    BY <2>2, <2>3
<1>5. ASSUME NEW c \in Calls, RecoverNext(c)
      PROVE  Swept'
  <2>1. /\ c \in Sweeps /\ sweep # None /\ Target[c] \in sweep /\ Recover(c) /\ Works(c)
        /\ sweep' = sweep \ {Target[c]} /\ run' = run /\ At(c, "idle")
        /\ sweep \subseteq Runs
    BY <1>5, FromIdle DEF RecoverNext, Works, Recover, TypeOK
  <2>2. /\ \A d \in Calls \ {c} : call'[d] = call[d] /\ (Under(d) <=> Under(d)')
        /\ \A r \in Runs : LetIn(r) => LetIn(r)'
    BY <2>1, OthersStay, LetInStays DEF Under
  <2>3. call'[c].base = None /\ call'[c].at # "idle"
    BY <2>1, FromIdle DEF Begins, Ended, Ends, CallInv, NewCall
  <2>4. sweep' # None
    BY <2>1, RunAssumption
  <2>5. /\ \A r \in sweep' : LetIn(r)' \/ run'[r].status \in Recoverable
        /\ LetIn(Target[c])' \/ Rec(c).status \in Recoverable
    BY <2>1, <2>2 DEF Swept
  <2>6. /\ \A d \in Sweeps : ~(call'[d].at = "idle") => Target[d] \notin sweep'
        /\ \A d, e \in Sweeps : Target[d] = Target[e] /\ ~(call'[d].at = "idle")
                               /\ ~(call'[e].at = "idle") => d = e
    BY <2>1, <2>2, RunAssumption DEF Swept
  <2>7. \A d \in Sweeps : Under(d)' => LetIn(Target[d])' \/ Unsettled(d)'
    <3> SUFFICES ASSUME NEW d \in Sweeps, Under(d)'
                 PROVE  LetIn(Target[d])' \/ Unsettled(d)'
      OBVIOUS
    <3>1. CASE d = c
      BY <2>1, <2>3, <2>5, <3>1 DEF Unsettled
    <3>2. CASE d # c
      BY <2>1, <2>2, <3>2, RunAssumption DEF Swept, Unsettled
    <3> QED
      BY <3>1, <3>2
  <2> QED
    BY <2>4, <2>5, <2>6, <2>7 DEF Swept
<1> QED
  BY <1>1, <1>2, <1>3, <1>4, <1>5, StepCases
-----------------------------------------------------------------------------
(* The theorems.                                                           *)

\* Every state has its types: records, calls, controllers, lease and sweep are
\* what durable-capability-run.ts keeps.
THEOREM RunTypes == Spec => []TypeOK
<1>1. Init => Inv
  BY InitInv
<1>2. Inv => TypeOK
  BY DEF Inv
<1> QED
  BY <1>1, <1>2, InvStep, PTL DEF Spec

\* Unless an execution of a run was aborted, one handler of it runs at most and it
\* is started afresh at most once, however often executeRun is reached by start
\* and recover and wherever the process dies; and handlers of two runs that name
\* the resource key never overlap.
THEOREM OneHandlerOnly == Spec => []OneHandler
<1>1. Inv => OneHandler
  <2> SUFFICES ASSUME Inv PROVE OneHandler
    OBVIOUS
  <2>1. ASSUME NEW r \in Runs, Calm(r)
        PROVE  Cardinality(Inside(r)) <= 1 /\ started[r] <= 1
    <3>1. \A c \in Inside(r) : Executes(c) /\ Target[c] = r
      BY DEF Inv, CallInv, Inside, InHandler, Executes
    <3>2. Inside(r) \subseteq {control[r]}
      BY <2>1, <3>1 DEF Inv, Registered, Inside
    <3>3. /\ IsFiniteSet({control[r]}) /\ Cardinality({control[r]}) = 1
      BY FS_Singleton
    <3>4. Cardinality(Inside(r)) <= 1
      BY <3>2, <3>3, FS_Subset
    <3> QED
      BY <2>1, <3>4 DEF Inv, Afresh
  <2>2. ASSUME NEW c \in Calls, NEW d \in Calls, Target[c] # Target[d],
               {Target[c], Target[d]} \subseteq Keyed
        PROVE  ~(InHandler(c) /\ InHandler(d))
    BY <2>2 DEF Inv, Leased
  <2> QED
    BY <2>1, <2>2 DEF OneHandler
<1>2. Init => Inv
  BY InitInv
<1> QED
  BY <1>1, <1>2, InvStep, PTL DEF Spec

\* After a restart a run that has ended or waits for a review stays as it is until
\* a user's call is let in for it - recover, of a run that has not ended, or
\* requestCancel: neither recoverPending touches it nor a call that comes too late.
THEOREM SettledForGood == Spec => SettledStays
<1>1. Inv /\ Swept /\ [Next]_vars =>
        [\A r \in Runs :
           /\ sweep # None /\ ~LetIn(r)
           /\ run[r].status \in Terminal \cup Paused
           => run'[r] = run[r]]_vars
  <2> SUFFICES ASSUME Inv, Swept, [Next]_vars, NEW r \in Runs, sweep # None, ~LetIn(r),
                      run[r].status \in Terminal \cup Paused
               PROVE  run'[r] = run[r]
    OBVIOUS
  <2> USE DEF Inv
  <2>1. run[r].status \notin Recoverable \cup {"absent"}
    BY DEF Terminal, Paused, Recoverable
  <2>2. ASSUME NEW c \in Calls, Works(c), ~(c \in Sweeps /\ At(c, "idle"))
        PROVE  run'[r] = run[r]
    <3>1. CASE c \in Sweeps
      <4>1. Under(c)
        BY <2>2, <3>1, AtWork
      <4>2. Target[c] # r
        BY <2>1, <3>1, <4>1 DEF Swept, Unsettled
      <4> QED
        BY <2>2, <3>1, <4>2, SweepsStep
    <3>2. CASE c \notin Sweeps
      <4>1. CASE Target[c] # r
        BY <2>2, <4>1, RunEffect, WriteLeaves DEF Inserts, TypeOK
      <4>2. CASE Target[c] = r
        BY <2>1, <2>2, <3>2, <4>2, UsersStep
      <4> QED
        BY <4>1, <4>2
    <3> QED
      BY <3>1, <3>2
  <2> QED
    BY <2>2, StepCases DEF vars, Crash, Signal, RecoverNext, Recover
<1>2. Init => Inv /\ Swept
  BY InitInv
<1> QED
  BY <1>1, <1>2, InvStep, SweptStep, PTL DEF Spec, SettledStays
=============================================================================
