----------------------------- MODULE DurableRun -----------------------------
(***************************************************************************)
(* Durable capability runs: a run has a record with a status and a         *)
(* checkpoint in the store; it is started, cancelled, and recovered after  *)
(* a restart; its handler runs under a resource lease of the run.          *)
(* core/ai-dev/orchestration/durable-capability-run.ts, with the store     *)
(* main/duckdb/capability-run-store.ts.                                    *)
(*                                                                         *)
(* An action is one query of the store with what the answer leads to, up   *)
(* to the next query: the store's one connection answers in order.         *)
(* updateRun is two queries: it reads the record and writes all of it.     *)
(*                                                                         *)
(* The lease is the abstract one of ResourceLease, for one resource key.   *)
(* Left out: failures of the store, results, artifacts, confirmation       *)
(* grants.  The rows of the attempts are written and never read by the     *)
(* manager: the query is a step, the row is left out.                      *)
(***************************************************************************)
EXTENDS Naturals, FiniteSets

CONSTANTS
  Runs,
  Calls,      \* calls of start, requestCancel and recover, each made once
  Target,     \* the run each call is about
  Starts,     \* calls of start
  Cancels,    \* calls of requestCancel
  Recovers,   \* calls of recover by a user
  Sweeps,     \* calls of recover by recoverPending, after a crash
  Plays,      \* sets of calls: a behaviour makes the calls of one of them
  Signalled,  \* calls that come with an AbortSignal of their caller
  Keyed,      \* runs whose capability names the resource key
  Contracts,  \* call of recover -> what its caller may bring along
  MaxSeq,     \* run -> bound on the checkpoints of its handlers
  None

ASSUME RunAssumption ==
  /\ Target \in [Calls -> Runs]
  /\ Calls = Starts \cup Cancels \cup Recovers \cup Sweeps
  /\ Sweeps \cap (Starts \cup Cancels \cup Recovers) = {}
  /\ Plays \subseteq SUBSET Calls
  /\ Signalled \subseteq Starts \cup Recovers
  /\ Keyed \subseteq Runs
  /\ Contracts \in [Recovers \cup Sweeps -> SUBSET
                     {"missing", "version", "resume", "reconcile", "neither"}]
  /\ MaxSeq \in [Runs -> Nat]
  /\ None \notin Runs \cup Calls
  /\ \A R \in SUBSET Runs : None # R

Key == "resource key"

VARIABLES
  inPlay,    \* the calls this behaviour may make
  run,       \* the store: run -> its record
  call,      \* call -> where it stands
  control,   \* run -> the call whose controller is registered (runningControllers)
  aborted,   \* calls whose AbortController is aborted
  holder, wanted,  \* the lease
  sweep,     \* recoverPending: not begun, or the runs it has still to recover
  started    \* run -> how often its handler was started afresh

lease == <<holder, wanted>>
memory == <<control, aborted>>
vars == <<inPlay, run, call, memory, lease, sweep, started>>

Lease == INSTANCE ResourceLease
           WITH Keys <- {Key}, Parties <- Calls, Tokens <- Runs,
                Token <- Target, MayClear <- FALSE, Heirs <- {}

Absent == [status |-> "absent", seq |-> 0]
NewRun == [Absent EXCEPT !.status = "pending"]
Terminal == {"completed", "failed", "cancelled"}
Paused == {"paused_manual_review", "paused_version_mismatch"}
Recoverable == {"pending", "running", "cancel_requested", "reconciling"}
Unfinished == Recoverable \cup Paused  \* mutant: paused runs are listed too
Active == {"running", "reconciling"}    \* mutant: only those under way are
Listed == Recoverable                  \* listRecoverableRuns

\* base: what updateRun has read, or None; seq: the number of the checkpoint to
\* be saved; out: how the handler ended; seen: the execution, not aborted yet,
\* that requestCancel found.
NewCall == [at |-> "idle", mode |-> "none", base |-> None, seq |-> 0,
            out |-> "none", seen |-> None]

Init ==
  /\ inPlay \in Plays
  /\ run = [r \in Runs |-> Absent]
  /\ call = [c \in Calls |-> NewCall]
  /\ control = [r \in Runs |-> None]
  /\ aborted = {}
  /\ Lease!LeaseInit
  /\ sweep = None
  /\ started = [r \in Runs |-> 0]

Ready(c) == c \in inPlay /\ call[c].at = "idle"
At(c, l) == call[c].at = l
Is(c, k) == call' = [call EXCEPT ![c] = k]
\* refused: the call threw, or returned the run as it was, and changed nothing.
Ends == {"over", "refused"}
Goto(c, l) == Is(c, IF l \in Ends THEN [NewCall EXCEPT !.at = l]
                    ELSE [call[c] EXCEPT !.at = l])
Rec(c) == run[Target[c]]

-----------------------------------------------------------------------------
(* start, recover and requestCancel, up to their first decision.           *)

NeverExecuting(r) == FALSE  \* mutant: no assertion

\* assertRunNotExecuting: an aborted execution does not count.
Executing(r) == control[r] # None /\ control[r] \notin aborted

\* executeRun registers its controller, or the call throws.
Execute(c, m) ==
  \/ /\ Executing(Target[c])
     /\ Goto(c, "refused")
     /\ UNCHANGED control
  \/ /\ ~Executing(Target[c])
     /\ call' = [call EXCEPT ![c].at = "open", ![c].mode = m]
     /\ control' = [control EXCEPT ![Target[c]] = c]

Start(c) ==
  /\ c \in Starts /\ Ready(c)
  /\ Rec(c).status = "absent"
  /\ run' = [run EXCEPT ![Target[c]] = NewRun]
  /\ Execute(c, "start")
  /\ UNCHANGED <<aborted, lease, sweep, started>>

\* recover, for what its caller brings along.
RecoverWith(c, contract) ==
  LET status == Rec(c).status
  IN \/ /\ status \in Terminal \/ Executing(Target[c])
        /\ Goto(c, "refused")
        /\ UNCHANGED control
     \/ /\ status \notin Terminal /\ ~Executing(Target[c])
        /\ \/ contract = "missing" /\ Goto(c, "pause") /\ UNCHANGED control
           \/ contract = "version" /\ Goto(c, "mismatch") /\ UNCHANGED control
           \/ /\ contract \in {"resume", "reconcile", "neither"}
              /\ \/ status = "pending" /\ Execute(c, "start")
                 \/ /\ status = "cancel_requested"
                    /\ Goto(c, "pause") \/ Goto(c, "clean")
                    /\ UNCHANGED control
                 \/ /\ status \notin {"pending", "cancel_requested"}
                    /\ IF contract = "neither"
                       THEN Goto(c, "pause") /\ UNCHANGED control
                       ELSE Execute(c, contract)

Recover(c) ==
  /\ Ready(c)
  /\ Rec(c).status # "absent"
  /\ \E contract \in Contracts[c] : RecoverWith(c, contract)
  /\ UNCHANGED <<run, aborted, lease, started>>

UserRecovers(c) == c \in Recovers /\ Recover(c) /\ UNCHANGED sweep

Cancel(c) ==
  LET r == Target[c]
  IN /\ c \in Cancels /\ Ready(c)
     /\ Rec(c).status # "absent"
     /\ \/ /\ Rec(c).status \in Terminal
           /\ Goto(c, "refused")
        \/ /\ Rec(c).status \notin Terminal
           /\ Is(c, [call[c] EXCEPT !.at = "ask",
                                     !.seen = IF Executing(r) THEN control[r]
                                              ELSE None])
     /\ UNCHANGED <<run, memory, lease, sweep, started>>

-----------------------------------------------------------------------------
(* updateRun: what each use of it changes, and where it goes on.           *)

Updates == {"begin", "save", "end", "ask", "review", "mismatch", "cancel"}

StillPending(c) == "pending"  \* mutant: the first update leaves the status alone
BegunStatus(c) == IF call[c].mode = "reconcile" THEN "reconciling" ELSE "running"

Changed(c, rec) ==
  CASE At(c, "begin") -> [rec EXCEPT !.status = BegunStatus(c)]
    [] At(c, "save") -> [rec EXCEPT !.seq = call[c].seq]
    [] At(c, "end") -> [rec EXCEPT !.status = call[c].out]
    [] At(c, "ask") -> [rec EXCEPT !.status = "cancel_requested"]
    [] At(c, "review") -> [rec EXCEPT !.status = "paused_manual_review"]
    [] At(c, "mismatch") -> [rec EXCEPT !.status = "paused_version_mismatch"]
    [] At(c, "cancel") -> [rec EXCEPT !.status = "cancelled"]

ReadRecord(c) ==
  /\ call[c].at \in Updates /\ call[c].base = None
  /\ call' = [call EXCEPT ![c].base = Rec(c)]
  /\ UNCHANGED <<run, memory, lease, sweep, started>>

Write(c, next) ==
  /\ call[c].base # None
  /\ run' = [run EXCEPT ![Target[c]] = Changed(c, call[c].base)]
  /\ Is(c, IF next = "over" THEN [NewCall EXCEPT !.at = "over"]
           ELSE [call[c] EXCEPT !.at = next, !.base = None, !.seq = 0])
  /\ UNCHANGED <<control, lease, sweep, started>>

Begun(c) == At(c, "begin") /\ Write(c, "acquire") /\ UNCHANGED aborted

Saved(c) ==
  /\ At(c, "save")
  /\ \/ call[c].mode = "cancel" /\ Write(c, "cleaning")
     \/ call[c].mode # "cancel" /\ call[c].out = "none" /\ Write(c, "handler")
     \/ call[c].mode # "cancel" /\ call[c].out # "none" /\ Write(c, "close")
  /\ UNCHANGED aborted

Updated(c) ==
  /\ call[c].at \in {"end", "review", "mismatch", "cancel"}
  /\ Write(c, "over")
  /\ UNCHANGED aborted

\* requestCancel aborts the controller it found; then its cancel handler, if its
\* caller brought one, or the end.
Asked(c) ==
  /\ At(c, "ask")
  /\ \E next \in {"clean", IF call[c].seen # None THEN "over" ELSE "cancel"} :
       Write(c, next)
  /\ aborted' = aborted \cup ({call[c].seen} \ {None})

-----------------------------------------------------------------------------
(* An execution.                                                           *)

\* A query about the attempt, appendAttempt or updateAttempt.
Timeline(c, next) ==
  /\ Goto(c, next)
  /\ UNCHANGED <<run, memory, lease, sweep, started>>

Open(c) == At(c, "open") /\ Timeline(c, "begin")
Pause(c) == At(c, "pause") /\ Timeline(c, "review")

\* runExclusive, with the run as the owner: it enters at once, waits, is let in
\* when a holder leaves, or gives up when its signal is aborted.
InHandler(c) ==
  \/ At(c, "handler")
  \/ At(c, "save") /\ call[c].mode # "cancel" /\ call[c].out = "none"
Inside(r) == {c \in Calls : Target[c] = r /\ InHandler(c)}
AnyOwner(r) == TRUE  \* mutant: one owner token for all runs
Mine(r) == r \notin Keyed \/ holder[Key] = r

EnterHandler(c) ==
  /\ Goto(c, "handler")
  /\ started' = IF call[c].mode = "start"
                THEN [started EXCEPT ![Target[c]] = @ + 1] ELSE started
  /\ UNCHANGED <<run, memory, sweep>>

Enter(c) ==
  /\ At(c, "acquire") /\ c \notin wanted[Key]
  /\ \/ Mine(Target[c]) /\ UNCHANGED lease
     \/ ~Mine(Target[c]) /\ Lease!Take(c, Key)
  /\ EnterHandler(c)

Wait(c) ==
  /\ At(c, "acquire") /\ ~Mine(Target[c])
  /\ Lease!Ask(c, Key)
  /\ UNCHANGED <<run, call, memory, sweep, started>>

GiveUp(c) ==
  /\ At(c, "acquire") /\ c \in aborted
  /\ Lease!Withdraw(c, Key)
  /\ call' = [call EXCEPT ![c].at = "close", ![c].out = "cancelled"]
  /\ UNCHANGED <<run, memory, sweep, started>>

\* The handler saves a checkpoint: the number of the next one is read first.
Note(c) ==
  /\ \/ At(c, "note")
     \/ call[c].at \in {"handler", "cleaning"} /\ Rec(c).seq < MaxSeq[Target[c]]
  /\ call' = [call EXCEPT ![c].at = "save", ![c].seq = Rec(c).seq + 1]
  /\ UNCHANGED <<run, memory, lease, sweep, started>>

\* The handler returns, perhaps with a last checkpoint, or throws; an error that
\* speaks of an abort counts as a cancellation.  The lease is left first.
Leave(c) ==
  IF Target[c] \in Keyed /\ Inside(Target[c]) = {c}
  THEN Lease!Leave(Key) \/ Lease!PassOn(Key)
  ELSE UNCHANGED lease

Return(c) ==
  /\ At(c, "handler")
  /\ \E out \in Terminal, next \in {"close", "note"} :
       /\ next = "note" => out = "completed" /\ Rec(c).seq < MaxSeq[Target[c]]
       /\ Is(c, [call[c] EXCEPT !.at = next, !.out = out, !.mode = "none"])
  /\ Leave(c)
  /\ UNCHANGED <<run, memory, sweep, started>>

Close(c) == At(c, "close") /\ Timeline(c, "finish")

\* An aborted execution is a cancelled one.  The last update of the run is begun
\* and not waited for: the finally takes away whatever controller is registered
\* before the update is written.
Finish(c) ==
  /\ At(c, "finish")
  /\ Is(c, [call[c] EXCEPT !.at = "end",
                            !.out = IF c \in aborted THEN "cancelled" ELSE @])
  /\ control' = [control EXCEPT ![Target[c]] = None]
  /\ UNCHANGED <<run, aborted, lease, sweep, started>>

\* The signal of the caller of start or recover.
Executes(c) ==
  /\ call[c].mode # "cancel"
  /\ call[c].at \in {"open", "begin", "acquire", "handler", "note", "save",
                     "close", "finish"}
Signal(c) ==
  /\ c \in Signalled \ aborted /\ Executes(c)
  /\ aborted' = aborted \cup {c}
  /\ UNCHANGED <<run, call, control, lease, sweep, started>>

-----------------------------------------------------------------------------
(* runCancelHandler, in requestCancel and in recover.                      *)

Clean(c) ==
  /\ At(c, "clean")
  /\ Is(c, [call[c] EXCEPT !.at = "cleaning", !.mode = "cancel"])
  /\ UNCHANGED <<run, memory, lease, sweep, started>>

\* The cancel handler returns or throws, and its attempt is closed.
Cleaned(c) ==
  /\ At(c, "cleaning")
  /\ \/ call[c].seen # None /\ Timeline(c, "over")
     \/ call[c].seen = None /\ (Timeline(c, "cancel") \/ Timeline(c, "review"))

-----------------------------------------------------------------------------
(* A crash, and recoverPending after the restart.                          *)

\* The process dies, and with it the calls that were made; users make the others
\* after the restart, beside the recovery too.  (aborted then only remembers what
\* happened.)
Crash ==
  /\ sweep = None
  /\ call' = [c \in Calls |-> [NewCall EXCEPT
                !.at = IF call[c].at = "idle" THEN "idle" ELSE "lost"]]
  /\ control' = [r \in Runs |-> None]
  /\ holder' = [k \in {Key} |-> None]
  /\ wanted' = [k \in {Key} |-> {}]
  /\ sweep' = {r \in Runs : run[r].status \in Listed}
  /\ UNCHANGED <<run, aborted, started>>

\* The runs of the list one after the other; which comes first is left out.  A
\* recovery that throws ends recoverPending: the rest of the list is left.
RecoverNext(c) ==
  /\ c \in Sweeps /\ sweep # None /\ Target[c] \in sweep
  /\ \A d \in Sweeps : At(d, "idle") \/ At(d, "over")
  /\ Recover(c)
  /\ sweep' = sweep \ {Target[c]}

-----------------------------------------------------------------------------

\* What goes on by itself once a call is made.
Progress(c) ==
  \/ Open(c) \/ Pause(c) \/ Clean(c)
  \/ ReadRecord(c) \/ Begun(c) \/ Saved(c) \/ Updated(c) \/ Asked(c)
  \/ Enter(c) \/ Wait(c) \/ GiveUp(c)
  \/ Return(c) \/ Cleaned(c) \/ (At(c, "note") /\ Note(c))
  \/ Close(c) \/ Finish(c)

Next ==
  /\ UNCHANGED inPlay
  /\ \/ \E c \in Calls :
       \/ Start(c) \/ UserRecovers(c) \/ Cancel(c)
       \/ Progress(c) \/ Note(c) \/ Signal(c)
       \/ RecoverNext(c)
     \/ Crash

Spec == Init /\ [][Next]_vars

\* The store answers, somebody who waits for the lease gets it, and handlers end.
\* A call makes a bounded number of steps: one fairness for all is enough.
Fairness ==
  WF_vars(\E c \in Calls : (Progress(c) \/ RecoverNext(c)) /\ UNCHANGED inPlay)

FairSpec == Spec /\ Fairness

-----------------------------------------------------------------------------
(* Properties.                                                             *)

Records == [status : Recoverable \cup Terminal \cup Paused \cup {"absent"},
            seq : Nat]
CallRecords ==
  [at : Updates \cup {"idle", "open", "pause", "clean", "acquire", "handler",
                      "cleaning", "note", "close", "finish", "over", "refused",
                      "lost"},
   mode : {"none", "start", "resume", "reconcile", "cancel"},
   base : Records \cup {None}, seq : Nat, out : Terminal \cup {"none"},
   seen : Calls \cup {None}]

\* Types of the store, of the calls and of the manager's memory.
TypeOK ==
  /\ inPlay \in Plays
  /\ run \in [Runs -> Records]
  /\ call \in [Calls -> CallRecords]
  /\ control \in [Runs -> Calls \cup {None}]
  /\ aborted \subseteq Calls
  /\ holder \in [{Key} -> Runs \cup {None}]
  /\ wanted \in [{Key} -> SUBSET Calls]
  /\ sweep \in {None} \cup SUBSET Runs
  /\ started \in [Runs -> Nat]

Calm(r) == \A c \in aborted : Target[c] # r

\* As long as no execution of a run has been aborted, one handler of it runs at
\* most, and it is started afresh once only, however often it is recovered and
\* wherever the process dies: its status is written before its handler runs
\* (assertRunNotExecuting, executeRun).  And handlers of different runs that name
\* the resource key never overlap, whatever is aborted.
OneHandler ==
  /\ \A r \in Runs : Calm(r) => Cardinality(Inside(r)) <= 1 /\ started[r] <= 1
  /\ \A c, d \in Calls :
       Target[c] # Target[d] /\ {Target[c], Target[d]} \subseteq Keyed =>
         ~(InHandler(c) /\ InHandler(d))

\* A user's call has been let in for the run: start, recover of a run that has not
\* ended, or requestCancel.
LetIn(r) == \E c \in Calls \ Sweeps :
  Target[c] = r /\ call[c].at \notin {"idle", "lost", "refused"}

\* After a restart a run that has ended or waits for a review stays as it is until
\* a user's call is let in for it: recoverPending leaves it alone, whatever was
\* under way when the process died, and so do the calls that come after its end
\* (listRecoverableRuns, recover, requestCancel).
SettledStays == [][\A r \in Runs :
                     /\ sweep # None /\ ~LetIn(r)
                     /\ run[r].status \in Terminal \cup Paused
                     => run'[r] = run[r]]_vars

Undisturbed(r) == \A c \in Cancels :
  Target[c] = r => call[c].at \in {"idle", "lost"}

\* recoverPending has ended before the run had its turn: a user recovered or
\* cancelled another run of its list.
LeftBehind(r) == r \in sweep /\ \E c \in Sweeps : At(c, "refused")

\* A run that nobody cancels comes to an end or to a review, across a crash and
\* the recovery too, and beside other recoveries; a cancellation that died with
\* the process is made good after the restart.
RunsEnd == \A r \in Runs :
  (run[r].status \in Recoverable /\ Undisturbed(r))
    ~> \/ run[r].status \notin Recoverable \/ ~Undisturbed(r)
       \/ sweep # None /\ LeftBehind(r)
=============================================================================
