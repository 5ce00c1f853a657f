----------------------------- MODULE BrowserPool -----------------------------
(***************************************************************************)
(* The browser pool: at most one live browser per session (a profile),     *)
(* lent to one request at a time, with a queue of waiting requests per     *)
(* session.  src/src/core/browser-pool/.                                   *)
(*                                                                         *)
(* Everything is asynchronous: an acquire, a release or a maintenance job  *)
(* is a thread that advances from one await to the next.  A section run    *)
(* under the pool's or a queue's mutex is one action, and so is the end of *)
(* a call to the outside (factory, destroyer, reset, profile lookup).  All *)
(* of it runs on one event loop: the steps that wait for nothing but each  *)
(* other are done before the next timer, event or result from outside.     *)
(***************************************************************************)
EXTENDS Naturals, Sequences, FiniteSets, SequencesExt

CONSTANTS
  Browsers,     \* browser ids; an id nothing refers to any more is fresh again
  Requests,     \* acquire calls, each with a request id of its own
  Workers,      \* calls and timers running beside the acquires
  Sessions,
  MaxCreating,  \* maxConcurrentCreation
  MaxTries,     \* stands for the 100 iterations of one process() loop
  Scenes,       \* a behaviour has the requests, jobs and mishaps of one of them
  None

HazardKinds ==
  {"batch", "slow", "refused", "fatal", "lookup", "deleted", "reset"}
JobKinds ==
  {"drop", "destroy", "sweep", "evict", "plugin", "profile", "stop"}
Threads == Requests \cup Workers

ASSUME PoolAssumption ==
  /\ Requests \cap Workers = {}
  /\ None \notin Requests \cup Workers \cup Browsers \cup Sessions
  /\ MaxCreating \in Nat /\ MaxTries \in Nat
  /\ \A s \in Scenes :
       /\ s.session \in [Requests -> Sessions] /\ s.prio \in [Requests -> Nat]
       /\ s.places \in Nat /\ s.atOnce \in Nat
       /\ s.impatient \cup s.takers \cup s.twice \subseteq Requests
       /\ s.jobs \subseteq JobKinds /\ s.hazards \subseteq HazardKinds

VARIABLES
  scene,
  entry,       \* browser -> its entry in the pool's map
  home,        \* browser -> the session it was last created for
  life,        \* browser -> the state of the real instance
  reap,        \* browser -> the clean-ups waiting for its factory to finish
  cancelled,   \* browsers destroyed while they were being created
  destroying,  \* session -> destructions under way
  permits,     \* free permits of the creation semaphore
  line,        \* the threads waiting for a permit, in order
  queue,       \* session -> the requests waiting, first to be served first
  stopped,     \* whether stop() was called
  phase,       \* request -> where its acquire call stands
  handle,      \* request -> the browser it was resolved with
  task,        \* thread -> what it is doing
  revoked      \* history: requests whose lock was reclaimed on purpose

semaphore == <<permits, line>>
poolVars == <<entry, home, life, reap, cancelled, destroying, semaphore>>
callVars == <<queue, phase, handle, revoked>>
vars == <<scene, entry, home, life, reap, cancelled, destroying, permits, line, queue,
          stopped, phase, handle, task, revoked>>

Session == scene.session      \* the session each request asks for
Prio == scene.prio            \* the priority of each request
Plugin == scene.plugin        \* the plugin each request comes from
MaxBrowsers == scene.places   \* maxTotalBrowsers
AtOnce == scene.atOnce        \* how many jobs and releases run beside each other
Jobs == scene.jobs            \* the maintenance jobs
Impatient == scene.impatient  \* requests whose wait timer or abort signal may fire
Takers == scene.takers        \* those made by takeoverLockedBrowser / adopt...
Twice == scene.twice          \* requests whose handle may be released again
Hazards == scene.hazards      \* what may go wrong outside

NoEntry == [status |-> "none", holder |-> None]

\* req: the request being served; owed: a waiter taken off the queue and not yet
\* answered; aim: the requests a job means to take a lock from; then: what
\* follows the present call; todo: browsers still to be destroyed.
NoTask == [pc |-> "idle", sess |-> None, req |-> None, br |-> None, tries |-> 0,
           owed |-> None, aim |-> {}, then |-> <<>>, todo |-> {}]

Steps == {"idle", "reuse", "lock", "create", "permit", "place", "starting",
          "finish", "discard", "abandon", "abort", "lockNew", "enqueue",
          "peek", "lookup", "dequeue", "take", "check", "clean", "hand",
          "refuse", "return", "reset", "settle", "destroy", "destroyer",
          "destroyed", "report", "cancelPlugin", "later", "seize"}
Outside == {"idle", "permit", "starting", "discard", "lookup", "check", "clean",
            "reset", "destroyer", "report", "later"}

Init ==
  /\ scene \in Scenes
  /\ entry = [b \in Browsers |-> NoEntry]
  /\ home = [b \in Browsers |-> None]
  /\ life = [b \in Browsers |-> "none"]
  /\ reap = [b \in Browsers |-> {}]
  /\ cancelled = {}
  /\ destroying = [s \in Sessions |-> 0]
  /\ permits = MaxCreating
  /\ line = <<>>
  /\ queue = [s \in Sessions |-> <<>>]
  /\ stopped = FALSE
  /\ phase = [r \in Requests |-> "new"]
  /\ handle = [r \in Requests |-> None]
  /\ task = [t \in Threads |-> NoTask]
  /\ revoked = {}

-----------------------------------------------------------------------------
(* The pool's map.                                                         *)

Status(b) == entry[b].status
Present == {b \in Browsers : Status(b) # "none"}
Of(s) == {b \in Present : home[b] = s}
Ready(b) == Status(b) \in {"idle", "locked"}

Idle == [status |-> "idle", holder |-> None]
LockedBy(r) == [status |-> "locked", holder |-> r]
Becomes(b, e) == entry' = [entry EXCEPT ![b] = e]

\* A uuid that was never used: no entry, no instance and no reference is left.
Fresh(b) ==
  /\ Status(b) = "none"
  /\ life[b] \notin {"starting", "running"}
  /\ reap[b] = {}
  /\ \A t \in Threads : task[t].br # b /\ b \notin task[t].todo
  /\ \A r \in Requests : phase[r] = "resolved" => handle[r] # b

-----------------------------------------------------------------------------
(* Threads.                                                                *)

At(t, pc) == task[t].pc = pc
Goto(t, pc) == task' = [task EXCEPT ![t].pc = pc]
GotoWith(t, pc, b) == task' = [task EXCEPT ![t].pc = pc, ![t].br = b]

\* The present call of t has returned (or thrown: every caller that goes on
\* after it catches): on to the next call of the job, the next browser of a
\* stop(), or the end.
Resume(t) ==
  LET k == task[t]
  IN IF k.then # <<>>
     THEN task' = [task EXCEPT ![t].pc = Head(k.then), ![t].then = Tail(k.then),
                               ![t].tries = 0, ![t].req = k.owed]
     ELSE IF k.todo # {}
     THEN \E b \in k.todo :
            task' = [task EXCEPT ![t].pc = "destroy", ![t].br = b,
                                 ![t].todo = @ \ {b}]
     ELSE task' = [task EXCEPT ![t] = NoTask]

\* process() has made one more pass over the queue.
NextPass(t) == task' = [task EXCEPT ![t].pc = "peek", ![t].tries = @ + 1]

\* mutant: a destruction wakes nobody.
NotifyNobody(t, s) == Resume(t)

\* The session's waiters are to be looked after, once its status is written.
NotifyChanged(t, s) == task' = [task EXCEPT ![t].pc = "report", ![t].sess = s,
                                            ![t].br = None, ![t].tries = 0]

\* The event loop turns to the next outside event when every thread waits for
\* one.
Prompt(t) ==
  \/ task[t].pc \notin Outside
  \/ At(t, "permit") /\ permits > 0 /\ Head(line) = t
  \/ At(t, "starting") /\ life[task[t].br] # "starting"
Turn ==
  /\ \A t \in Threads : ~Prompt(t)
  /\ \A r \in Requests : phase[r] # "resolved"

\* Requests in R are answered with a failure.
Fail(R) == phase' = [r \in Requests |-> IF r \in R THEN "failed" ELSE phase[r]]

\* Request r is answered with browser b.
Resolve(r, b) ==
  /\ phase' = [phase EXCEPT ![r] = "resolved"]
  /\ handle' = [handle EXCEPT ![r] = b]

\* Whether t serves its own acquire, a waiter it owes an answer, or the queue.
Own(t) == t \in Requests
Owing(t) == task[t].owed # None /\ task[t].req = task[t].owed

\* reuse or create has locked b for task[t].req.
Obtained(t, b) ==
  IF Own(t)
  THEN /\ Resolve(t, b)
       /\ task' = [task EXCEPT ![t] = NoTask]
  ELSE IF Owing(t)
  THEN /\ Resolve(task[t].owed, b)
       /\ Resume(t)
  ELSE /\ Goto(t, "dequeue")
       /\ UNCHANGED <<phase, handle>>

\* Neither gave a browser.
Unobtained(t) ==
  IF Own(t)
  THEN /\ Goto(t, "enqueue")
       /\ UNCHANGED phase
  ELSE IF Owing(t)
  THEN /\ Fail({task[t].owed})
       /\ Resume(t)
  ELSE /\ NextPass(t)
       /\ UNCHANGED phase

-----------------------------------------------------------------------------
(* acquire(): reuse an idle browser, else create one, else wait.           *)

Acquire(r) ==
  /\ Turn
  /\ phase[r] = "new"
  /\ r \notin Takers
  /\ ~stopped
  /\ phase' = [phase EXCEPT ![r] = "calling"]
  /\ task' = [task EXCEPT ![r] = [NoTask EXCEPT !.pc = "reuse", !.req = r,
                                                !.sess = Session[r]]]
  /\ UNCHANGED <<poolVars, queue, stopped, handle, revoked>>

\* acquireIdle
Reuse(t) ==
  /\ At(t, "reuse")
  /\ LET idle == {b \in Of(task[t].sess) : Status(b) = "idle"}
     IN \/ \E b \in idle : GotoWith(t, "lock", b)
        \/ idle = {} /\ Goto(t, "create")
  /\ UNCHANGED <<poolVars, stopped, callVars>>

\* lockBrowser, of an idle browser that was found or of one just created.
Lockable(b) == Status(b) = "idle"

Lock(t) ==
  /\ task[t].pc \in {"lock", "lockNew"}
  /\ LET b == task[t].br
     IN \/ /\ Lockable(b)
           /\ Becomes(b, LockedBy(task[t].req))
           /\ Obtained(t, b)
        \/ /\ ~Lockable(b)
           /\ IF At(t, "lock") THEN Goto(t, "create") /\ UNCHANGED phase
                               ELSE Unobtained(t)
           /\ UNCHANGED <<entry, handle>>
  /\ UNCHANGED <<home, life, reap, cancelled, destroying, semaphore, queue,
                 stopped, revoked>>

Full == Cardinality(Present) >= MaxBrowsers

\* BrowserCreationStrategy.create, up to the creation semaphore.
Create(t) ==
  /\ At(t, "create")
  /\ LET refused == \/ Full
                    \/ \E b \in Of(task[t].sess) : Ready(b)
                    \/ stopped
     IN \/ /\ refused
           /\ Unobtained(t)
           /\ UNCHANGED line
        \/ /\ ~refused
           /\ Goto(t, "permit")
           /\ line' = Append(line, t)
           /\ UNCHANGED phase
  /\ UNCHANGED <<entry, home, life, reap, cancelled, destroying, permits, queue,
                 stopped, handle, revoked>>

\* The semaphore serves in order.
GetPermit(t) ==
  /\ At(t, "permit")
  /\ permits > 0 /\ Head(line) = t
  /\ permits' = permits - 1
  /\ line' = Tail(line)
  /\ Goto(t, "place")
  /\ UNCHANGED <<entry, home, life, reap, cancelled, destroying, stopped,
                 callVars>>

Kept(n) == n           \* mutant: the permit is not given back
Freed(n) == n + 1

NoPlaceholder(s) == Full \/ Of(s) # {}  \* mutant: destructions are not awaited
Occupied(s) == Full \/ Of(s) # {} \/ destroying[s] > 0

\* The second check, with the placeholder that reserves the session.
Place(t) ==
  /\ At(t, "place")
  /\ LET s == task[t].sess
     IN \/ /\ Occupied(s)
           /\ GotoWith(t, "abandon", None)
           /\ UNCHANGED <<entry, home, life>>
        \/ /\ ~Occupied(s)
           /\ \E b \in Browsers :
                /\ Fresh(b)
                /\ Becomes(b, [status |-> "creating", holder |-> None])
                /\ home' = [home EXCEPT ![b] = s]
                /\ life' = [life EXCEPT ![b] = "starting"]
                /\ GotoWith(t, "starting", b)
  /\ UNCHANGED <<reap, cancelled, destroying, semaphore, stopped, callVars>>

\* The factory, outside the pool.
Launch(b) ==
  /\ Turn
  /\ life[b] = "starting"
  /\ \/ life' = [life EXCEPT ![b] = "running"]
     \/ /\ Hazards \cap {"refused", "fatal"} # {}
        /\ life' = [life EXCEPT ![b] = "refused"]
  /\ UNCHANGED <<entry, home, reap, cancelled, destroying, semaphore, stopped,
                 task, callVars>>

\* The race between the factory and its timeout.
AwaitFactory(t) ==
  /\ At(t, "starting")
  /\ LET b == task[t].br
     IN \/ /\ life[b] \in {"running", "gone"}
           /\ Goto(t, "finish")
           /\ UNCHANGED reap
        \/ /\ life[b] = "refused"
           /\ \/ "refused" \in Hazards /\ Goto(t, "abandon")
              \/ "fatal" \in Hazards /\ Goto(t, "abort")
           /\ UNCHANGED reap
        \/ /\ "slow" \in Hazards
           /\ life[b] = "starting" /\ Turn
           /\ reap' = [reap EXCEPT ![b] = @ \cup {"timeout"}]
           /\ Goto(t, "abandon")
  /\ UNCHANGED <<entry, home, life, cancelled, destroying, semaphore, stopped,
                 callVars>>

StillWanted(b) == Status(b) = "creating" /\ ~stopped

Finish(t) ==
  /\ At(t, "finish")
  /\ LET b == task[t].br
     IN \/ /\ StillWanted(b)
           /\ Becomes(b, Idle)
           /\ permits' = Freed(permits)
           /\ Goto(t, "lockNew")
        \/ /\ ~StillWanted(b)
           /\ Becomes(b, NoEntry)
           /\ Goto(t, IF b \in cancelled THEN "abandon" ELSE "discard")
           /\ UNCHANGED permits
  /\ UNCHANGED <<home, life, reap, cancelled, destroying, line, stopped,
                 callVars>>

\* destroyCreatedBrowser
Discard(t) ==
  /\ Turn
  /\ At(t, "discard")
  /\ life' = [life EXCEPT ![task[t].br] = "gone"]
  /\ Goto(t, "abandon")
  /\ UNCHANGED <<entry, home, reap, cancelled, destroying, semaphore, stopped,
                 callVars>>

\* createBrowser throws: its catch and finally blocks.  A fatal error reaches
\* the caller of acquire, or ends the process() or the transfer it comes from.
Abandon(t) ==
  /\ task[t].pc \in {"abandon", "abort"}
  /\ entry' = [b \in Browsers |-> IF b = task[t].br THEN NoEntry ELSE entry[b]]
  /\ permits' = Freed(permits)
  /\ IF At(t, "abandon") THEN Unobtained(t)
     ELSE /\ Fail({t})
          /\ Resume(t)
  /\ UNCHANGED <<home, life, reap, cancelled, destroying, queue, line, stopped,
                 handle, revoked>>

\* The clean-up that was left to the factory's promise.
ReapCreated(b) ==
  /\ Turn
  /\ reap[b] # {}
  /\ life[b] \in {"running", "refused", "gone"}
  /\ life' = [life EXCEPT ![b] = IF @ = "running" THEN "gone" ELSE @]
  /\ reap' = [reap EXCEPT ![b] = {}]
  /\ IF "destroy" \in reap[b]
     THEN /\ cancelled' = cancelled \ {b}
          /\ destroying' = [destroying EXCEPT ![home[b]] = @ - 1]
     ELSE UNCHANGED <<cancelled, destroying>>
  /\ UNCHANGED <<entry, home, semaphore, stopped, task, callVars>>

FrontPlace(q, r) == {1}  \* mutant: newcomers are put first

\* Sorted by priority, first come first served within one; a request boosted for
\* its long wait stays ahead of a newer one of higher priority.  (At the first look
\* at the queue the code also sorts those that waited already again, by their
\* boosts.  That is left out: which of them comes first is no property's concern.)
Places(q, r) ==
  {i \in 1..Len(q)+1 : \A j \in i..Len(q) : Prio[q[j]] < Prio[r]}

Enqueue(r) ==
  /\ At(r, "enqueue")
  /\ \/ /\ \E i \in Places(queue[Session[r]], r) :
             queue' = [queue EXCEPT ![Session[r]] = InsertAt(@, i, r)]
        /\ phase' = [phase EXCEPT ![r] = "waiting"]
     \/ /\ r \in Impatient
        /\ Fail({r})
        /\ UNCHANGED queue
  /\ task' = [task EXCEPT ![r] = NoTask]
  /\ UNCHANGED <<poolVars, stopped, handle, revoked>>

\* q without the requests of R, in the same order.
Without(q, R) ==
  LET kept == {i \in DOMAIN q : q[i] \notin R}
      place(i) == Cardinality({j \in kept : j <= i})
  IN  [n \in 1..Cardinality(kept) |-> q[CHOOSE i \in kept : place(i) = n]]
CancelWaiting(R) == queue' = [s \in Sessions |-> Without(queue[s], R)]

GiveUp(r) ==
  /\ Turn
  /\ phase[r] = "waiting"
  /\ r \in Impatient
  /\ CancelWaiting({r})
  /\ Fail({r})
  /\ UNCHANGED <<poolVars, stopped, handle, task, revoked>>

\* buildBrowserHandle, once the answer has reached the caller.
BuildHandle(r) ==
  /\ phase[r] = "resolved"
  /\ phase' = [phase EXCEPT ![r] =
                 IF Ready(handle[r]) THEN "granted" ELSE "failed"]
  /\ UNCHANGED <<poolVars, queue, stopped, handle, task, revoked>>

-----------------------------------------------------------------------------
(* Serving the queue of a session: WaitQueueCoordinator.process.           *)

Peek(t) ==
  /\ At(t, "peek")
  /\ LET k == task[t]
         q == queue[k.sess]
     IN \/ /\ q # <<>> /\ k.tries < MaxTries
           /\ task' = [task EXCEPT ![t].pc = "lookup", ![t].req = Head(q)]
        \/ /\ q = <<>> \/ k.tries >= MaxTries
           /\ Resume(t)
  /\ UNCHANGED <<poolVars, stopped, callVars>>

\* The profile is looked up: found, deleted meanwhile, or the lookup throws.
Lookup(t) ==
  /\ Turn
  /\ At(t, "lookup")
  /\ \/ /\ Goto(t, "reuse")
        /\ UNCHANGED <<queue, phase>>
     \/ /\ "deleted" \in Hazards
        /\ Fail(ToSet(queue[task[t].sess]))
        /\ queue' = [queue EXCEPT ![task[t].sess] = <<>>]
        /\ Resume(t)
     \/ /\ "lookup" \in Hazards
        /\ Resume(t)
        /\ UNCHANGED <<queue, phase>>
  /\ UNCHANGED <<poolVars, stopped, handle, revoked>>

\* The browser was locked for the request that was peeked; whoever is first in
\* the queue by now gets it.
Dequeue(t) ==
  /\ At(t, "dequeue")
  /\ LET s == task[t].sess
     IN IF queue[s] # <<>>
        THEN /\ Resolve(Head(queue[s]), task[t].br)
             /\ queue' = [queue EXCEPT ![s] = Tail(@)]
        ELSE UNCHANGED <<queue, phase, handle>>
  /\ NextPass(t)
  /\ UNCHANGED <<poolVars, stopped, revoked>>

-----------------------------------------------------------------------------
(* release(): hand the browser to the next waiter, else put it back.       *)

\* What a job does to the holder of a lock it clears.
Reclaim(t, b) == revoked' = revoked \cup (task[t].aim \cap {entry[b].holder})

Job(aim, b, pc) ==
  [NoTask EXCEPT !.pc = pc, !.br = b, !.sess = home[b], !.aim = aim]

AnyHandle(r) == TRUE  \* mutant: a stale handle counts
HoldsLock(r) == entry[handle[r]] = LockedBy(r)

\* The handle of a request that no longer holds the lock is ignored.
Release(t, r) ==
  /\ Turn
  /\ phase[r] = "granted" \/ (phase[r] = "released" /\ r \in Twice)
  /\ At(t, "idle")
  /\ phase' = [phase EXCEPT ![r] = "released"]
  /\ LET b == handle[r]
     IN \/ /\ stopped \/ ~HoldsLock(r)
           /\ UNCHANGED task
        \/ /\ ~stopped /\ HoldsLock(r) /\ Ready(b)
           /\ \/ task' = [task EXCEPT ![t] = Job({r}, b, "take")]
              \/ /\ "drop" \in Jobs
                 /\ task' = [task EXCEPT ![t] = [Job({r}, b, "destroy") EXCEPT
                                                   !.then = <<"peek">>]]
  /\ UNCHANGED <<poolVars, queue, stopped, handle, revoked>>

NothingAfter == <<>>  \* mutant: who queued during the reset is forgotten
AfterReturn == <<"peek">>

\* dequeue: the waiter's timer is cleared; this thread is to settle its promise.
Take(t) ==
  /\ At(t, "take")
  /\ LET s == task[t].sess
     IN \/ /\ queue[s] # <<>>
           /\ phase' = [phase EXCEPT ![Head(queue[s])] = "served"]
           /\ queue' = [queue EXCEPT ![s] = Tail(@)]
           /\ task' = [task EXCEPT ![t].pc = "check",
                                   ![t].owed = Head(queue[s])]
        \/ /\ queue[s] = <<>>
           /\ task' = [task EXCEPT ![t].pc = "return", ![t].then = AfterReturn]
           /\ UNCHANGED <<queue, phase>>
  /\ UNCHANGED <<poolVars, stopped, handle, revoked>>

\* transferBrowserToWaiter looks the waiter's profile up.
Check(t) ==
  /\ Turn
  /\ At(t, "check")
  /\ \/ Goto(t, IF Ready(task[t].br) THEN "clean" ELSE "hand")
     \/ /\ "deleted" \in Hazards
        /\ task' = [task EXCEPT ![t].pc = "return", ![t].then = <<"refuse">>]
     \/ /\ "lookup" \in Hazards
        /\ Resume(t)
  /\ UNCHANGED <<poolVars, stopped, callVars>>

\* The reset before the handoff; a browser that cannot be reset is replaced.
Clean(t) ==
  /\ Turn
  /\ At(t, "clean")
  /\ \/ Goto(t, "hand")
     \/ /\ "reset" \in Hazards
        /\ task' = [task EXCEPT ![t].pc = "destroy", ![t].then = <<"create">>]
  /\ UNCHANGED <<poolVars, stopped, callVars>>

\* handoffLock, whoever holds the lock by now.
Hand(t) ==
  /\ At(t, "hand")
  /\ LET b == task[t].br
     IN \/ /\ Ready(b)
           /\ Becomes(b, LockedBy(task[t].owed))
           /\ Reclaim(t, b)
           /\ Resolve(task[t].owed, b)
           /\ Resume(t)
        \/ /\ ~Ready(b)
           /\ task' = [task EXCEPT ![t].pc = "return", ![t].then = <<"refuse">>]
           /\ UNCHANGED <<entry, phase, handle, revoked>>
  /\ UNCHANGED <<home, life, reap, cancelled, destroying, semaphore, queue,
                 stopped>>

Refuse(t) ==
  /\ At(t, "refuse")
  /\ Fail({task[t].owed})
  /\ Resume(t)
  /\ UNCHANGED <<poolVars, queue, stopped, handle, revoked>>

Free(b) == Idle  \* mutant: idle before it is reset
InReset(b) == LockedBy(None)

\* releaseBrowser: out of reach while it is being reset, then idle, unless
\* somebody has taken it over.
Return(t) ==
  /\ At(t, "return")
  /\ LET b == task[t].br
     IN \/ /\ Ready(b)
           /\ Becomes(b, InReset(b))
           /\ Reclaim(t, b)
           /\ Goto(t, "reset")
        \/ /\ ~Ready(b)
           /\ Resume(t)
           /\ UNCHANGED <<entry, revoked>>
  /\ UNCHANGED <<home, life, reap, cancelled, destroying, semaphore, queue,
                 stopped, phase, handle>>

Reset(t) ==
  /\ Turn
  /\ At(t, "reset")
  /\ \/ Goto(t, "settle")
     \/ "reset" \in Hazards /\ Goto(t, "destroy")
  /\ UNCHANGED <<poolVars, stopped, callVars>>

Settle(t) ==
  /\ At(t, "settle")
  /\ LET b == task[t].br
     IN entry' = [entry EXCEPT ![b] = IF @ = InReset(b) THEN Idle ELSE @]
  /\ Resume(t)
  /\ UNCHANGED <<home, life, reap, cancelled, destroying, semaphore, stopped,
                 callVars>>

-----------------------------------------------------------------------------
(* destroyBrowser.                                                         *)

Marked(s) == [destroying EXCEPT ![s] = @ + 1]

\* A placeholder goes at once and its instance when the factory is done; an
\* instance, even one being destroyed already, goes to the destroyer.
Destroy(t) ==
  /\ At(t, "destroy")
  /\ LET b == task[t].br
         s == home[b]
     IN \/ /\ Status(b) = "none"
           /\ Resume(t)
           /\ UNCHANGED <<entry, reap, cancelled, destroying, revoked>>
        \/ /\ Status(b) = "creating"
           /\ Becomes(b, NoEntry)
           /\ destroying' = Marked(s)
           /\ cancelled' = cancelled \cup {b}
           /\ reap' = [reap EXCEPT ![b] = @ \cup {"destroy"}]
           /\ NotifyChanged(t, s)
           /\ UNCHANGED revoked
        \/ /\ Status(b) \in {"idle", "locked", "destroying"}
           /\ Becomes(b, [status |-> "destroying", holder |-> None])
           /\ destroying' = Marked(s)
           /\ Reclaim(t, b)
           /\ Goto(t, "destroyer")
           /\ UNCHANGED <<reap, cancelled>>
  /\ UNCHANGED <<home, life, semaphore, queue, stopped, phase, handle>>

\* The destroyer, outside the pool.
Destroyer(t) ==
  /\ Turn
  /\ At(t, "destroyer")
  /\ life' = [life EXCEPT ![task[t].br] = "gone"]
  /\ Goto(t, "destroyed")
  /\ UNCHANGED <<entry, home, reap, cancelled, destroying, semaphore, stopped,
                 callVars>>

\* The entry goes, and the session's waiters are looked after.
Destroyed(t) ==
  /\ At(t, "destroyed")
  /\ LET b == task[t].br
     IN /\ entry' = [entry EXCEPT ![b] =
                       IF @.status = "destroying" THEN NoEntry ELSE @]
        /\ destroying' = [destroying EXCEPT ![home[b]] = @ - 1]
        /\ NotifyChanged(t, home[b])
  /\ UNCHANGED <<home, life, reap, cancelled, semaphore, stopped, callVars>>

\* handleSessionBrowsersChanged
Report(t) ==
  /\ Turn
  /\ At(t, "report")
  /\ Goto(t, "peek")
  /\ UNCHANGED <<poolVars, stopped, callVars>>

-----------------------------------------------------------------------------
(* Maintenance: timers, events of the instances, and the user interface.   *)

\* An instance closes or crashes, or somebody destroys it by its id.
StartDestroy(t, b) ==
  /\ "destroy" \in Jobs
  /\ b \in Present
  /\ \E then \in {<<>>, <<"peek">>} :
       task' = [task EXCEPT ![t] = [Job({}, b, "destroy") EXCEPT
                                      !.aim = Requests, !.then = then]]
  /\ UNCHANGED <<queue, stopped, phase>>

\* A job does its calls at once, or after it has dealt with other browsers that
\* were due as well.
Run(t, k, calls) ==
  \/ task' = [task EXCEPT ![t] = [k EXCEPT !.pc = Head(calls),
                                           !.then = Tail(calls)]]
  \/ /\ "batch" \in Hazards
     /\ task' = [task EXCEPT ![t] = [k EXCEPT !.pc = "later", !.then = calls]]

Later(t) ==
  /\ Turn
  /\ At(t, "later")
  /\ Resume(t)
  /\ UNCHANGED <<poolVars, stopped, callVars>>

\* checkLockTimeout: the holder's time is up.  (forceRelease is the same job.)
Sweep(t, b) ==
  /\ "sweep" \in Jobs
  /\ Status(b) = "locked" /\ entry[b].holder # None
  /\ Run(t, Job({entry[b].holder}, b, "idle"), <<"return", "peek">>)
  /\ UNCHANGED <<queue, stopped, phase>>

\* evictIdleTimeout
Evict(t, b) ==
  /\ "evict" \in Jobs
  /\ Status(b) = "idle"
  /\ Run(t, Job({}, b, "idle"), <<"destroy">>)
  /\ UNCHANGED <<queue, stopped, phase>>

\* releaseByPlugin: the plugin of r stops, with the browser it holds, if any.
StopPlugin(t, r) ==
  LET mine == {q \in Requests : Plugin[q] = Plugin[r]}
      held == {b \in Present : entry[b].holder \in mine}
  IN /\ "plugin" \in Jobs
     /\ \/ \E b \in held :
             Run(t, Job(mine, b, "idle"), <<"return", "cancelPlugin", "peek">>)
        \/ /\ held = {}
           /\ task' = [task EXCEPT ![t] = [NoTask EXCEPT !.pc = "cancelPlugin",
                                                         !.aim = mine]]
     /\ UNCHANGED <<queue, stopped, phase>>

CancelPlugin(t) ==
  /\ At(t, "cancelPlugin")
  /\ LET R == {r \in task[t].aim : phase[r] = "waiting"}
     IN /\ Fail(R)
        /\ CancelWaiting(R)
  /\ Resume(t)
  /\ UNCHANGED <<poolVars, stopped, handle, revoked>>

\* Browsers to destroy one after the other.
DestroyAll(t, B) ==
  \/ /\ B = {}
     /\ UNCHANGED task
  \/ \E b \in B :
       task' = [task EXCEPT ![t] = [Job({}, b, "destroy") EXCEPT
                                      !.aim = Requests, !.todo = B \ {b}]]

\* destroyProfileBrowsers
DestroyProfile(t, s) ==
  /\ "profile" \in Jobs
  /\ Fail(ToSet(queue[s]))
  /\ queue' = [queue EXCEPT ![s] = <<>>]
  /\ DestroyAll(t, Of(s))
  /\ UNCHANGED stopped

Stop(t) ==
  /\ "stop" \in Jobs
  /\ stopped' = TRUE
  /\ Fail(UNION {ToSet(queue[s]) : s \in Sessions})
  /\ queue' = [s \in Sessions |-> <<>>]
  /\ DestroyAll(t, Present)

StartJob(t) ==
  /\ Turn
  /\ At(t, "idle")
  /\ ~stopped
  /\ \/ \E b \in Browsers : StartDestroy(t, b) \/ Sweep(t, b) \/ Evict(t, b)
     \/ \E r \in Requests : StopPlugin(t, r)
     \/ \E s \in Sessions : DestroyProfile(t, s)
     \/ Stop(t)
  /\ UNCHANGED <<poolVars, handle, revoked>>

\* takeoverLockedBrowser / adoptSamePluginLockedBrowser
Takeover(r) ==
  /\ Turn
  /\ phase[r] = "new"
  /\ r \in Takers
  /\ ~stopped
  /\ \E b \in Of(Session[r]) :
       /\ Status(b) = "locked" /\ entry[b].holder # None
       /\ task' = [task EXCEPT ![r] = [Job({entry[b].holder}, b, "seize") EXCEPT
                                         !.req = r]]
  /\ phase' = [phase EXCEPT ![r] = "calling"]
  /\ UNCHANGED <<poolVars, queue, stopped, handle, revoked>>

Seize(t) ==
  /\ At(t, "seize")
  /\ LET b == task[t].br
     IN \/ /\ Ready(b)
           /\ Becomes(b, LockedBy(t))
           /\ Reclaim(t, b)
           /\ Resolve(t, b)
        \/ /\ ~Ready(b)
           /\ Fail({t})
           /\ UNCHANGED <<entry, handle, revoked>>
  /\ task' = [task EXCEPT ![t] = NoTask]
  /\ UNCHANGED <<home, life, reap, cancelled, destroying, semaphore, queue,
                 stopped>>

-----------------------------------------------------------------------------

\* The next step of a thread that is running.
Advance(t) ==
  \/ Reuse(t) \/ Lock(t) \/ Create(t) \/ GetPermit(t) \/ Place(t)
  \/ AwaitFactory(t) \/ Finish(t) \/ Discard(t) \/ Abandon(t)
  \/ Peek(t) \/ Lookup(t) \/ Dequeue(t)
  \/ Take(t) \/ Check(t) \/ Clean(t) \/ Hand(t) \/ Refuse(t)
  \/ Return(t) \/ Reset(t) \/ Settle(t)
  \/ Destroy(t) \/ Destroyer(t) \/ Destroyed(t) \/ Report(t)
  \/ CancelPlugin(t) \/ Later(t)

Caller(r) ==
  \/ Acquire(r) \/ Takeover(r) \/ Seize(r)
  \/ Enqueue(r) \/ GiveUp(r) \/ BuildHandle(r)

FewAtWork == Cardinality({t \in Workers : ~At(t, "idle")}) < AtOnce

Next ==
  /\ UNCHANGED scene
  /\ \/ \E r \in Requests : Caller(r)
     \/ \E t \in Threads : Advance(t)
     \/ FewAtWork /\ \E t \in Workers : StartJob(t) \/ \E r \in Requests : Release(t, r)
     \/ \E b \in Browsers : Launch(b) \/ ReapCreated(b)

Spec == Init /\ [][Next]_vars

\* Every call in progress goes on (the mutexes and the semaphore serve in order,
\* the factory has a time limit, resets and destroyers return), wait timers
\* fire, and factories end: the event loop gets to every timer and every result.
\* Nobody has to call, release or start a job.
Fairness ==
  /\ \A t \in Threads : SF_vars(UNCHANGED scene /\ Advance(t))
  /\ \A r \in Requests :
       SF_vars(UNCHANGED scene /\ (Enqueue(r) \/ Seize(r) \/ BuildHandle(r) \/ GiveUp(r)))
  /\ \A b \in Browsers : SF_vars(UNCHANGED scene /\ (Launch(b) \/ ReapCreated(b)))

FairSpec == Spec /\ Fairness

-----------------------------------------------------------------------------
(* Properties.                                                             *)

Lives == {"none", "starting", "running", "refused", "gone"}
Phases == {"new", "calling", "waiting", "served", "resolved", "granted",
           "released", "failed"}

\* Every variable has its type; a thread at a step has what the step works on.
\* (The maps of GlobalPool and WaitQueue, and the locals of the async calls.)
TypeOK ==
  /\ scene \in Scenes
  /\ entry \in [Browsers ->
                [status : {"none", "creating", "idle", "locked", "destroying"},
                 holder : Requests \cup {None}]]
  /\ home \in [Browsers -> Sessions \cup {None}]
  /\ life \in [Browsers -> Lives]
  /\ reap \in [Browsers -> SUBSET {"timeout", "destroy"}]
  /\ cancelled \subseteq Browsers
  /\ destroying \in [Sessions -> Nat]
  /\ permits \in 0..MaxCreating
  /\ line \in Seq(Threads)
  /\ queue \in [Sessions -> Seq(Requests)]
  /\ stopped \in BOOLEAN
  /\ phase \in [Requests -> Phases]
  /\ handle \in [Requests -> Browsers \cup {None}]
  /\ \A t \in Threads : /\ task[t].pc \in Steps
                        /\ task[t].br \in Browsers \cup {None}
                        /\ task[t].req \in Requests \cup {None}
                        /\ task[t].owed \in Requests \cup {None}
                        /\ task[t].aim \subseteq Requests
  /\ revoked \subseteq Requests

\* Single-instance rule: a session never has two live or starting instances, the
\* ones being destroyed included (createBrowser, destroyBrowser); unless a factory
\* outlives its time limit, or stop() has taken a browser out of the map that its
\* creator is about to destroy.
Alive(b) == life[b] \in {"starting", "running"}
Discarded(b) == \E t \in Threads : At(t, "discard") /\ task[t].br = b
OneLiveInstance ==
  "slow" \notin Hazards =>
    \A a, b \in Browsers : Alive(a) /\ Alive(b) /\ home[a] = home[b] =>
      a = b \/ Discarded(a) \/ Discarded(b)

\* Nothing is going on in the pool.
Quiet ==
  /\ \A t \in Threads : At(t, "idle")
  /\ \A b \in Browsers : reap[b] = {} /\ life[b] # "starting"

\* When nothing is going on, nothing is left behind: the pool's entries are
\* exactly the live instances, all idle or locked, no destruction is counted, no
\* creation cancelled and every permit is back (createBrowser, destroyBrowser).
NothingLeftBehind ==
  Quiet =>
    /\ \A b \in Browsers : IF Ready(b) THEN life[b] = "running"
                           ELSE Status(b) = "none" /\ ~Alive(b)
    /\ \A s \in Sessions : destroying[s] = 0
    /\ cancelled = {}
    /\ permits = MaxCreating

\* No request holds a browser while the release of it is still resetting it.
ResetUndisturbed ==
  \A t \in Threads : At(t, "reset") => entry[task[t].br].holder = None

\* A request that has its handle holds the browser's lock until it releases it
\* or a job that aims at it takes the lock away.
HandleHoldsLock == \A r \in Requests :
  phase[r] = "granted" /\ r \notin revoked => entry[handle[r]] = LockedBy(r)

\* Every lock belongs to a request that has its handle, so that somebody is there
\* to release it.
LocksHaveHandles == \A b \in Browsers : Status(b) = "locked" =>
  \E r \in Requests : /\ entry[b] = LockedBy(r)
                      /\ phase[r] \in {"resolved", "granted"}
                      /\ handle[r] = b

\* Handles and locks agree.  One job at a time leaves a reset alone.  Requests that
\* are served in their turn keep their locks, unless somebody takes a browser over
\* while it is on its way to a waiter, or a job comes to a browser late; and no lock
\* is left without a handle when nothing is going on, unless a lookup throws on the
\* way to a waiter.  Not so when two jobs serve one queue, or a request gives up or
\* is overtaken: process() has then locked for another request than it answers
\* (lockBrowser, handoffLock, releaseBrowser, process, evictIdleTimeout).
Orderly ==
  /\ AtOnce = 1 /\ Impatient = {}
  /\ \A q, r \in Requests : Session[q] = Session[r] => Prio[q] = Prio[r]
LocksMatchHandles ==
  /\ AtOnce = 1 => ResetUndisturbed
  /\ Orderly /\ Takers = {} /\ "batch" \notin Hazards => HandleHoldsLock
  /\ Orderly /\ "lookup" \notin Hazards /\ Quiet => LocksHaveHandles

\* When nothing is going on, nobody waits for a browser that is idle: a request
\* enters the wait queue when no browser is available (acquire, release).
NobodyWaitsForIdle ==
  Quiet => \A b \in Browsers : Status(b) = "idle" => queue[home[b]] = <<>>

\* No wake-up is lost: when nothing is going on, a session with waiters has a
\* browser, and it is not idle.  Not so when a browser is destroyed under its
\* creator, when a creation or a lookup fails, when a waiter finds its profile
\* deleted, or when a session waits for the place of another or, to create its
\* browser, for the permit of another: these leave a request queued with nobody to
\* serve it (release, destroyBrowser, process, checkLockTimeout, releaseByPlugin).
Smooth ==
  /\ Jobs \cap {"destroy", "profile"} = {} /\ Hazards \subseteq {"batch", "reset"}
  /\ LET asked == {Session[r] : r \in Requests}
     IN Cardinality(asked) <= MaxBrowsers /\ Cardinality(asked) <= MaxCreating
NoLostWakeup ==
  Smooth /\ Quiet =>
    /\ ~stopped => \A s \in Sessions : queue[s] # <<>> => Of(s) # {}
    /\ NobodyWaitsForIdle

\* Every acquire is answered.
Asking(r) == phase[r] \in {"calling", "waiting", "served", "resolved"}
AcquireAnswered == \A r \in Requests : Asking(r) ~> ~Asking(r)

=============================================================================
