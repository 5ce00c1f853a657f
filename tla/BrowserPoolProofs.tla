--------------------------- MODULE BrowserPoolProofs ---------------------------
(***************************************************************************)
(* The instances, the handles and the locks of the browser pool, for every *)
(* set of requests, workers, browsers and profiles, and every scene.       *)
(*                                                                         *)
(* A browser is tied to its profile by its entry in the map or by a        *)
(* destruction that waits for its factory; one browser at most is tied to  *)
(* a profile (OneTied), because a placeholder is made only when there is   *)
(* no entry and no destruction is counted, and the counts are right        *)
(* (Books).  MakerOK, KillerOK and BrowserOK say who will deal with an     *)
(* entry, an instance or a clean-up that is not settled: the thread that   *)
(* creates or destroys it, or the promise of its factory.                  *)
(*                                                                         *)
(* A second invariant, Order, says whose call a thread makes and which     *)
(* waiter it owes an answer (Calls), and, with one job at a time, which    *)
(* locks are on their way to a handle and which job may clear one (Locks). *)
(* LineInv, that the semaphore's line holds all who wait for a permit,     *)
(* completes the types.                                                    *)
(***************************************************************************)
EXTENDS BrowserPool, TLAPS, FiniteSetTheorems, SequenceTheorems

Fields == {"pc", "sess", "req", "br", "tries", "owed", "aim", "then", "todo"}

\* What a job still has to do, at its steps, and before it has begun.
Plans == {<<>>, <<"peek">>, <<"refuse">>, <<"create">>, <<"cancelPlugin", "peek">>}
Batched == {<<"return", "peek">>, <<"destroy">>, <<"return", "cancelPlugin", "peek">>}

\* The steps that work on a browser.
Named == {"lock", "starting", "finish", "discard", "lockNew", "dequeue", "take", "check",
          "clean", "hand", "return", "reset", "settle", "destroy", "destroyer", "destroyed",
          "later", "seize"}
Nowhere(t) == At(t, "idle") \/ (At(t, "cancelPlugin") /\ task[t].then = <<>> /\ task[t].todo = {})

ThreadOK(t) ==
  /\ DOMAIN task[t] = Fields
  /\ task[t].pc \in Steps
  /\ task[t].then \in (IF At(t, "later") THEN Batched ELSE Plans)
  /\ task[t].todo \subseteq Browsers
  /\ task[t].br \in Browsers \cup {None}
  /\ task[t].pc \in Named => task[t].br \in Browsers
  /\ task[t].sess \in Sessions \/ Nowhere(t)

Statuses == {"none", "creating", "idle", "locked", "destroying"}
ThreadsInv ==
  /\ scene \in Scenes
  /\ DOMAIN task = Threads /\ \A t \in Threads : ThreadOK(t)
  /\ phase \in [Requests -> Phases] /\ handle \in [Requests -> Browsers \cup {None}]
  /\ \A r \in Requests :
       /\ phase[r] = "new" => At(r, "idle")
       /\ phase[r] \in {"resolved", "granted", "released"} => handle[r] \in Browsers
  /\ DOMAIN entry = Browsers /\ \A b \in Browsers : Status(b) \in Statuses
  /\ home \in [Browsers -> Sessions \cup {None}]
  /\ \A b \in Browsers : Status(b) # "none" => home[b] \in Sessions

\* Who creates a browser, from its placeholder to the end of its clean-up; who has a
\* permit; who destroys a browser.
Making == {"starting", "finish", "discard", "abandon", "abort"}
Giving == {"abandon", "abort"}
Killing == {"destroyer", "destroyed"}
Permitted == Making \cup {"place"}
Plain == Steps \ (Permitted \cup Killing)

Makes(t, b) == task[t].pc \in Making /\ task[t].br = b
Kills(t, b) == task[t].pc \in Killing /\ task[t].br = b

Creation(t, b) ==
  /\ Status(b) \in {"creating", "none"}
  /\ task[t].pc \in {"starting", "finish"} =>
       /\ "timeout" \notin reap[b]
       /\ Status(b) = "creating" \/ "destroy" \in reap[b]
  /\ At(t, "starting") => life[b] \in {"starting", "running", "refused"}
  /\ task[t].pc \in {"finish", "discard"} => life[b] = "running"
  /\ At(t, "discard") => reap[b] = {} /\ Status(b) = "none" /\ stopped
  /\ task[t].pc \in Giving => life[b] \in {"refused", "gone"} \/ reap[b] # {}
  /\ \A u \in Threads : Makes(u, b) => u = t
MakerOK(t) == \A b \in Browsers : Makes(t, b) => Creation(t, b)

Destruction(t, b) ==
  /\ home[b] \in Sessions /\ reap[b] = {}
  /\ Status(b) = "destroying" \/ (Status(b) = "none" /\ life[b] = "gone")
  /\ At(t, "destroyed") => life[b] = "gone"
KillerOK(t) == \A b \in Browsers : Kills(t, b) => Destruction(t, b)

BrowserOK(b) ==
  /\ Status(b) = "creating" =>
       /\ \E t \in Threads : Makes(t, b)
       /\ life[b] # "gone" /\ life[b] # "none" /\ "destroy" \notin reap[b]
  /\ Ready(b) => life[b] = "running" /\ reap[b] = {}
  /\ Status(b) = "destroying" =>
       /\ \E t \in Threads : Kills(t, b)
       /\ life[b] \in {"running", "gone"} /\ reap[b] = {}
  /\ reap[b] # {} =>
       /\ home[b] \in Sessions
       /\ Status(b) = "none" \/ \E t \in Threads : Makes(t, b) /\ task[t].pc \in Giving
  /\ Alive(b) => \/ Status(b) # "none" \/ reap[b] # {}
                 \/ \E t \in Threads : Makes(t, b) /\ At(t, "discard")
  /\ "timeout" \in reap[b] => "slow" \in Hazards

LivesInv ==
  /\ life \in [Browsers -> Lives]
  /\ reap \in [Browsers -> SUBSET {"timeout", "destroy"}]
  /\ cancelled = {b \in Browsers : "destroy" \in reap[b]}
  /\ \A t \in Threads : MakerOK(t) /\ KillerOK(t)
  /\ \A b \in Browsers : BrowserOK(b)

\* What is counted: the permits in use, and the destructions of a profile.
Holders == {t \in Threads : task[t].pc \in Permitted}
Reaping(s) == {b \in Browsers : "destroy" \in reap[b] /\ home[b] = s}
Killers(s) == {t \in Threads : task[t].pc \in Killing /\ home[task[t].br] = s}
Books ==
  /\ IsFiniteSet(Holders) /\ permits \in Nat
  /\ permits + Cardinality(Holders) = MaxCreating
  /\ destroying \in [Sessions -> Nat]
  /\ \A s \in Sessions :
       /\ IsFiniteSet(Reaping(s)) /\ IsFiniteSet(Killers(s))
       /\ destroying[s] = Cardinality(Reaping(s)) + Cardinality(Killers(s))

Tied(b) == Status(b) # "none" \/ "destroy" \in reap[b]
OneTied == \A a, b \in Browsers : Tied(a) /\ Tied(b) /\ home[a] = home[b] => a = b

Inv == ThreadsInv /\ LivesInv /\ Books /\ OneTied
-----------------------------------------------------------------------------
(* Threads.                                                                *)

USE DEF At, Goto, GotoWith, Threads, Fields

Others(t) == DOMAIN task' = Threads /\ \A u \in Threads \ {t} : task'[u] = task[u]

\* What may follow at once.
Follow == {"idle", "peek", "refuse", "create", "cancelPlugin", "return", "destroy"}

LEMMA PlanFacts ==
  /\ \A p \in Plans : p # <<>> => Head(p) \in {"peek", "refuse", "create", "cancelPlugin"}
                                 /\ Tail(p) \in Plans
  /\ \A p \in Batched : p # <<>> /\ Head(p) \in {"return", "destroy"} /\ Tail(p) \in Plans
  /\ <<>> \in Plans /\ <<"peek">> \in Plans /\ <<"refuse">> \in Plans /\ <<"create">> \in Plans
<1>1. /\ Head(<<"peek">>) = "peek" /\ Tail(<<"peek">>) = <<>> /\ <<"peek">> # <<>>
      /\ Head(<<"refuse">>) = "refuse" /\ Tail(<<"refuse">>) = <<>>
      /\ Head(<<"create">>) = "create" /\ Tail(<<"create">>) = <<>>
      /\ Head(<<"destroy">>) = "destroy" /\ Tail(<<"destroy">>) = <<>> /\ <<"destroy">> # <<>>
  OBVIOUS
<1>2. /\ Head(<<"cancelPlugin", "peek">>) = "cancelPlugin"
      /\ Tail(<<"cancelPlugin", "peek">>) = <<"peek">>
      /\ Head(<<"return", "peek">>) = "return" /\ Tail(<<"return", "peek">>) = <<"peek">>
      /\ <<"return", "peek">> # <<>>
  OBVIOUS
<1>3. /\ Head(<<"return", "cancelPlugin", "peek">>) = "return"
      /\ Tail(<<"return", "cancelPlugin", "peek">>) = <<"cancelPlugin", "peek">>
      /\ <<"return", "cancelPlugin", "peek">> # <<>>
  OBVIOUS
<1> QED
  BY <1>1, <1>2, <1>3 DEF Plans, Batched

LEMMA NoTaskOK ==
  /\ DOMAIN NoTask = Fields /\ NoTask.pc = "idle" /\ NoTask.then = <<>> /\ NoTask.todo = {}
  /\ NoTask.br = None /\ NoTask.sess = None
BY DEF NoTask

LEMMA ResumeOK ==
  ASSUME ThreadsInv, NEW t \in Threads, ~At(t, "idle"), Resume(t)
  PROVE  Others(t) /\ ThreadOK(t)' /\ task'[t].pc \in Follow
<1>t. DOMAIN task = Threads /\ ThreadOK(t)
  BY DEF ThreadsInv
<1> DEFINE k == task[t]
<1>1. CASE k.then # <<>>
  <2>1. task' = [task EXCEPT ![t].pc = Head(k.then), ![t].then = Tail(k.then),
                             ![t].tries = 0, ![t].req = k.owed]
    BY <1>1 DEF Resume
  <2>2. /\ Others(t) /\ DOMAIN task'[t] = Fields /\ task'[t].pc = Head(k.then)
        /\ task'[t].then = Tail(k.then) /\ task'[t].todo = k.todo /\ task'[t].br = k.br
        /\ task'[t].sess = k.sess
    BY <2>1, <1>t DEF Others, ThreadOK
  <2>3. /\ Tail(k.then) \in Plans /\ Head(k.then) \in Follow /\ Head(k.then) # "later"
        /\ Head(k.then) \in Named => At(t, "later")
    BY <1>1, <1>t, PlanFacts DEF ThreadOK, Follow, Named
  <2>4. k.sess \in Sessions
    BY <1>1, <1>t, <2>3 DEF ThreadOK, Nowhere, Plans, Batched
  <2> QED
    BY <2>2, <2>3, <2>4, <1>t DEF ThreadOK, Follow, Steps, Named
<1>2. CASE k.then = <<>> /\ k.todo # {}
  <2>1. PICK b \in k.todo : task' = [task EXCEPT ![t].pc = "destroy", ![t].br = b,
                                                 ![t].todo = @ \ {b}]
    BY <1>2 DEF Resume
  <2>2. /\ Others(t) /\ DOMAIN task'[t] = Fields /\ task'[t].pc = "destroy"
        /\ task'[t].then = k.then /\ task'[t].todo = k.todo \ {b} /\ task'[t].br = b
        /\ task'[t].sess = k.sess
    BY <2>1, <1>t DEF Others, ThreadOK
  <2>3. k.then \in Plans /\ b \in Browsers
    BY <1>2, <1>t, PlanFacts DEF ThreadOK
  <2> QED
    BY <2>2, <2>3, <1>t DEF ThreadOK, Steps, Follow, Nowhere
<1>3. CASE k.then = <<>> /\ k.todo = {}
  <2>1. task' = [task EXCEPT ![t] = NoTask]
    BY <1>3 DEF Resume
  <2>2. Others(t) /\ task'[t] = NoTask
    BY <2>1, <1>t DEF Others
  <2> QED
    BY <2>2, NoTaskOK, PlanFacts DEF ThreadOK, Steps, Follow, Nowhere, Named
<1> QED
  BY <1>1, <1>2, <1>3

\* The call of t is on its way, and goes to another of its steps.
Busy(t) == task[t].pc \notin {"idle", "later", "cancelPlugin"}

LEMMA GotoOK ==
  ASSUME ThreadsInv, NEW t \in Threads, Busy(t), NEW p \in Steps \ {"idle", "later"},
         p \in Named => task[t].br \in Browsers, Goto(t, p)
  PROVE  Others(t) /\ ThreadOK(t)' /\ task'[t].pc = p /\ task'[t].br = task[t].br
<1>t. DOMAIN task = Threads /\ ThreadOK(t)
  BY DEF ThreadsInv
<1>1. /\ Others(t) /\ DOMAIN task'[t] = Fields /\ task'[t].pc = p
      /\ task'[t].then = task[t].then /\ task'[t].todo = task[t].todo
      /\ task'[t].br = task[t].br /\ task'[t].sess = task[t].sess
  BY <1>t DEF Others, ThreadOK
<1> QED
  BY <1>t, <1>1 DEF ThreadOK, Nowhere, Busy

LEMMA GotoWithOK ==
  ASSUME ThreadsInv, NEW t \in Threads, Busy(t), NEW p \in Steps \ {"idle", "later"},
         NEW b \in Browsers \cup {None}, p \in Named => b \in Browsers, GotoWith(t, p, b)
  PROVE  Others(t) /\ ThreadOK(t)' /\ task'[t].pc = p /\ task'[t].br = b
<1>t. DOMAIN task = Threads /\ ThreadOK(t)
  BY DEF ThreadsInv
<1>1. /\ Others(t) /\ DOMAIN task'[t] = Fields /\ task'[t].pc = p
      /\ task'[t].then = task[t].then /\ task'[t].todo = task[t].todo
      /\ task'[t].br = b /\ task'[t].sess = task[t].sess
  BY <1>t DEF Others, ThreadOK
<1> QED
  BY <1>t, <1>1 DEF ThreadOK, Nowhere, Busy

LEMMA StepNames ==
  /\ Steps \ {"idle", "later"} = Steps \ {"later", "idle"}
  /\ {"reuse", "create", "permit", "place", "abandon", "abort", "enqueue", "peek", "lookup", "refuse",
      "report"} \subseteq (Steps \ {"idle", "later"}) \ Named
  /\ Named \ {"later"} \subseteq Steps \ {"idle", "later"}
  /\ {"lock", "starting", "finish", "discard", "lockNew", "dequeue", "take", "check", "clean",
      "hand", "return", "reset", "settle", "destroy", "destroyer", "destroyed", "seize"}
     \subseteq Named \ {"later"}
BY DEF Steps, Named

LEMMA EndOK ==
  ASSUME ThreadsInv, NEW t \in Threads, task' = [task EXCEPT ![t] = NoTask]
  PROVE  Others(t) /\ ThreadOK(t)' /\ task'[t].pc = "idle"
<1>1. Others(t) /\ task'[t] = NoTask
  BY DEF ThreadsInv, Others
<1> QED
  BY <1>1, NoTaskOK, PlanFacts DEF ThreadOK, Steps, Nowhere, Named

\* What an acquire may learn, and what may become of an entry, in most steps.
PhaseStep ==
  /\ phase' \in [Requests -> Phases] /\ handle' \in [Requests -> Browsers \cup {None}]
  /\ \A r \in Requests :
       /\ phase'[r] = "new" => phase[r] = "new"
       /\ phase'[r] \in {"resolved", "granted", "released"} => handle'[r] \in Browsers
EntryStep ==
  /\ DOMAIN entry' = Browsers
  /\ \A b \in Browsers : Status(b)' = Status(b) \/ (Ready(b) /\ Ready(b)')
Moved(t) == /\ Others(t) /\ ThreadOK(t)'
            /\ \/ ~At(t, "idle") \/ t \notin Requests
               \/ phase'[t] # "new"

LEMMA FailOK ==
  ASSUME ThreadsInv, NEW R, Fail(R), handle' = handle
  PROVE  PhaseStep
BY DEF ThreadsInv, Fail, PhaseStep, Phases

LEMMA ResolveOK ==
  ASSUME ThreadsInv, NEW r, NEW b \in Browsers, Resolve(r, b)
  PROVE  PhaseStep
BY DEF ThreadsInv, Resolve, PhaseStep, Phases

LEMMA SamePhase ==
  ASSUME ThreadsInv, phase' = phase, handle' = handle
  PROVE  PhaseStep
BY DEF ThreadsInv, PhaseStep

LEMMA SameEntry ==
  ASSUME ThreadsInv, entry' = entry
  PROVE  EntryStep
BY DEF ThreadsInv, EntryStep, Status

\* A ready browser stays ready.
LEMMA ReadyEntry ==
  ASSUME ThreadsInv, NEW b \in Browsers, Ready(b), NEW e, e.status \in {"idle", "locked"},
         Becomes(b, e)
  PROVE  EntryStep
BY DEF ThreadsInv, EntryStep, Becomes, Status, Ready

\* The types, when an entry comes or goes.
LEMMA ThreadsFocus ==
  ASSUME ThreadsInv, scene' = scene, PhaseStep, DOMAIN entry' = Browsers,
         \A b \in Browsers : Status(b)' \in Statuses /\ (Status(b)' # "none" => home'[b] \in Sessions),
         home' \in [Browsers -> Sessions \cup {None}],
         task' = task \/ \E t \in Threads : Moved(t)
  PROVE  ThreadsInv'
<1>1. DOMAIN task' = Threads /\ (\A u \in Threads : ThreadOK(u)')
      /\ \A r \in Requests : phase'[r] = "new" => task'[r].pc = "idle"
  <2>1. CASE task' = task
    BY <2>1 DEF ThreadsInv, PhaseStep, ThreadOK, Nowhere
  <2>2. ASSUME NEW t \in Threads, Moved(t)
        PROVE  DOMAIN task' = Threads /\ (\A u \in Threads : ThreadOK(u)')
               /\ \A r \in Requests : phase'[r] = "new" => task'[r].pc = "idle"
    <3>1. \A u \in Threads : ThreadOK(u)'
      BY <2>2 DEF Moved, Others, ThreadsInv, ThreadOK, Nowhere
    <3>2. \A r \in Requests : phase'[r] = "new" => task'[r].pc = "idle"
      BY <2>2 DEF Moved, Others, ThreadsInv, PhaseStep
    <3> QED
      BY <2>2, <3>1, <3>2 DEF Moved, Others
  <2> QED
    BY <2>1, <2>2
<1> QED
  BY <1>1 DEF ThreadsInv, PhaseStep

LEMMA ThreadsKept ==
  ASSUME ThreadsInv, scene' = scene, PhaseStep, EntryStep, home' = home,
         task' = task \/ \E t \in Threads : Moved(t)
  PROVE  ThreadsInv'
<1>1. /\ DOMAIN entry' = Browsers /\ home' \in [Browsers -> Sessions \cup {None}]
      /\ \A b \in Browsers : Status(b)' \in Statuses /\ (Status(b)' # "none" => home'[b] \in Sessions)
  BY DEF ThreadsInv, EntryStep, Statuses, Status, Ready
<1> QED
  BY <1>1, ThreadsFocus

\* The counts and the instances are left alone.
PoolSame ==
  /\ UNCHANGED <<scene, home, life, reap, cancelled, destroying, permits>>
  /\ stopped => stopped'
PlainMoves == \A t \in Threads :
  \/ task'[t] = task[t]
  \/ task[t].pc \in Plain /\ task'[t].pc \in Plain

LEMMA PlainOK ==
  ASSUME Inv, PoolSame, EntryStep, PlainMoves
  PROVE  LivesInv' /\ Books' /\ OneTied'
<1>1. \A t \in Threads : /\ task'[t].pc \in Permitted \cup Killing => task'[t] = task[t]
                         /\ task[t].pc \in Permitted \cup Killing => task'[t] = task[t]
  BY DEF PlainMoves, Plain
<1>2. \A t \in Threads : \A b \in Browsers : /\ Makes(t, b)' <=> Makes(t, b)
                                             /\ Kills(t, b)' <=> Kills(t, b)
  BY <1>1 DEF Makes, Kills, Permitted
<1>3. \A t \in Threads : \A p \in Permitted \cup Killing : At(t, p)' <=> At(t, p)
  BY <1>1
<1>4. \A b \in Browsers : /\ Status(b)' = Status(b) \/ (Ready(b) /\ Ready(b)')
                          /\ Status(b)' \in {"none", "creating", "destroying"} => Status(b)' = Status(b)
                          /\ Status(b) \in {"none", "creating", "destroying"} => Status(b)' = Status(b)
                          /\ Ready(b)' => Ready(b)
  BY DEF EntryStep, Ready, Status
<1>5. \A t \in Threads : MakerOK(t)'
  BY <1>2, <1>3, <1>4 DEF Inv, LivesInv, MakerOK, Creation, PoolSame, Making, Permitted, Giving, Makes
<1>6. \A t \in Threads : KillerOK(t)'
  BY <1>2, <1>3, <1>4 DEF Inv, LivesInv, KillerOK, Destruction, PoolSame, Killing, Kills
<1>7. \A b \in Browsers : BrowserOK(b)'
  <2> SUFFICES ASSUME NEW b \in Browsers PROVE BrowserOK(b)'
    OBVIOUS
  <2>0. BrowserOK(b) /\ UNCHANGED <<home, life, reap, scene>>
    BY DEF Inv, LivesInv, PoolSame
  <2>1. (\E t \in Threads : Makes(t, b)) => \E t \in Threads : Makes(t, b)'
    BY <1>2
  <2>2. (\E t \in Threads : Kills(t, b)) => \E t \in Threads : Kills(t, b)'
    BY <1>2
  <2>3. (\E t \in Threads : Makes(t, b) /\ At(t, "discard"))
        => \E t \in Threads : Makes(t, b)' /\ At(t, "discard")'
    BY <1>2, <1>3 DEF Permitted, Making
  <2>4. (\E t \in Threads : Makes(t, b) /\ task[t].pc \in Giving)
        => \E t \in Threads : Makes(t, b)' /\ task'[t].pc \in Giving
    BY <1>2, <1>3 DEF Permitted, Making, Giving
  <2>5. Status(b)' = Status(b) \/ (Ready(b) /\ Ready(b)' /\ Status(b) \notin {"none", "creating", "destroying"}
                                   /\ Status(b)' \notin {"none", "creating", "destroying"})
    BY <1>4 DEF Ready
  <2> QED
    BY <2>0, <2>1, <2>2, <2>3, <2>4, <2>5 DEF BrowserOK, Alive, Ready, Hazards
<1>8. Books'
  <2>1. Holders' = Holders
    BY <1>1 DEF Holders
  <2>2. \A s \in Sessions : Reaping(s)' = Reaping(s) /\ Killers(s)' = Killers(s)
    BY <1>1 DEF Reaping, Killers, PoolSame
  <2> QED
    BY <2>1, <2>2 DEF Inv, Books, PoolSame
<1>9. OneTied'
  BY <1>4 DEF Inv, OneTied, Tied, PoolSame, Ready
<1> QED
  BY <1>5, <1>6, <1>7, <1>8, <1>9 DEF Inv, LivesInv, PoolSame

PlainBy(t) ==
  /\ PhaseStep /\ EntryStep /\ PoolSame /\ Moved(t)
  /\ task[t].pc \in Plain /\ task'[t].pc \in Plain
PlainStep ==
  \/ \E t \in Threads : PlainBy(t)
  \/ PhaseStep /\ EntryStep /\ PoolSame /\ task' = task

LEMMA PlainStepOK == Inv /\ PlainStep => Inv'
<1> SUFFICES ASSUME Inv, PlainStep PROVE Inv'
  OBVIOUS
<1>1. PhaseStep /\ EntryStep /\ PoolSame /\ PlainMoves /\ (task' = task \/ \E t \in Threads : Moved(t))
  BY DEF PlainStep, PlainBy, PlainMoves, Moved, Others
<1> QED
  BY <1>1, PlainOK, ThreadsKept DEF Inv, PoolSame
-----------------------------------------------------------------------------
(* The steps that neither make nor destroy a browser.                      *)

USE DEF poolVars, callVars, semaphore

LEMMA Kinds ==
  /\ Follow \subseteq Plain /\ Follow \subseteq Steps /\ Permitted \cup Killing \subseteq Steps
  /\ {"idle", "reuse", "lock", "lockNew", "create", "permit", "enqueue", "peek", "lookup", "dequeue",
      "take", "check", "clean", "hand", "refuse", "return", "reset", "settle", "destroy",
      "report", "cancelPlugin", "later", "seize"} \subseteq Plain
BY DEF Follow, Plain, Steps, Permitted, Killing, Making

LEMMA PassOK ==
  ASSUME ThreadsInv, NEW t \in Threads, ~At(t, "later"), ~At(t, "idle"), ~At(t, "cancelPlugin"),
         NextPass(t)
  PROVE  Others(t) /\ ThreadOK(t)' /\ task'[t].pc = "peek"
<1>1. /\ Others(t) /\ DOMAIN task'[t] = Fields /\ task'[t].pc = "peek"
      /\ task'[t].then = task[t].then /\ task'[t].todo = task[t].todo
      /\ task'[t].br = task[t].br /\ task'[t].sess = task[t].sess
  BY DEF ThreadsInv, ThreadOK, NextPass, Others
<1> QED
  BY <1>1 DEF ThreadsInv, ThreadOK, Nowhere, Steps, Named

LEMMA ObtainedOK ==
  ASSUME ThreadsInv, NEW t \in Threads, Busy(t), NEW b \in Browsers, task[t].br = b,
         Obtained(t, b)
  PROVE  PhaseStep /\ Moved(t) /\ task'[t].pc \in Follow \cup {"dequeue"}
<1>1. CASE Own(t)
  <2>1. Resolve(t, b) /\ task' = [task EXCEPT ![t] = NoTask]
    BY <1>1 DEF Obtained
  <2> QED
    BY <2>1, EndOK, ResolveOK DEF Moved, Follow, Busy
<1>2. CASE ~Own(t) /\ Owing(t)
  <2>1. Resolve(task[t].owed, b) /\ Resume(t)
    BY <1>2 DEF Obtained
  <2> QED
    BY <2>1, ResumeOK, ResolveOK DEF Moved, Busy
<1>3. CASE ~Own(t) /\ ~Owing(t)
  <2>1. Goto(t, "dequeue") /\ phase' = phase /\ handle' = handle
    BY <1>3 DEF Obtained
  <2>2. Others(t) /\ ThreadOK(t)' /\ task'[t].pc = "dequeue"
    BY <2>1, GotoOK, StepNames
  <2> QED
    BY <2>1, <2>2, SamePhase DEF Moved, Busy
<1> QED
  BY <1>1, <1>2, <1>3

LEMMA UnobtainedOK ==
  ASSUME ThreadsInv, NEW t \in Threads, Busy(t), Unobtained(t), handle' = handle
  PROVE  PhaseStep /\ Moved(t) /\ task'[t].pc \in Follow \cup {"enqueue"}
<1>1. CASE Own(t)
  <2>1. Goto(t, "enqueue") /\ phase' = phase
    BY <1>1 DEF Unobtained
  <2>2. task[t].br \in Browsers \cup {None}
    BY DEF ThreadsInv, ThreadOK
  <2>3. Others(t) /\ ThreadOK(t)' /\ task'[t].pc = "enqueue"
    BY <2>1, <2>2, GotoOK, StepNames
  <2> QED
    BY <2>1, <2>3, SamePhase DEF Moved, Busy
<1>2. CASE ~Own(t) /\ Owing(t)
  <2>1. Fail({task[t].owed}) /\ Resume(t)
    BY <1>2 DEF Unobtained
  <2> QED
    BY <2>1, ResumeOK, FailOK DEF Moved, Busy
<1>3. CASE ~Own(t) /\ ~Owing(t)
  <2>1. NextPass(t) /\ phase' = phase
    BY <1>3 DEF Unobtained
  <2> QED
    BY <2>1, PassOK, SamePhase DEF Moved, Busy, Follow
<1> QED
  BY <1>1, <1>2, <1>3

LEMMA ReuseOK == ASSUME Inv, NEW t \in Threads, scene' = scene, Reuse(t) PROVE PlainBy(t)
<1>0. ThreadsInv /\ At(t, "reuse") /\ task[t].br \in Browsers \cup {None}
  BY DEF Inv, Reuse, ThreadsInv, ThreadOK
<1>1. PoolSame /\ EntryStep /\ PhaseStep
  BY <1>0, SamePhase, SameEntry DEF Reuse, PoolSame
<1>2. \/ \E b \in Browsers : GotoWith(t, "lock", b)
      \/ Goto(t, "create")
  BY DEF Reuse, Of, Present
<1>3. Others(t) /\ ThreadOK(t)' /\ task'[t].pc \in {"lock", "create"}
  <2>1. ASSUME NEW b \in Browsers, GotoWith(t, "lock", b)
        PROVE  Others(t) /\ ThreadOK(t)' /\ task'[t].pc = "lock"
    BY <1>0, <2>1, GotoWithOK, StepNames DEF Busy
  <2>2. ASSUME Goto(t, "create")
        PROVE  Others(t) /\ ThreadOK(t)' /\ task'[t].pc = "create"
    BY <1>0, <2>2, GotoOK, StepNames DEF Busy
  <2> QED
    BY <1>2, <2>1, <2>2
<1> QED
  BY <1>0, <1>1, <1>3, Kinds DEF PlainBy, Moved

LEMMA LockOK == ASSUME Inv, NEW t \in Threads, scene' = scene, Lock(t) PROVE PlainBy(t)
<1> DEFINE b == task[t].br
<1>0. ThreadsInv /\ task[t].pc \in {"lock", "lockNew"} /\ b \in Browsers /\ Busy(t)
  BY DEF Inv, Lock, ThreadsInv, ThreadOK, Named, Busy
<1>1. PoolSame
  BY DEF Lock, PoolSame
<1>2. CASE Lockable(b)
  <2>1. Becomes(b, LockedBy(task[t].req)) /\ Obtained(t, b)
    BY <1>2 DEF Lock
  <2>2. EntryStep
    BY <1>0, <1>2, <2>1, ReadyEntry DEF Lockable, Ready, LockedBy
  <2> QED
    BY <1>0, <1>1, <2>1, <2>2, ObtainedOK, Kinds DEF PlainBy
<1>3. CASE ~Lockable(b)
  <2>1. entry' = entry /\ handle' = handle
    BY <1>3 DEF Lock
  <2>2. CASE Goto(t, "create") /\ phase' = phase
    <3>1. Others(t) /\ ThreadOK(t)' /\ task'[t].pc = "create"
      BY <1>0, <2>2, GotoOK, StepNames
    <3> QED
      BY <1>0, <1>1, <2>1, <2>2, <3>1, SamePhase, SameEntry, Kinds DEF PlainBy, Moved
  <2>3. CASE Unobtained(t)
    BY <1>0, <1>1, <2>1, <2>3, UnobtainedOK, SameEntry, Kinds DEF PlainBy
  <2> QED
    BY <1>3, <2>2, <2>3 DEF Lock
<1> QED
  BY <1>2, <1>3

LEMMA CreateOK == ASSUME Inv, NEW t \in Threads, scene' = scene, Create(t) PROVE PlainBy(t)
<1>0. ThreadsInv /\ At(t, "create") /\ task[t].br \in Browsers \cup {None} /\ Busy(t)
  BY DEF Inv, Create, ThreadsInv, ThreadOK, Busy
<1>1. PoolSame /\ EntryStep /\ handle' = handle
  BY <1>0, SameEntry DEF Create, PoolSame
<1>2. CASE Unobtained(t)
  BY <1>0, <1>1, <1>2, UnobtainedOK, Kinds DEF PlainBy
<1>3. CASE Goto(t, "permit") /\ phase' = phase
  <2>1. Others(t) /\ ThreadOK(t)' /\ task'[t].pc = "permit"
    BY <1>0, <1>3, GotoOK, StepNames
  <2> QED
    BY <1>0, <1>1, <1>3, <2>1, SamePhase, Kinds DEF PlainBy, Moved
<1> QED
  BY <1>2, <1>3 DEF Create

LEMMA PeekOK == ASSUME Inv, NEW t \in Threads, scene' = scene, Peek(t) PROVE PlainBy(t)
<1>0. ThreadsInv /\ At(t, "peek") /\ Busy(t)
  BY DEF Inv, Peek, Busy
<1>1. PoolSame /\ EntryStep /\ PhaseStep
  BY <1>0, SamePhase, SameEntry DEF Peek, PoolSame
<1>2. CASE Resume(t)
  BY <1>0, <1>1, <1>2, ResumeOK, Kinds DEF PlainBy, Moved
<1>3. ASSUME NEW r, task' = [task EXCEPT ![t].pc = "lookup", ![t].req = r]
      PROVE  Others(t) /\ ThreadOK(t)' /\ task'[t].pc = "lookup"
  <2>1. /\ Others(t) /\ DOMAIN task'[t] = Fields /\ task'[t].pc = "lookup"
        /\ task'[t].then = task[t].then /\ task'[t].todo = task[t].todo
        /\ task'[t].br = task[t].br /\ task'[t].sess = task[t].sess
    BY <1>0, <1>3 DEF ThreadsInv, ThreadOK, Others
  <2> QED
    BY <1>0, <2>1 DEF ThreadsInv, ThreadOK, Nowhere, Steps, Named
<1> QED
  BY <1>0, <1>1, <1>2, <1>3, Kinds DEF Peek, PlainBy, Moved

LEMMA LookupOK == ASSUME Inv, NEW t \in Threads, scene' = scene, Lookup(t) PROVE PlainBy(t)
<1>0. ThreadsInv /\ At(t, "lookup") /\ Busy(t) /\ task[t].br \in Browsers \cup {None}
  BY DEF Inv, Lookup, Busy, ThreadsInv, ThreadOK
<1>1. PoolSame /\ EntryStep /\ handle' = handle
  BY <1>0, SameEntry DEF Lookup, PoolSame
<1>2. PhaseStep
  BY <1>0, <1>1, FailOK, SamePhase DEF Lookup
<1>3. CASE Resume(t)
  BY <1>0, <1>1, <1>2, <1>3, ResumeOK, Kinds DEF PlainBy, Moved
<1>4. CASE Goto(t, "reuse")
  BY <1>0, <1>1, <1>2, <1>4, GotoOK, StepNames, Kinds DEF PlainBy, Moved
<1> QED
  BY <1>3, <1>4 DEF Lookup

LEMMA DequeueOK == ASSUME Inv, NEW t \in Threads, scene' = scene, Dequeue(t) PROVE PlainBy(t)
<1>0. ThreadsInv /\ At(t, "dequeue") /\ Busy(t) /\ task[t].br \in Browsers
  BY DEF Inv, Dequeue, Busy, ThreadsInv, ThreadOK, Named
<1>1. PoolSame /\ EntryStep /\ NextPass(t)
  BY <1>0, SameEntry DEF Dequeue, PoolSame
<1>2. PhaseStep
  BY <1>0, <1>1, ResolveOK, SamePhase DEF Dequeue
<1> QED
  BY <1>0, <1>1, <1>2, PassOK, Kinds DEF PlainBy, Moved

\* The call of t goes on with another plan.
LEMMA PlanOK ==
  ASSUME ThreadsInv, NEW t \in Threads, Busy(t), task[t].br \in Browsers,
         NEW p \in Steps \ {"idle", "later"}, NEW q \in Plans,
         task' = [task EXCEPT ![t].pc = p, ![t].then = q]
  PROVE  Others(t) /\ ThreadOK(t)' /\ task'[t].pc = p /\ task'[t].br = task[t].br
<1>t. DOMAIN task = Threads /\ ThreadOK(t)
  BY DEF ThreadsInv
<1>1. /\ Others(t) /\ DOMAIN task'[t] = Fields /\ task'[t].pc = p
      /\ task'[t].then = q /\ task'[t].todo = task[t].todo
      /\ task'[t].br = task[t].br /\ task'[t].sess = task[t].sess
  BY <1>t DEF Others, ThreadOK
<1> QED
  BY <1>t, <1>1 DEF ThreadOK, Nowhere, Busy

LEMMA TakeOK == ASSUME Inv, NEW t \in Threads, scene' = scene, Take(t) PROVE PlainBy(t)
<1>0. ThreadsInv /\ At(t, "take") /\ Busy(t) /\ task[t].br \in Browsers
  BY DEF Inv, Take, Busy, ThreadsInv, ThreadOK, Named
<1>1. PoolSame /\ EntryStep /\ handle' = handle
  BY <1>0, SameEntry DEF Take, PoolSame
<1>2. PhaseStep
  BY <1>0, <1>1 DEF Take, PhaseStep, ThreadsInv, Phases
<1>3. CASE task' = [task EXCEPT ![t].pc = "return", ![t].then = AfterReturn]
  BY <1>0, <1>1, <1>2, <1>3, PlanOK, PlanFacts, StepNames, Kinds DEF PlainBy, Moved, AfterReturn
<1>4. ASSUME NEW r, task' = [task EXCEPT ![t].pc = "check", ![t].owed = r] PROVE PlainBy(t)
  <2>1. /\ Others(t) /\ DOMAIN task'[t] = Fields /\ task'[t].pc = "check"
        /\ task'[t].then = task[t].then /\ task'[t].todo = task[t].todo
        /\ task'[t].br = task[t].br /\ task'[t].sess = task[t].sess
    BY <1>0, <1>4 DEF ThreadsInv, ThreadOK, Others
  <2>2. ThreadOK(t)'
    BY <1>0, <2>1 DEF ThreadsInv, ThreadOK, Nowhere, Steps, Busy
  <2> QED
    BY <1>0, <1>1, <1>2, <2>1, <2>2, Kinds DEF PlainBy, Moved
<1> QED
  BY <1>3, <1>4 DEF Take

LEMMA CheckOK == ASSUME Inv, NEW t \in Threads, scene' = scene, Check(t) PROVE PlainBy(t)
<1>0. ThreadsInv /\ At(t, "check") /\ Busy(t) /\ task[t].br \in Browsers
  BY DEF Inv, Check, Busy, ThreadsInv, ThreadOK, Named
<1>1. PoolSame /\ EntryStep /\ PhaseStep
  BY <1>0, SameEntry, SamePhase DEF Check, PoolSame
<1>2. ASSUME NEW p \in {"clean", "hand"}, Goto(t, p) PROVE PlainBy(t)
  BY <1>0, <1>1, <1>2, GotoOK, StepNames, Kinds DEF PlainBy, Moved
<1>3. CASE task' = [task EXCEPT ![t].pc = "return", ![t].then = <<"refuse">>]
  BY <1>0, <1>1, <1>3, PlanOK, PlanFacts, StepNames, Kinds DEF PlainBy, Moved
<1>4. CASE Resume(t)
  BY <1>0, <1>1, <1>4, ResumeOK, Kinds DEF PlainBy, Moved
<1> QED
  BY <1>2, <1>3, <1>4 DEF Check

LEMMA CleanOK == ASSUME Inv, NEW t \in Threads, scene' = scene, Clean(t) PROVE PlainBy(t)
<1>0. ThreadsInv /\ At(t, "clean") /\ Busy(t) /\ task[t].br \in Browsers
  BY DEF Inv, Clean, Busy, ThreadsInv, ThreadOK, Named
<1>1. PoolSame /\ EntryStep /\ PhaseStep
  BY <1>0, SameEntry, SamePhase DEF Clean, PoolSame
<1>2. CASE Goto(t, "hand")
  BY <1>0, <1>1, <1>2, GotoOK, StepNames, Kinds DEF PlainBy, Moved
<1>3. CASE task' = [task EXCEPT ![t].pc = "destroy", ![t].then = <<"create">>]
  BY <1>0, <1>1, <1>3, PlanOK, PlanFacts, StepNames, Kinds DEF PlainBy, Moved
<1> QED
  BY <1>2, <1>3 DEF Clean

LEMMA HandOK == ASSUME Inv, NEW t \in Threads, scene' = scene, Hand(t) PROVE PlainBy(t)
<1> DEFINE b == task[t].br
<1>0. ThreadsInv /\ At(t, "hand") /\ Busy(t) /\ b \in Browsers
  BY DEF Inv, Hand, Busy, ThreadsInv, ThreadOK, Named
<1>1. PoolSame
  BY <1>0 DEF Hand, PoolSame
<1>2. CASE Ready(b)
  <2>1. Becomes(b, LockedBy(task[t].owed)) /\ Resolve(task[t].owed, b) /\ Resume(t)
    BY <1>2 DEF Hand
  <2>2. EntryStep
    BY <1>0, <1>2, <2>1, ReadyEntry DEF LockedBy
  <2> QED
    BY <1>0, <1>1, <2>1, <2>2, ResolveOK, ResumeOK, Kinds DEF PlainBy, Moved
<1>3. CASE ~Ready(b)
  <2>1. /\ task' = [task EXCEPT ![t].pc = "return", ![t].then = <<"refuse">>]
        /\ UNCHANGED <<entry, phase, handle>>
    BY <1>3 DEF Hand
  <2> QED
    BY <1>0, <1>1, <2>1, SamePhase, SameEntry, PlanOK, PlanFacts, StepNames, Kinds DEF PlainBy, Moved
<1> QED
  BY <1>2, <1>3

LEMMA RefuseOK == ASSUME Inv, NEW t \in Threads, scene' = scene, Refuse(t) PROVE PlainBy(t)
<1>0. ThreadsInv /\ At(t, "refuse") /\ Busy(t)
  BY DEF Inv, Refuse, Busy
<1>1. PoolSame /\ EntryStep /\ Fail({task[t].owed}) /\ handle' = handle /\ Resume(t)
  BY <1>0, SameEntry DEF Refuse, PoolSame
<1> QED
  BY <1>0, <1>1, FailOK, ResumeOK, Kinds DEF PlainBy, Moved

LEMMA ReturnOK == ASSUME Inv, NEW t \in Threads, scene' = scene, Return(t) PROVE PlainBy(t)
<1> DEFINE b == task[t].br
<1>0. ThreadsInv /\ At(t, "return") /\ Busy(t) /\ b \in Browsers
  BY DEF Inv, Return, Busy, ThreadsInv, ThreadOK, Named
<1>1. PoolSame /\ PhaseStep
  BY <1>0, SamePhase DEF Return, PoolSame
<1>2. CASE Ready(b)
  <2>1. Becomes(b, InReset(b)) /\ Goto(t, "reset")
    BY <1>2 DEF Return
  <2>2. EntryStep
    BY <1>0, <1>2, <2>1, ReadyEntry DEF InReset, LockedBy
  <2> QED
    BY <1>0, <1>1, <2>1, <2>2, GotoOK, StepNames, Kinds DEF PlainBy, Moved
<1>3. CASE ~Ready(b)
  <2>1. Resume(t) /\ entry' = entry
    BY <1>3 DEF Return
  <2> QED
    BY <1>0, <1>1, <2>1, SameEntry, ResumeOK, Kinds DEF PlainBy, Moved
<1> QED
  BY <1>2, <1>3

LEMMA ResetOK == ASSUME Inv, NEW t \in Threads, scene' = scene, Reset(t) PROVE PlainBy(t)
<1>0. ThreadsInv /\ At(t, "reset") /\ Busy(t) /\ task[t].br \in Browsers
  BY DEF Inv, Reset, Busy, ThreadsInv, ThreadOK, Named
<1>1. PoolSame /\ EntryStep /\ PhaseStep
  BY <1>0, SameEntry, SamePhase DEF Reset, PoolSame
<1>2. ASSUME NEW p \in {"settle", "destroy"}, Goto(t, p) PROVE PlainBy(t)
  BY <1>0, <1>1, <1>2, GotoOK, StepNames, Kinds DEF PlainBy, Moved
<1> QED
  BY <1>2 DEF Reset

LEMMA SettleOK == ASSUME Inv, NEW t \in Threads, scene' = scene, Settle(t) PROVE PlainBy(t)
<1> DEFINE b == task[t].br
<1>0. ThreadsInv /\ At(t, "settle") /\ Busy(t)
  BY DEF Inv, Settle, Busy
<1>1. PoolSame /\ PhaseStep /\ Resume(t)
  BY <1>0, SamePhase DEF Settle, PoolSame
<1>2. entry' = [entry EXCEPT ![b] = IF @ = InReset(b) THEN Idle ELSE @]
  BY DEF Settle
<1>3. EntryStep
  BY <1>0, <1>2 DEF ThreadsInv, EntryStep, Status, Ready, InReset, LockedBy, Idle
<1> QED
  BY <1>0, <1>1, <1>3, ResumeOK, Kinds DEF PlainBy, Moved

LEMMA ReportOK == ASSUME Inv, NEW t \in Threads, scene' = scene, Report(t) PROVE PlainBy(t)
<1>0. ThreadsInv /\ At(t, "report") /\ Busy(t)
  BY DEF Inv, Report, Busy
<1>1. PoolSame /\ EntryStep /\ PhaseStep /\ Goto(t, "peek")
  BY <1>0, SameEntry, SamePhase DEF Report, PoolSame
<1> QED
  BY <1>0, <1>1, GotoOK, StepNames, Kinds DEF PlainBy, Moved

LEMMA CancelPluginOK == ASSUME Inv, NEW t \in Threads, scene' = scene, CancelPlugin(t) PROVE PlainBy(t)
<1>0. ThreadsInv /\ At(t, "cancelPlugin")
  BY DEF Inv, CancelPlugin
<1>1. PoolSame /\ EntryStep /\ Resume(t) /\ handle' = handle
      /\ \E R : Fail(R)
  BY <1>0, SameEntry DEF CancelPlugin, PoolSame
<1> QED
  BY <1>0, <1>1, FailOK, ResumeOK, Kinds DEF PlainBy, Moved

LEMMA LaterOK == ASSUME Inv, NEW t \in Threads, scene' = scene, Later(t) PROVE PlainBy(t)
<1>0. ThreadsInv /\ At(t, "later")
  BY DEF Inv, Later
<1>1. PoolSame /\ EntryStep /\ PhaseStep /\ Resume(t)
  BY <1>0, SameEntry, SamePhase DEF Later, PoolSame
<1> QED
  BY <1>0, <1>1, ResumeOK, Kinds DEF PlainBy, Moved

LEMMA SceneFacts ==
  ASSUME ThreadsInv
  PROVE  /\ Session \in [Requests -> Sessions]
         /\ Requests \cap Workers = {} /\ None \notin Requests \cup Workers \cup Browsers \cup Sessions
BY PoolAssumption DEF ThreadsInv, Session

LEMMA EnqueueOK == ASSUME Inv, NEW r \in Requests, scene' = scene, Enqueue(r) PROVE PlainStep
<1>0. ThreadsInv /\ At(r, "enqueue") /\ Busy(r) /\ r \in Threads
  BY DEF Inv, Enqueue, Busy
<1>1. PoolSame /\ EntryStep /\ handle' = handle /\ task' = [task EXCEPT ![r] = NoTask]
  BY <1>0, SameEntry DEF Enqueue, PoolSame
<1>2. PhaseStep
  <2>1. CASE phase' = [phase EXCEPT ![r] = "waiting"]
    BY <1>0, <1>1, <2>1 DEF PhaseStep, ThreadsInv, Phases
  <2> QED
    BY <1>0, <1>1, <2>1, FailOK DEF Enqueue
<1> QED
  BY <1>0, <1>1, <1>2, EndOK, Kinds DEF PlainStep, PlainBy, Moved

LEMMA GiveUpOK == ASSUME Inv, NEW r \in Requests, scene' = scene, GiveUp(r) PROVE PlainStep
<1>0. ThreadsInv
  BY DEF Inv
<1>1. PoolSame /\ EntryStep /\ handle' = handle /\ task' = task
  BY <1>0, SameEntry DEF GiveUp, PoolSame
<1> QED
  BY <1>0, <1>1, FailOK DEF GiveUp, PlainStep

LEMMA BuildHandleOK == ASSUME Inv, NEW r \in Requests, scene' = scene, BuildHandle(r) PROVE PlainStep
<1>0. ThreadsInv
  BY DEF Inv
<1>1. PoolSame /\ EntryStep /\ handle' = handle /\ task' = task
  BY <1>0, SameEntry DEF BuildHandle, PoolSame
<1>2. PhaseStep
  BY <1>0, <1>1 DEF BuildHandle, ThreadsInv, PhaseStep, Phases
<1> QED
  BY <1>1, <1>2 DEF PlainStep

\* A thread begins a call.
LEMMA BeginOK ==
  ASSUME ThreadsInv, NEW t \in Threads, At(t, "idle"), NEW k,
         DOMAIN k = Fields, k.pc \in Steps, k.then \in (IF k.pc = "later" THEN Batched ELSE Plans),
         k.todo \subseteq Browsers, k.br \in Browsers \cup {None},
         k.pc \in Named => k.br \in Browsers,
         k.sess \in Sessions \/ (k.pc = "cancelPlugin" /\ k.then = <<>> /\ k.todo = {}),
         t \notin Requests \/ phase'[t] # "new", task' = [task EXCEPT ![t] = k]
  PROVE  Moved(t) /\ task'[t].pc = k.pc
<1>1. Others(t) /\ task'[t] = k
  BY DEF ThreadsInv, Others
<1> QED
  BY <1>1 DEF Moved, ThreadOK, Nowhere

LEMMA CallingOK ==
  ASSUME ThreadsInv, NEW r \in Requests, phase' = [phase EXCEPT ![r] = "calling"],
         handle' = handle
  PROVE  PhaseStep /\ phase'[r] = "calling"
BY DEF ThreadsInv, PhaseStep, Phases

LEMMA AcquireOK == ASSUME Inv, NEW r \in Requests, scene' = scene, Acquire(r) PROVE PlainStep
<1>0. ThreadsInv /\ r \in Threads /\ At(r, "idle")
  BY DEF Inv, Acquire, ThreadsInv
<1>1. PoolSame /\ EntryStep /\ PhaseStep /\ phase'[r] = "calling"
  BY <1>0, SameEntry, CallingOK DEF Acquire, PoolSame
<1> DEFINE k == [NoTask EXCEPT !.pc = "reuse", !.req = r, !.sess = Session[r]]
<1>2. task' = [task EXCEPT ![r] = k]
  BY DEF Acquire
<1>3. /\ DOMAIN k = Fields /\ k.pc = "reuse" /\ k.then = <<>> /\ k.todo = {} /\ k.br = None
      /\ k.sess \in Sessions
  BY <1>0, SceneFacts DEF NoTask
<1>4. k.pc \in Steps /\ k.pc \notin Named /\ k.pc # "later"
  BY <1>3, StepNames
<1> HIDE DEF k
<1>5. Moved(r) /\ task'[r].pc = "reuse"
  BY <1>0, <1>1, <1>2, <1>3, <1>4, BeginOK, PlanFacts
<1> QED
  BY <1>0, <1>1, <1>5, Kinds DEF PlainStep, PlainBy

\* A job on a browser of the map.
LEMMA JobFacts ==
  ASSUME ThreadsInv, NEW b \in Browsers, Status(b) # "none", NEW aim, NEW p
  PROVE  LET k == Job(aim, b, p)
         IN /\ DOMAIN k = Fields /\ k.pc = p /\ k.then = <<>> /\ k.todo = {} /\ k.br = b
            /\ k.sess \in Sessions
BY DEF ThreadsInv, Job, NoTask

LEMMA TakeoverOK == ASSUME Inv, NEW r \in Requests, scene' = scene, Takeover(r) PROVE PlainStep
<1>0. ThreadsInv /\ r \in Threads /\ At(r, "idle")
  BY DEF Inv, Takeover, ThreadsInv
<1>1. PoolSame /\ EntryStep /\ PhaseStep /\ phase'[r] = "calling"
  BY <1>0, SameEntry, CallingOK DEF Takeover, PoolSame
<1>2. PICK b \in Of(Session[r]) :
        task' = [task EXCEPT ![r] = [Job({entry[b].holder}, b, "seize") EXCEPT !.req = r]]
  BY DEF Takeover
<1>3. b \in Browsers /\ Status(b) # "none"
  BY DEF Of, Present
<1> DEFINE j == Job({entry[b].holder}, b, "seize")
           k == [j EXCEPT !.req = r]
<1>4. /\ DOMAIN j = Fields /\ j.pc = "seize" /\ j.then = <<>> /\ j.todo = {} /\ j.br = b
      /\ j.sess \in Sessions
  BY <1>0, <1>3, JobFacts
<1> HIDE DEF j
<1>5. /\ DOMAIN k = Fields /\ k.pc = "seize" /\ k.then = <<>> /\ k.todo = {} /\ k.br = b
      /\ k.sess \in Sessions
  BY <1>4
<1>6. task' = [task EXCEPT ![r] = k] /\ "seize" \in Steps
  BY <1>2 DEF j, Steps
<1> HIDE DEF k
<1>7. Moved(r) /\ task'[r].pc = "seize"
  BY <1>0, <1>1, <1>3, <1>5, <1>6, BeginOK, PlanFacts
<1> QED
  BY <1>0, <1>1, <1>7, Kinds DEF PlainStep, PlainBy

LEMMA SeizeOK == ASSUME Inv, NEW r \in Requests, scene' = scene, Seize(r) PROVE PlainStep
<1> DEFINE b == task[r].br
<1>0. ThreadsInv /\ At(r, "seize") /\ Busy(r) /\ r \in Threads /\ b \in Browsers
  BY DEF Inv, Seize, Busy, ThreadsInv, ThreadOK, Named
<1>1. PoolSame /\ task' = [task EXCEPT ![r] = NoTask]
  BY DEF Seize, PoolSame
<1>2. PhaseStep /\ EntryStep
  <2>1. CASE Ready(b)
    <3>1. Becomes(b, LockedBy(r)) /\ Resolve(r, b)
      BY <2>1 DEF Seize
    <3> QED
      BY <1>0, <2>1, <3>1, ReadyEntry, ResolveOK DEF LockedBy
  <2>2. CASE ~Ready(b)
    BY <1>0, <2>2, FailOK, SameEntry DEF Seize
  <2> QED
    BY <2>1, <2>2
<1> QED
  BY <1>0, <1>1, <1>2, EndOK, Kinds DEF PlainStep, PlainBy, Moved

LEMMA ReleaseOK ==
  ASSUME Inv, NEW t \in Workers, NEW r \in Requests, scene' = scene, Release(t, r)
  PROVE  PlainStep
<1> DEFINE b == handle[r]
<1>0. ThreadsInv /\ t \in Threads /\ t \notin Requests /\ At(t, "idle")
      /\ b \in Browsers
  BY SceneFacts DEF Inv, Release, ThreadsInv
<1>1. PoolSame /\ EntryStep /\ PhaseStep
  <2>1. handle' = handle /\ phase' = [phase EXCEPT ![r] = "released"]
    BY DEF Release
  <2>2. PhaseStep
    BY <1>0, <2>1 DEF PhaseStep, ThreadsInv, Phases
  <2> QED
    BY <1>0, <2>2, SameEntry DEF Release, PoolSame
<1>2. CASE task' = task
  BY <1>1, <1>2 DEF PlainStep
<1>3. CASE Ready(b) /\ task' = [task EXCEPT ![t] = Job({r}, b, "take")]
  <2> DEFINE k == Job({r}, b, "take")
  <2>1. /\ DOMAIN k = Fields /\ k.pc = "take" /\ k.then = <<>> /\ k.todo = {} /\ k.br = b
        /\ k.sess \in Sessions
    BY <1>0, <1>3, JobFacts DEF Ready
  <2>2. task' = [task EXCEPT ![t] = k] /\ "take" \in Steps
    BY <1>3 DEF Steps
  <2> HIDE DEF k
  <2>3. Moved(t) /\ task'[t].pc = "take"
    BY <1>0, <2>1, <2>2, BeginOK, PlanFacts
  <2> QED
    BY <1>0, <1>1, <2>3, Kinds DEF PlainStep, PlainBy
<1>4. CASE Ready(b) /\ task' = [task EXCEPT ![t] = [Job({r}, b, "destroy") EXCEPT !.then = <<"peek">>]]
  <2> DEFINE j == Job({r}, b, "destroy")
             k == [j EXCEPT !.then = <<"peek">>]
  <2>1. /\ DOMAIN j = Fields /\ j.pc = "destroy" /\ j.then = <<>> /\ j.todo = {} /\ j.br = b
        /\ j.sess \in Sessions
    BY <1>0, <1>4, JobFacts DEF Ready
  <2> HIDE DEF j
  <2>2. /\ DOMAIN k = Fields /\ k.pc = "destroy" /\ k.then = <<"peek">> /\ k.todo = {} /\ k.br = b
        /\ k.sess \in Sessions
    BY <2>1
  <2>3. task' = [task EXCEPT ![t] = k] /\ "destroy" \in Steps
    BY <1>4 DEF j, Steps
  <2> HIDE DEF k
  <2>4. Moved(t) /\ task'[t].pc = "destroy"
    BY <1>0, <2>2, <2>3, BeginOK, PlanFacts
  <2> QED
    BY <1>0, <1>1, <2>4, Kinds DEF PlainStep, PlainBy
<1> QED
  BY <1>2, <1>3, <1>4 DEF Release

Begins(t) == task' = task \/ (Moved(t) /\ task'[t].pc \in Plain)

\* A job on b, at once or behind others.
LEMMA RunOK ==
  ASSUME ThreadsInv, NEW t \in Workers, At(t, "idle"), NEW b \in Browsers, Status(b) # "none",
         NEW aim, NEW calls \in Batched, Run(t, Job(aim, b, "idle"), calls)
  PROVE  Begins(t)
<1> DEFINE j == Job(aim, b, "idle")
           now == [j EXCEPT !.pc = Head(calls), !.then = Tail(calls)]
           later == [j EXCEPT !.pc = "later", !.then = calls]
<1>0. t \in Threads /\ t \notin Requests
  BY SceneFacts
<1>1. /\ DOMAIN j = Fields /\ j.then = <<>> /\ j.todo = {} /\ j.br = b /\ j.sess \in Sessions
  BY JobFacts
<1>2. task' = [task EXCEPT ![t] = now] \/ task' = [task EXCEPT ![t] = later]
  BY DEF Run
<1> HIDE DEF j
<1>3. /\ DOMAIN now = Fields /\ now.pc = Head(calls) /\ now.then = Tail(calls) /\ now.todo = {}
      /\ now.br = b /\ now.sess \in Sessions
  BY <1>1
<1>4. /\ DOMAIN later = Fields /\ later.pc = "later" /\ later.then = calls /\ later.todo = {}
      /\ later.br = b /\ later.sess \in Sessions
  BY <1>1
<1>5. Head(calls) \in {"return", "destroy"} /\ Tail(calls) \in Plans
  BY PlanFacts
<1>6. Head(calls) \in Steps /\ Head(calls) # "later" /\ Head(calls) \in Plain
  BY <1>5, Kinds DEF Steps
<1>7. "later" \in Steps /\ "later" \in Plain
  BY Kinds DEF Steps
<1> HIDE DEF now, later
<1>8. CASE task' = [task EXCEPT ![t] = now]
  <2>1. now.then \in (IF now.pc = "later" THEN Batched ELSE Plans)
    BY <1>3, <1>5, <1>6
  <2>2. Moved(t) /\ task'[t].pc = Head(calls)
    BY <1>0, <1>3, <1>6, <1>8, <2>1, BeginOK
  <2> QED
    BY <1>6, <2>2 DEF Begins
<1>9. CASE task' = [task EXCEPT ![t] = later]
  <2>1. later.then \in (IF later.pc = "later" THEN Batched ELSE Plans)
    BY <1>4
  <2>2. Moved(t) /\ task'[t].pc = "later"
    BY <1>0, <1>4, <1>7, <1>9, <2>1, BeginOK
  <2> QED
    BY <1>7, <2>2 DEF Begins
<1> QED
  BY <1>2, <1>8, <1>9

LEMMA DestroyAllOK ==
  ASSUME ThreadsInv, NEW t \in Workers, At(t, "idle"), NEW B, B \subseteq Present, DestroyAll(t, B)
  PROVE  Begins(t)
<1>0. t \in Threads /\ t \notin Requests
  BY SceneFacts
<1>1. CASE task' = task
  BY <1>1 DEF Begins
<1>2. ASSUME NEW b \in B,
             task' = [task EXCEPT ![t] = [Job({}, b, "destroy") EXCEPT !.aim = Requests,
                                                                       !.todo = B \ {b}]]
      PROVE  Begins(t)
  <2> DEFINE j == Job({}, b, "destroy")
             k == [j EXCEPT !.aim = Requests, !.todo = B \ {b}]
  <2>0. b \in Browsers /\ Status(b) # "none" /\ B \ {b} \subseteq Browsers
    BY DEF Present
  <2>1. /\ DOMAIN j = Fields /\ j.pc = "destroy" /\ j.then = <<>> /\ j.br = b
        /\ j.sess \in Sessions
    BY <2>0, JobFacts
  <2> HIDE DEF j
  <2>2. /\ DOMAIN k = Fields /\ k.pc = "destroy" /\ k.then = <<>> /\ k.todo \subseteq Browsers
        /\ k.br = b /\ k.sess \in Sessions
    BY <2>0, <2>1
  <2>3. task' = [task EXCEPT ![t] = k] /\ "destroy" \in Steps
    BY <1>2 DEF j, Steps
  <2> HIDE DEF k
  <2>4. k.then \in (IF k.pc = "later" THEN Batched ELSE Plans)
    BY <2>2, PlanFacts
  <2>5. Moved(t) /\ task'[t].pc = "destroy"
    BY <1>0, <2>0, <2>2, <2>3, <2>4, BeginOK
  <2> QED
    BY <2>5, Kinds DEF Begins
<1> QED
  BY <1>1, <1>2 DEF DestroyAll

LEMMA StartDestroyOK ==
  ASSUME ThreadsInv, NEW t \in Workers, At(t, "idle"), NEW b \in Browsers, StartDestroy(t, b)
  PROVE  Begins(t)
<1>0. t \in Threads /\ t \notin Requests /\ Status(b) # "none"
  BY SceneFacts DEF StartDestroy, Present
<1>1. PICK q \in {<<>>, <<"peek">>} :
        task' = [task EXCEPT ![t] = [Job({}, b, "destroy") EXCEPT !.aim = Requests, !.then = q]]
  BY DEF StartDestroy
<1> DEFINE j == Job({}, b, "destroy")
           k == [j EXCEPT !.aim = Requests, !.then = q]
<1>2. /\ DOMAIN j = Fields /\ j.pc = "destroy" /\ j.todo = {} /\ j.br = b /\ j.sess \in Sessions
  BY <1>0, JobFacts
<1> HIDE DEF j
<1>3. /\ DOMAIN k = Fields /\ k.pc = "destroy" /\ k.then \in Plans /\ k.todo = {}
      /\ k.br = b /\ k.sess \in Sessions
  BY <1>2, PlanFacts
<1>4. task' = [task EXCEPT ![t] = k] /\ "destroy" \in Steps
  BY <1>1 DEF j, Steps
<1> HIDE DEF k
<1> QED
  BY <1>0, <1>3, <1>4, BeginOK, Kinds DEF Begins

LEMMA StopPluginOK ==
  ASSUME ThreadsInv, NEW t \in Workers, At(t, "idle"), NEW r \in Requests, StopPlugin(t, r)
  PROVE  Begins(t)
<1>0. t \in Threads /\ t \notin Requests
  BY SceneFacts
<1> DEFINE mine == {q \in Requests : Plugin[q] = Plugin[r]}
           k == [NoTask EXCEPT !.pc = "cancelPlugin", !.aim = mine]
<1>1. \/ \E b \in Present : Run(t, Job(mine, b, "idle"), <<"return", "cancelPlugin", "peek">>)
      \/ task' = [task EXCEPT ![t] = k]
  BY DEF StopPlugin
<1>2. ASSUME NEW b \in Present, Run(t, Job(mine, b, "idle"), <<"return", "cancelPlugin", "peek">>)
      PROVE  Begins(t)
  BY <1>2, RunOK DEF Present, Batched
<1>3. CASE task' = [task EXCEPT ![t] = k]
  <2>1. /\ DOMAIN k = Fields /\ k.pc = "cancelPlugin" /\ k.then = <<>> /\ k.todo = {} /\ k.br = None
        /\ "cancelPlugin" \in Steps /\ "cancelPlugin" \notin Named
    BY DEF NoTask, Steps, Named
  <2> HIDE DEF k
  <2>2. k.then \in (IF k.pc = "later" THEN Batched ELSE Plans)
    BY <2>1, PlanFacts
  <2>3. Moved(t) /\ task'[t].pc = "cancelPlugin"
    BY <1>0, <1>3, <2>1, <2>2, BeginOK
  <2> QED
    BY <2>3, Kinds DEF Begins
<1> QED
  BY <1>1, <1>2, <1>3

LEMMA StartJobOK == ASSUME Inv, NEW t \in Workers, scene' = scene, StartJob(t) PROVE PlainStep
<1>0. ThreadsInv /\ At(t, "idle") /\ t \in Threads
  BY DEF Inv, StartJob
<1>1. UNCHANGED <<poolVars, handle>>
  BY DEF StartJob
<1>2. ASSUME Begins(t), phase' = phase \/ \E R : Fail(R), stopped => stopped' PROVE PlainStep
  <2>1. PoolSame /\ EntryStep /\ PhaseStep
    BY <1>0, <1>1, <1>2, SamePhase, SameEntry, FailOK DEF PoolSame
  <2> QED
    BY <1>0, <1>2, <2>1, Kinds DEF PlainStep, PlainBy, Begins
<1>3. ASSUME NEW b \in Browsers, StartDestroy(t, b) \/ Sweep(t, b) \/ Evict(t, b) PROVE PlainStep
  <2>1. Begins(t)
    BY <1>0, <1>3, StartDestroyOK, RunOK DEF Sweep, Evict, Batched
  <2> QED
    BY <1>2, <1>3, <2>1 DEF StartDestroy, Sweep, Evict
<1>4. ASSUME NEW r \in Requests, StopPlugin(t, r) PROVE PlainStep
  BY <1>0, <1>2, <1>4, StopPluginOK DEF StopPlugin
<1>5. ASSUME NEW s \in Sessions, DestroyProfile(t, s) PROVE PlainStep
  BY <1>0, <1>2, <1>5, DestroyAllOK DEF DestroyProfile, Of
<1>6. ASSUME Stop(t) PROVE PlainStep
  BY <1>0, <1>2, <1>6, DestroyAllOK DEF Stop
<1> QED
  BY <1>3, <1>4, <1>5, <1>6 DEF StartJob
-----------------------------------------------------------------------------
(* The steps that make or destroy a browser disturb one browser at most.   *)

Apart(B) == \A c \in Browsers \ B :
  Status(c)' = Status(c) /\ life'[c] = life[c] /\ reap'[c] = reap[c] /\ home'[c] = home[c]
Aside(t, B) == \A c \in Browsers \ B :
  ~Makes(t, c) /\ ~Makes(t, c)' /\ ~Kills(t, c) /\ ~Kills(t, c)'

LEMMA FocusOK ==
  ASSUME Inv, NEW B \in SUBSET Browsers, scene' = scene, stopped => stopped', Apart(B),
         \A u \in Threads : task'[u] = task[u] \/ Aside(u, B),
         \A u \in Threads : \A b \in B : Makes(u, b)' => Creation(u, b)',
         \A u \in Threads : \A b \in B : Kills(u, b)' => Destruction(u, b)',
         \A b \in B : BrowserOK(b)',
         life' \in [Browsers -> Lives], reap' \in [Browsers -> SUBSET {"timeout", "destroy"}],
         cancelled' = {b \in Browsers : "destroy" \in reap'[b]}
  PROVE  LivesInv'
<1>1. \A u \in Threads : \A c \in Browsers \ B :
        /\ Makes(u, c)' <=> Makes(u, c)
        /\ Kills(u, c)' <=> Kills(u, c)
        /\ Makes(u, c) \/ Kills(u, c) => task'[u] = task[u]
  BY DEF Aside, Makes, Kills
<1>2. \A u \in Threads : \A c \in Browsers \ B : Makes(u, c)' => Creation(u, c)'
  <2> SUFFICES ASSUME NEW u \in Threads, NEW c \in Browsers \ B, Makes(u, c)' PROVE Creation(u, c)'
    OBVIOUS
  <2>1. Makes(u, c) /\ Creation(u, c) /\ task'[u] = task[u]
    BY <1>1 DEF Inv, LivesInv, MakerOK
  <2>2. \A v \in Threads : Makes(v, c)' => v = u
    BY <1>1, <2>1 DEF Creation
  <2> QED
    BY <2>1, <2>2 DEF Creation, Apart
<1>3. \A u \in Threads : \A c \in Browsers \ B : Kills(u, c)' => Destruction(u, c)'
  <2> SUFFICES ASSUME NEW u \in Threads, NEW c \in Browsers \ B, Kills(u, c)' PROVE Destruction(u, c)'
    OBVIOUS
  <2>1. Kills(u, c) /\ Destruction(u, c) /\ task'[u] = task[u]
    BY <1>1 DEF Inv, LivesInv, KillerOK
  <2> QED
    BY <2>1 DEF Destruction, Apart
<1>4. \A c \in Browsers \ B : BrowserOK(c)'
  <2> SUFFICES ASSUME NEW c \in Browsers \ B PROVE BrowserOK(c)'
    OBVIOUS
  <2>0. /\ BrowserOK(c) /\ Status(c)' = Status(c) /\ life'[c] = life[c] /\ reap'[c] = reap[c]
        /\ home'[c] = home[c]
    BY DEF Inv, LivesInv, Apart
  <2>1. (\E u \in Threads : Makes(u, c)) => \E u \in Threads : Makes(u, c)'
    BY <1>1
  <2>2. (\E u \in Threads : Kills(u, c)) => \E u \in Threads : Kills(u, c)'
    BY <1>1
  <2>3. (\E u \in Threads : Makes(u, c) /\ At(u, "discard"))
          => \E u \in Threads : Makes(u, c)' /\ At(u, "discard")'
    BY <1>1
  <2>4. (\E u \in Threads : Makes(u, c) /\ task[u].pc \in Giving)
          => \E u \in Threads : Makes(u, c)' /\ task'[u].pc \in Giving
    BY <1>1
  <2> QED
    BY <2>0, <2>1, <2>2, <2>3, <2>4 DEF BrowserOK, Alive, Ready, Hazards
<1> QED
  BY <1>2, <1>3, <1>4 DEF LivesInv, MakerOK, KillerOK

\* The permits.
PermitBook ==
  /\ IsFiniteSet(Holders) /\ permits \in Nat
  /\ permits + Cardinality(Holders) = MaxCreating

LEMMA PermitsKept ==
  ASSUME Inv, permits' = permits,
         \A u \in Threads : task'[u].pc \in Permitted <=> task[u].pc \in Permitted
  PROVE  PermitBook'
<1>1. Holders' = Holders
  BY DEF Holders
<1> QED
  BY <1>1 DEF Inv, Books, PermitBook

LEMMA PermitTaken ==
  ASSUME Inv, NEW t \in Threads, Others(t), task[t].pc \notin Permitted, task'[t].pc \in Permitted,
         permits > 0, permits' = permits - 1
  PROVE  PermitBook'
<1>1. Holders' = Holders \cup {t} /\ t \notin Holders
  BY DEF Holders, Others
<1>2. IsFiniteSet(Holders) /\ permits \in Nat /\ permits + Cardinality(Holders) = MaxCreating
  BY DEF Inv, Books
<1>3. IsFiniteSet(Holders \cup {t}) /\ Cardinality(Holders \cup {t}) = Cardinality(Holders) + 1
  BY <1>1, <1>2, FS_AddElement
<1>4. Cardinality(Holders) \in Nat
  BY <1>2, FS_CardinalityType
<1> QED
  BY <1>1, <1>2, <1>3, <1>4 DEF PermitBook

LEMMA PermitReturned ==
  ASSUME Inv, NEW t \in Threads, Others(t), task[t].pc \in Permitted, task'[t].pc \notin Permitted,
         permits' = permits + 1
  PROVE  PermitBook'
<1>1. Holders' = Holders \ {t} /\ t \in Holders
  BY DEF Holders, Others
<1>2. IsFiniteSet(Holders) /\ permits \in Nat /\ permits + Cardinality(Holders) = MaxCreating
  BY DEF Inv, Books
<1>3. IsFiniteSet(Holders \ {t}) /\ Cardinality(Holders \ {t}) = Cardinality(Holders) - 1
  BY <1>1, <1>2, FS_RemoveElement
<1>4. Cardinality(Holders) \in Nat
  BY <1>2, FS_CardinalityType
<1> QED
  BY <1>1, <1>2, <1>3, <1>4 DEF PermitBook

\* The destructions.
DeathBook ==
  /\ destroying \in [Sessions -> Nat]
  /\ \A s \in Sessions :
       /\ IsFiniteSet(Reaping(s)) /\ IsFiniteSet(Killers(s))
       /\ destroying[s] = Cardinality(Reaping(s)) + Cardinality(Killers(s))

LEMMA BooksParts ==
  /\ Books <=> PermitBook /\ DeathBook
  /\ Books' <=> PermitBook' /\ DeathBook'
BY DEF Books, PermitBook, DeathBook

LEMMA DeathsKept ==
  ASSUME Inv, destroying' = destroying,
         \A s \in Sessions : Reaping(s)' = Reaping(s) /\ Killers(s)' = Killers(s)
  PROVE  DeathBook'
BY BooksParts DEF Inv, DeathBook

\* One more, or one fewer, on profile s.
LEMMA DeathBegins ==
  ASSUME Inv, NEW s \in Sessions, destroying' = Marked(s),
         \A z \in Sessions \ {s} : Reaping(z)' = Reaping(z) /\ Killers(z)' = Killers(z),
         \/ \E b : b \notin Reaping(s) /\ Reaping(s)' = Reaping(s) \cup {b} /\ Killers(s)' = Killers(s)
         \/ \E t : t \notin Killers(s) /\ Killers(s)' = Killers(s) \cup {t} /\ Reaping(s)' = Reaping(s)
  PROVE  DeathBook'
<1>1. DeathBook
  BY BooksParts DEF Inv
<1>2. /\ Cardinality(Reaping(s)) \in Nat /\ Cardinality(Killers(s)) \in Nat
      /\ IsFiniteSet(Reaping(s)) /\ IsFiniteSet(Killers(s))
      /\ destroying[s] = Cardinality(Reaping(s)) + Cardinality(Killers(s))
  BY <1>1, FS_CardinalityType DEF DeathBook
<1>3. destroying' \in [Sessions -> Nat] /\ destroying'[s] = destroying[s] + 1
      /\ \A z \in Sessions \ {s} : destroying'[z] = destroying[z]
  BY <1>1 DEF DeathBook, Marked
<1> DEFINE Right == /\ IsFiniteSet(Reaping(s)') /\ IsFiniteSet(Killers(s)')
                 /\ Cardinality(Reaping(s)') + Cardinality(Killers(s)')
                      = Cardinality(Reaping(s)) + Cardinality(Killers(s)) + 1
<1>4. Right
  <2>1. ASSUME NEW b, b \notin Reaping(s), Reaping(s)' = Reaping(s) \cup {b}, Killers(s)' = Killers(s)
        PROVE  Right
    <3>1. IsFiniteSet(Reaping(s) \cup {b}) /\ Cardinality(Reaping(s) \cup {b}) = Cardinality(Reaping(s)) + 1
      BY <1>2, <2>1, FS_AddElement
    <3> QED
      BY <1>2, <2>1, <3>1
  <2>2. ASSUME NEW t, t \notin Killers(s), Killers(s)' = Killers(s) \cup {t}, Reaping(s)' = Reaping(s)
        PROVE  Right
    <3>1. IsFiniteSet(Killers(s) \cup {t}) /\ Cardinality(Killers(s) \cup {t}) = Cardinality(Killers(s)) + 1
      BY <1>2, <2>2, FS_AddElement
    <3> QED
      BY <1>2, <2>2, <3>1
  <2> QED
    BY <2>1, <2>2
<1> QED
  BY <1>1, <1>2, <1>3, <1>4 DEF DeathBook

LEMMA DeathEnds ==
  ASSUME Inv, NEW s \in Sessions, destroying' = [destroying EXCEPT ![s] = @ - 1],
         \A z \in Sessions \ {s} : Reaping(z)' = Reaping(z) /\ Killers(z)' = Killers(z),
         \/ \E b \in Reaping(s) : Reaping(s)' = Reaping(s) \ {b} /\ Killers(s)' = Killers(s)
         \/ \E t \in Killers(s) : Killers(s)' = Killers(s) \ {t} /\ Reaping(s)' = Reaping(s)
  PROVE  DeathBook'
<1>1. DeathBook
  BY BooksParts DEF Inv
<1>2. /\ Cardinality(Reaping(s)) \in Nat /\ Cardinality(Killers(s)) \in Nat
      /\ IsFiniteSet(Reaping(s)) /\ IsFiniteSet(Killers(s))
      /\ destroying[s] = Cardinality(Reaping(s)) + Cardinality(Killers(s))
  BY <1>1, FS_CardinalityType DEF DeathBook
<1>3. destroying'[s] = destroying[s] - 1 /\ DOMAIN destroying' = Sessions
      /\ destroying' = [destroying EXCEPT ![s] = destroying[s] - 1]
      /\ \A z \in Sessions \ {s} : destroying'[z] = destroying[z]
  BY <1>1 DEF DeathBook
<1> DEFINE Right == /\ IsFiniteSet(Reaping(s)') /\ IsFiniteSet(Killers(s)')
                 /\ Cardinality(Reaping(s)') \in Nat /\ Cardinality(Killers(s)') \in Nat
                 /\ Cardinality(Reaping(s)') + Cardinality(Killers(s)')
                      = Cardinality(Reaping(s)) + Cardinality(Killers(s)) - 1
<1>4. Right
  <2>1. ASSUME NEW b \in Reaping(s), Reaping(s)' = Reaping(s) \ {b}, Killers(s)' = Killers(s)
        PROVE  Right
    <3>1. IsFiniteSet(Reaping(s) \ {b}) /\ Cardinality(Reaping(s) \ {b}) = Cardinality(Reaping(s)) - 1
      BY <1>2, <2>1, FS_RemoveElement
    <3>2. Cardinality(Reaping(s) \ {b}) \in Nat
      BY <3>1, FS_CardinalityType
    <3> QED
      BY <1>2, <2>1, <3>1, <3>2
  <2>2. ASSUME NEW t \in Killers(s), Killers(s)' = Killers(s) \ {t}, Reaping(s)' = Reaping(s)
        PROVE  Right
    <3>1. IsFiniteSet(Killers(s) \ {t}) /\ Cardinality(Killers(s) \ {t}) = Cardinality(Killers(s)) - 1
      BY <1>2, <2>2, FS_RemoveElement
    <3>2. Cardinality(Killers(s) \ {t}) \in Nat
      BY <3>1, FS_CardinalityType
    <3> QED
      BY <1>2, <2>2, <3>1, <3>2
  <2> QED
    BY <2>1, <2>2
<1>5. destroying'[s] \in Nat
  BY <1>2, <1>3, <1>4
<1>6. destroying' \in [Sessions -> Nat]
  BY <1>1, <1>3, <1>5 DEF DeathBook
<1> QED
  BY <1>1, <1>2, <1>3, <1>4, <1>6 DEF DeathBook

\* A tie that is not new makes no second one.
LEMMA TiesKept ==
  ASSUME Inv, \A b \in Browsers : Tied(b)' => Tied(b) /\ home'[b] = home[b]
  PROVE  OneTied'
BY DEF Inv, OneTied
-----------------------------------------------------------------------------
(* A browser is created.                                                   *)

\* The facts about a thread and the browser it creates.
LEMMA CreatorFacts ==
  ASSUME Inv, NEW t \in Threads, NEW b \in Browsers, Makes(t, b)
  PROVE  /\ Creation(t, b) /\ BrowserOK(b) /\ reap[b] \subseteq {"timeout", "destroy"}
         /\ \A u \in Threads : Makes(u, b) => u = t
         /\ Status(b) # "none" => home[b] \in Sessions
BY DEF Inv, LivesInv, MakerOK, ThreadsInv, Creation

LEMMA GetPermitOK == ASSUME Inv, NEW t \in Threads, scene' = scene, GetPermit(t) PROVE Inv'
<1>0. ThreadsInv /\ At(t, "permit") /\ Busy(t) /\ task[t].br \in Browsers \cup {None}
  BY DEF Inv, GetPermit, Busy, ThreadsInv, ThreadOK
<1>1. Others(t) /\ ThreadOK(t)' /\ task'[t].pc = "place" /\ task'[t].br = task[t].br
  BY <1>0, GotoOK, StepNames DEF GetPermit
<1>2. /\ UNCHANGED <<entry, home, life, reap, cancelled, destroying, stopped, phase, handle>>
      /\ permits > 0 /\ permits' = permits - 1
  BY DEF GetPermit
<1>3. ThreadsInv'
  BY <1>0, <1>1, <1>2, SamePhase, SameEntry, ThreadsKept DEF Moved
<1>4. \A c \in Browsers : Status(c)' = Status(c)
  BY <1>2 DEF Status
<1>5. LivesInv'
  <2>1. Aside(t, {}) /\ \A u \in Threads : task'[u] = task[u] \/ Aside(u, {})
    BY <1>0, <1>1 DEF Aside, Makes, Kills, Making, Killing, Others
  <2> QED
    BY <1>2, <1>4, <2>1, FocusOK DEF Apart, Inv, LivesInv
<1>6. PermitBook'
  BY <1>0, <1>1, <1>2, PermitTaken DEF Permitted, Making
<1>7. DeathBook'
  <2>1. \A s \in Sessions : Reaping(s)' = Reaping(s) /\ Killers(s)' = Killers(s)
    BY <1>0, <1>1, <1>2 DEF Reaping, Killers, Killing, Others
  <2> QED
    BY <1>2, <2>1, DeathsKept
<1>8. OneTied'
  BY <1>2, <1>4, TiesKept DEF Tied
<1> QED
  BY <1>3, <1>5, <1>6, <1>7, <1>8, BooksParts DEF Inv

\* No browser is tied to a profile that is not occupied.
LEMMA FreeProfile ==
  ASSUME Inv, NEW s \in Sessions, ~Occupied(s), NEW b \in Browsers, Tied(b)
  PROVE  home[b] # s
<1> SUFFICES ASSUME home[b] = s PROVE FALSE
  OBVIOUS
<1>1. CASE Status(b) # "none"
  BY <1>1 DEF Occupied, Of, Present
<1>2. CASE "destroy" \in reap[b]
  <2>1. /\ IsFiniteSet(Reaping(s)) /\ IsFiniteSet(Killers(s)) /\ destroying[s] \in Nat
        /\ destroying[s] = Cardinality(Reaping(s)) + Cardinality(Killers(s))
    BY DEF Inv, Books
  <2>2. ~(destroying[s] > 0) /\ b \in Reaping(s)
    BY <1>2 DEF Occupied, Reaping
  <2>3. Cardinality(Reaping(s)) \in Nat /\ Cardinality(Killers(s)) \in Nat
    BY <2>1, FS_CardinalityType
  <2>4. Cardinality(Reaping(s)) = 0
    BY <2>1, <2>2, <2>3
  <2>5. Reaping(s) = {}
    BY <2>1, <2>4, FS_EmptySet
  <2> QED
    BY <2>2, <2>5
<1> QED
  BY <1>1, <1>2 DEF Tied

LEMMA PlaceOK == ASSUME Inv, NEW t \in Threads, scene' = scene, Place(t) PROVE Inv'
<1> DEFINE s == task[t].sess
<1>0. ThreadsInv /\ At(t, "place") /\ Busy(t) /\ s \in Sessions
  BY DEF Inv, Place, Busy, ThreadsInv, ThreadOK, Nowhere
<1>1. UNCHANGED <<reap, cancelled, destroying, permits, stopped, phase, handle>>
  BY DEF Place
<1>2. CASE UNCHANGED <<entry, home, life>> /\ GotoWith(t, "abandon", None)
  <2>1. Others(t) /\ ThreadOK(t)' /\ task'[t].pc = "abandon" /\ task'[t].br = None
    BY <1>0, <1>2, GotoWithOK, StepNames
  <2>2. None \notin Browsers
    BY <1>0, SceneFacts
  <2>3. ThreadsInv'
    BY <1>0, <1>1, <1>2, <2>1, SamePhase, SameEntry, ThreadsKept DEF Moved
  <2>4. \A c \in Browsers : Status(c)' = Status(c)
    BY <1>2 DEF Status
  <2>5. LivesInv'
    <3>1. Aside(t, {}) /\ \A u \in Threads : task'[u] = task[u] \/ Aside(u, {})
      BY <1>0, <2>1, <2>2 DEF Aside, Makes, Kills, Making, Killing, Others
    <3>2. Apart({})
      BY <1>1, <1>2, <2>4 DEF Apart
    <3>3. /\ life' \in [Browsers -> Lives] /\ reap' \in [Browsers -> SUBSET {"timeout", "destroy"}]
          /\ cancelled' = {c \in Browsers : "destroy" \in reap'[c]}
      BY <1>1, <1>2 DEF Inv, LivesInv
    <3> QED
      BY <1>1, <3>1, <3>2, <3>3, FocusOK
  <2>6. PermitBook'
    <3>1. \A u \in Threads : task'[u].pc \in Permitted <=> task[u].pc \in Permitted
      BY <1>0, <2>1 DEF Permitted, Making, Others
    <3> QED
      BY <1>1, <3>1, PermitsKept
  <2>7. DeathBook'
    <3>1. \A z \in Sessions : Reaping(z)' = Reaping(z) /\ Killers(z)' = Killers(z)
      BY <1>0, <1>1, <1>2, <2>1 DEF Reaping, Killers, Killing, Others
    <3> QED
      BY <1>1, <3>1, DeathsKept
  <2>8. OneTied'
    BY <1>1, <1>2, <2>4, TiesKept DEF Tied
  <2> QED
    BY <2>3, <2>5, <2>6, <2>7, <2>8, BooksParts DEF Inv
<1>3. ASSUME ~Occupied(s), NEW b \in Browsers, Fresh(b),
             Becomes(b, [status |-> "creating", holder |-> None]),
             home' = [home EXCEPT ![b] = s], life' = [life EXCEPT ![b] = "starting"],
             GotoWith(t, "starting", b)
      PROVE  Inv'
  <2>1. Others(t) /\ ThreadOK(t)' /\ task'[t].pc = "starting" /\ task'[t].br = b
    BY <1>0, <1>3, GotoWithOK, StepNames
  <2>2. /\ DOMAIN entry' = Browsers /\ Status(b)' = "creating"
        /\ home'[b] = s /\ life'[b] = "starting"
        /\ \A c \in Browsers \ {b} : /\ Status(c)' = Status(c) /\ home'[c] = home[c]
                                     /\ life'[c] = life[c]
        /\ home' \in [Browsers -> Sessions \cup {None}] /\ life' \in [Browsers -> Lives]
    BY <1>0, <1>3 DEF ThreadsInv, Inv, LivesInv, Becomes, Status, Lives
  <2>3. Status(b) = "none" /\ reap[b] = {} /\ \A u \in Threads : task[u].br # b
    BY <1>3 DEF Fresh
  <2>4. ThreadsInv'
    <3>1. \A c \in Browsers : Status(c)' \in Statuses /\ (Status(c)' # "none" => home'[c] \in Sessions)
      BY <1>0, <2>2 DEF ThreadsInv, Statuses
    <3> QED
      BY <1>0, <1>1, <2>1, <2>2, <3>1, SamePhase, ThreadsFocus DEF Moved
  <2>5. \A u \in Threads : /\ Makes(u, b)' => u = t
                           /\ ~Kills(u, b)'
    BY <2>1, <2>3 DEF Makes, Kills, Others, Killing
  <2>6. Makes(t, b)' /\ Creation(t, b)'
    BY <1>1, <2>1, <2>2, <2>3, <2>5 DEF Makes, Making, Creation, Giving
  <2>7. BrowserOK(b)'
    BY <1>1, <2>2, <2>3, <2>6 DEF BrowserOK, Ready
  <2>8. LivesInv'
    <3>1. \A u \in Threads : task'[u] = task[u] \/ Aside(u, {b})
      BY <1>0, <2>1 DEF Aside, Makes, Kills, Making, Killing, Others
    <3>2. Apart({b})
      BY <1>1, <2>2 DEF Apart
    <3>3. reap' \in [Browsers -> SUBSET {"timeout", "destroy"}] /\ cancelled' = {c \in Browsers : "destroy" \in reap'[c]}
      BY <1>1 DEF Inv, LivesInv
    <3> QED
      BY <1>1, <2>2, <2>5, <2>6, <2>7, <3>1, <3>2, <3>3, FocusOK
  <2>9. PermitBook'
    <3>1. \A u \in Threads : task'[u].pc \in Permitted <=> task[u].pc \in Permitted
      BY <1>0, <2>1 DEF Permitted, Making, Others
    <3> QED
      BY <1>1, <3>1, PermitsKept
  <2>10. DeathBook'
    <3>1. \A z \in Sessions : Reaping(z)' = Reaping(z)
      BY <1>1, <2>2, <2>3 DEF Reaping
    <3>2. \A u \in Threads : task[u].pc \in Killing => task[u].br \in Browsers \ {b}
      BY <1>0, <2>3 DEF ThreadsInv, ThreadOK, Named, Killing
    <3>3. \A z \in Sessions : Killers(z)' = Killers(z)
      BY <1>0, <2>1, <2>2, <3>2 DEF Killers, Killing, Others
    <3> QED
      BY <1>1, <3>1, <3>3, DeathsKept
  <2>11. OneTied'
    <3>1. \A c \in Browsers \ {b} : Tied(c)' => Tied(c) /\ home'[c] = home[c] /\ home'[c] # s
      BY <1>0, <1>1, <1>3, <2>2, FreeProfile DEF Tied
    <3> QED
      BY <2>2, <3>1 DEF Inv, OneTied
  <2> QED
    BY <2>4, <2>8, <2>9, <2>10, <2>11, BooksParts DEF Inv
<1> QED
  BY <1>2, <1>3 DEF Place

\* Instances and clean-ups change, entries and counts do not.
CountsSame ==
  /\ UNCHANGED <<scene, home, destroying, stopped>>
  /\ \A c \in Browsers : "destroy" \in reap'[c] <=> "destroy" \in reap[c]

LEMMA CountsKept ==
  ASSUME Inv, CountsSame,
         \A u \in Threads : /\ task'[u].pc \in Killing <=> task[u].pc \in Killing
                            /\ task[u].pc \in Killing => task'[u].br = task[u].br
  PROVE  DeathBook'
<1>1. \A s \in Sessions : Reaping(s)' = Reaping(s) /\ Killers(s)' = Killers(s)
  BY DEF Reaping, Killers, CountsSame
<1> QED
  BY <1>1, DeathsKept DEF CountsSame

LEMMA LaunchOK == ASSUME Inv, NEW b \in Browsers, scene' = scene, Launch(b) PROVE Inv'
<1>0. ThreadsInv /\ UNCHANGED <<entry, home, reap, cancelled, destroying, permits, stopped, task, phase, handle>>
  BY DEF Inv, Launch
<1>1. life[b] = "starting" /\ BrowserOK(b) /\ reap[b] \subseteq {"timeout", "destroy"}
  BY DEF Inv, LivesInv, Launch
<1>2. /\ life'[b] \in {"running", "refused"} /\ life' \in [Browsers -> Lives]
      /\ \A c \in Browsers \ {b} : life'[c] = life[c]
  BY DEF Inv, LivesInv, Launch, Lives
<1>3. ThreadsInv'
  BY <1>0, SamePhase, SameEntry, ThreadsKept
<1>4. \A c \in Browsers : Status(c)' = Status(c)
  BY <1>0 DEF Status
<1>5. \A u \in Threads : /\ Makes(u, b)' <=> Makes(u, b)
                         /\ Kills(u, b)' <=> Kills(u, b)
  BY <1>0 DEF Makes, Kills
<1>6. \A u \in Threads : Makes(u, b)' => Creation(u, b)'
  <2> SUFFICES ASSUME NEW u \in Threads, Makes(u, b) PROVE Creation(u, b)'
    BY <1>5
  <2>1. Creation(u, b)
    BY CreatorFacts
  <2> QED
    BY <1>0, <1>1, <1>2, <1>4, <1>5, <2>1 DEF Creation, Giving
<1>7. \A u \in Threads : Kills(u, b)' => Destruction(u, b)'
  <2> SUFFICES ASSUME NEW u \in Threads, Kills(u, b) PROVE FALSE
    BY <1>5
  <2>1. Destruction(u, b)
    BY DEF Inv, LivesInv, KillerOK
  <2> QED
    BY <1>1, <2>1 DEF Destruction, BrowserOK
<1>8. BrowserOK(b)'
  BY <1>0, <1>1, <1>2, <1>4, <1>5 DEF BrowserOK, Alive, Ready, Hazards
<1>9. LivesInv'
  <2>1. Apart({b})
    BY <1>0, <1>2, <1>4 DEF Apart
  <2>2. reap' \in [Browsers -> SUBSET {"timeout", "destroy"}] /\ cancelled' = {c \in Browsers : "destroy" \in reap'[c]}
    BY <1>0 DEF Inv, LivesInv
  <2> QED
    BY <1>0, <1>2, <1>6, <1>7, <1>8, <2>1, <2>2, FocusOK
<1>10. PermitBook'
  BY <1>0, PermitsKept
<1>11. DeathBook'
  BY <1>0, CountsKept DEF CountsSame
<1>12. OneTied'
  BY <1>0, <1>4, TiesKept DEF Tied
<1> QED
  BY <1>3, <1>9, <1>10, <1>11, <1>12, BooksParts DEF Inv

\* A creator goes on with the creation of b.
LEMMA MakerStepOK ==
  ASSUME Inv, NEW t \in Threads, NEW b \in Browsers, Makes(t, b), Others(t), ThreadOK(t)',
         Makes(t, b)', CountsSame, UNCHANGED <<permits, cancelled, phase, handle>>,
         \A c \in Browsers \ {b} : Status(c)' = Status(c) /\ life'[c] = life[c] /\ reap'[c] = reap[c],
         DOMAIN entry' = Browsers, Status(b)' \in {Status(b), "none"},
         life'[b] \in Lives, life' \in [Browsers -> Lives],
         reap' \in [Browsers -> SUBSET {"timeout", "destroy"}],
         Creation(t, b)', BrowserOK(b)', life[b] # "gone"
  PROVE  Inv'
<1>0. ThreadsInv /\ ~At(t, "idle") /\ task[t].pc \in Making /\ task'[t].pc \in Making
      /\ task[t].br = b /\ task'[t].br = b
  BY DEF Inv, Makes, Making
<1>1. \A u \in Threads : Makes(u, b)' => u = t
  BY CreatorFacts DEF Makes, Others
<1>2. \A u \in Threads : ~Kills(u, b) /\ ~Kills(u, b)'
  <2>1. Status(b) \in {"creating", "none"}
    BY CreatorFacts DEF Creation
  <2>2. \A u \in Threads : ~Kills(u, b)
    BY <2>1 DEF Inv, LivesInv, KillerOK, Destruction
  <2> QED
    BY <1>0, <2>2 DEF Others, Kills, Making, Killing
<1>3. ThreadsInv'
  <2>1. \A c \in Browsers : Status(c)' \in Statuses /\ (Status(c)' # "none" => home'[c] \in Sessions)
    BY <1>0 DEF ThreadsInv, CountsSame, Statuses
  <2>2. home' \in [Browsers -> Sessions \cup {None}] /\ scene' = scene
    BY <1>0 DEF ThreadsInv, CountsSame
  <2> QED
    BY <1>0, <2>1, <2>2, SamePhase, ThreadsFocus DEF Moved
<1>4. LivesInv'
  <2>1. Apart({b})
    BY DEF Apart, CountsSame
  <2>2. \A u \in Threads : task'[u] = task[u] \/ Aside(u, {b})
    BY <1>0 DEF Aside, Makes, Kills, Others, Making, Killing
  <2>3. cancelled' = {c \in Browsers : "destroy" \in reap'[c]}
    BY DEF Inv, LivesInv, CountsSame
  <2> QED
    BY <1>1, <1>2, <2>1, <2>2, <2>3, FocusOK DEF CountsSame
<1>5. PermitBook'
  BY <1>0, PermitsKept DEF Others, Permitted
<1>6. DeathBook'
  <2>1. \A u \in Threads : /\ task'[u].pc \in Killing <=> task[u].pc \in Killing
                           /\ task[u].pc \in Killing => task'[u].br = task[u].br
    BY <1>0 DEF Others, Making, Killing
  <2> QED
    BY <2>1, CountsKept
<1>7. OneTied'
  <2>1. \A c \in Browsers : Tied(c)' => Tied(c) /\ home'[c] = home[c]
    BY DEF Tied, CountsSame
  <2> QED
    BY <2>1, TiesKept
<1> QED
  BY <1>3, <1>4, <1>5, <1>6, <1>7, BooksParts DEF Inv

LEMMA AwaitFactoryOK == ASSUME Inv, NEW t \in Threads, scene' = scene, AwaitFactory(t) PROVE Inv'
<1>b. PICK b \in Browsers : b = task[t].br
  BY DEF Inv, AwaitFactory, ThreadsInv, ThreadOK, Named
<1>0. ThreadsInv /\ At(t, "starting") /\ Busy(t) /\ b = task[t].br /\ Makes(t, b)
  BY <1>b DEF Inv, AwaitFactory, Busy, Makes, Making
<1>1. UNCHANGED <<entry, home, life, cancelled, destroying, permits, stopped, phase, handle>>
  BY DEF AwaitFactory
<1>2. /\ Creation(t, b) /\ BrowserOK(b) /\ reap[b] \subseteq {"timeout", "destroy"}
      /\ \A u \in Threads : Makes(u, b) => u = t
      /\ Status(b) # "none" => home[b] \in Sessions
  BY <1>0, CreatorFacts
<1>3. /\ \A c \in Browsers : Status(c)' = Status(c) /\ life'[c] = life[c]
      /\ DOMAIN entry' = Browsers /\ life' \in [Browsers -> Lives] /\ life'[b] \in Lives
  BY <1>0, <1>1 DEF Status, ThreadsInv, Inv, LivesInv
<1>4. life[b] \in {"starting", "running", "refused"}
  BY <1>0, <1>2 DEF Creation
<1>5. ASSUME NEW p \in {"finish", "abandon", "abort"}, Goto(t, p), CountsSame,
             reap' \in [Browsers -> SUBSET {"timeout", "destroy"}],
             \A c \in Browsers \ {b} : reap'[c] = reap[c],
             p = "finish" => life[b] = "running" /\ reap'[b] = reap[b],
             p # "finish" => life[b] = "refused" \/ reap'[b] # {},
             reap'[b] = reap[b] \/ (p # "finish" /\ "slow" \in Hazards
                                    /\ reap'[b] = reap[b] \cup {"timeout"})
      PROVE  Inv'
  <2>1. Others(t) /\ ThreadOK(t)' /\ task'[t].pc = p /\ task'[t].br = b
    BY <1>0, <1>5, GotoOK, StepNames
  <2>2. Makes(t, b)' /\ \A u \in Threads : Makes(u, b)' => u = t
    BY <1>2, <2>1 DEF Makes, Making, Others
  <2>3. Creation(t, b)'
    BY <1>0, <1>1, <1>2, <1>3, <1>5, <2>1, <2>2 DEF Creation, Giving
  <2>4. "destroy" \in reap[b] => home[b] \in Sessions /\ Status(b) = "none"
    BY <1>0, <1>2 DEF BrowserOK, Giving
  <2>5. p = "finish" => reap[b] = reap'[b]
    BY <1>5
  <2>6. Status(b) \in {"creating", "none"} /\ (Status(b) = "creating" \/ "destroy" \in reap[b])
        /\ "timeout" \notin reap[b]
    BY <1>0, <1>2 DEF Creation
  <2>7. BrowserOK(b)'
    <3>1. Status(b)' = Status(b) /\ life'[b] = life[b] /\ home'[b] = home[b] /\ Hazards' = Hazards
      BY <1>1, <1>3 DEF Hazards
    <3>2. Status(b) = "creating" => life[b] # "gone" /\ life[b] # "none" /\ "destroy" \notin reap'[b]
      BY <1>2, <1>5 DEF BrowserOK
    <3>3. reap'[b] # {} => home[b] \in Sessions
                          /\ (Status(b) = "none" \/ task'[t].pc \in Giving)
      <4>1. CASE reap'[b] = reap[b]
        BY <1>0, <1>2, <2>4, <2>6, <4>1
      <4>2. CASE p # "finish"
        BY <1>2, <1>5, <2>1, <2>4, <2>6, <4>2 DEF Giving
      <4> QED
        BY <1>5, <4>1, <4>2
    <3>4. "timeout" \in reap'[b] => "slow" \in Hazards
      BY <1>5, <2>6
    <3>5. Alive(b)' => Status(b) # "none" \/ reap'[b] # {}
      BY <1>5, <2>6 DEF Alive
    <3> QED
      BY <2>2, <2>6, <3>1, <3>2, <3>3, <3>4, <3>5 DEF BrowserOK, Ready
  <2> QED
    BY <1>0, <1>1, <1>3, <1>4, <1>5, <2>1, <2>2, <2>3, <2>7, MakerStepOK
<1>6. CASE Goto(t, "finish") /\ life[b] = "running" /\ reap' = reap
  BY <1>0, <1>1, <1>5, <1>6 DEF CountsSame, Inv, LivesInv
<1>7. ASSUME NEW p \in {"abandon", "abort"}, Goto(t, p), life[b] = "refused", reap' = reap PROVE Inv'
  BY <1>0, <1>1, <1>5, <1>7 DEF CountsSame, Inv, LivesInv
<1>8. CASE "slow" \in Hazards /\ reap' = [reap EXCEPT ![b] = @ \cup {"timeout"}] /\ Goto(t, "abandon")
  <2>1. /\ reap' \in [Browsers -> SUBSET {"timeout", "destroy"}]
        /\ reap'[b] = reap[b] \cup {"timeout"} /\ \A c \in Browsers \ {b} : reap'[c] = reap[c]
    BY <1>0, <1>8 DEF Inv, LivesInv
  <2>2. CountsSame
    BY <1>0, <1>1, <2>1 DEF CountsSame
  <2> QED
    BY <1>5, <1>8, <2>1, <2>2
<1> QED
  BY <1>b, <1>4, <1>6, <1>7, <1>8 DEF AwaitFactory

LEMMA DiscardOK == ASSUME Inv, NEW t \in Threads, scene' = scene, Discard(t) PROVE Inv'
<1>b. PICK b \in Browsers : b = task[t].br
  BY DEF Inv, Discard, ThreadsInv, ThreadOK, Named
<1>0. ThreadsInv /\ At(t, "discard") /\ Busy(t) /\ b = task[t].br /\ Makes(t, b)
  BY <1>b DEF Inv, Discard, Busy, Makes, Making
<1>1. /\ UNCHANGED <<entry, home, reap, cancelled, destroying, permits, stopped, phase, handle>>
      /\ life' = [life EXCEPT ![b] = "gone"]
  BY <1>b DEF Discard
<1>2. Others(t) /\ ThreadOK(t)' /\ task'[t].pc = "abandon" /\ task'[t].br = b
  BY <1>0, GotoOK, StepNames DEF Discard
<1>3. Creation(t, b) /\ BrowserOK(b) /\ \A u \in Threads : Makes(u, b) => u = t
  BY <1>0, CreatorFacts
<1>4. Status(b) = "none" /\ reap[b] = {} /\ life[b] # "gone"
  BY <1>0, <1>3 DEF Creation
<1>5. /\ \A c \in Browsers : Status(c)' = Status(c)
      /\ \A c \in Browsers \ {b} : life'[c] = life[c]
      /\ life'[b] = "gone" /\ life' \in [Browsers -> Lives] /\ DOMAIN entry' = Browsers
      /\ reap' \in [Browsers -> SUBSET {"timeout", "destroy"}]
  BY <1>0, <1>1 DEF Inv, LivesInv, Lives, Status, ThreadsInv
<1>6. Makes(t, b)' /\ \A u \in Threads : Makes(u, b)' => u = t
  BY <1>2, <1>3 DEF Makes, Making, Others
<1>7. Creation(t, b)'
  BY <1>1, <1>2, <1>4, <1>5, <1>6 DEF Creation, Giving
<1>8. BrowserOK(b)'
  BY <1>1, <1>4, <1>5 DEF BrowserOK, Ready, Alive
<1> QED
  BY <1>0, <1>1, <1>2, <1>4, <1>5, <1>6, <1>7, <1>8, MakerStepOK DEF CountsSame, Lives

\* A creation ends: its browser, if it has one yet, is in the pool, or out of it.
LEMMA MakerEndsOK ==
  ASSUME Inv, NEW t \in Threads, Moved(t), PhaseStep, NEW B \in SUBSET Browsers,
         task[t].pc \in Permitted, task'[t].pc \in Plain, ~At(t, "place"),
         \A c \in Browsers : Makes(t, c) <=> c \in B,
         UNCHANGED <<scene, home, life, reap, cancelled, destroying, stopped>>, permits' = permits + 1,
         DOMAIN entry' = Browsers, \A c \in Browsers \ B : Status(c)' = Status(c),
         \A c \in B : /\ Status(c)' \in Statuses /\ BrowserOK(c)'
                      /\ Status(c)' # "none" => Status(c) # "none",
         \A u \in Threads : \A c \in B : Kills(u, c) => Destruction(u, c)'
  PROVE  Inv'
<1>0. /\ ThreadsInv /\ Others(t) /\ task[t].pc \notin Killing /\ task'[t].pc \notin Killing
      /\ task'[t].pc \notin Permitted /\ task'[t].pc \notin Making
  BY DEF Inv, Moved, Permitted, Killing, Making, Plain
<1>1. ThreadsInv'
  <2>1. \A c \in Browsers : Status(c)' \in Statuses /\ (Status(c)' # "none" => home'[c] \in Sessions)
    BY <1>0 DEF ThreadsInv
  <2> QED
    BY <1>0, <2>1, ThreadsFocus DEF ThreadsInv
<1>2. LivesInv'
  <2>1. \A u \in Threads : task'[u] = task[u] \/ Aside(u, B)
    BY <1>0 DEF Aside, Makes, Kills, Others
  <2>2. \A u \in Threads : \A c \in B : ~Makes(u, c)'
    BY <1>0, CreatorFacts DEF Makes, Others
  <2>3. \A u \in Threads : \A c \in B : Kills(u, c)' => Kills(u, c)
    BY <1>0 DEF Kills, Others
  <2>4. Apart(B)
    BY DEF Apart
  <2>5. /\ life' \in [Browsers -> Lives] /\ reap' \in [Browsers -> SUBSET {"timeout", "destroy"}]
        /\ cancelled' = {c \in Browsers : "destroy" \in reap'[c]}
    BY DEF Inv, LivesInv
  <2> QED
    BY <2>1, <2>2, <2>3, <2>4, <2>5, FocusOK
<1>3. PermitBook'
  BY <1>0, PermitReturned
<1>4. DeathBook'
  <2>1. \A s \in Sessions : Reaping(s)' = Reaping(s) /\ Killers(s)' = Killers(s)
    BY <1>0 DEF Reaping, Killers, Others
  <2> QED
    BY <2>1, DeathsKept
<1>5. OneTied'
  <2>1. \A c \in Browsers : Tied(c)' => Tied(c) /\ home'[c] = home[c]
    BY DEF Tied
  <2> QED
    BY <2>1, TiesKept
<1> QED
  BY <1>1, <1>2, <1>3, <1>4, <1>5, BooksParts DEF Inv

LEMMA FinishOK == ASSUME Inv, NEW t \in Threads, scene' = scene, Finish(t) PROVE Inv'
<1>b. PICK b \in Browsers : b = task[t].br
  BY DEF Inv, Finish, ThreadsInv, ThreadOK, Named
<1>0. ThreadsInv /\ At(t, "finish") /\ Busy(t) /\ b = task[t].br /\ Makes(t, b)
  BY <1>b DEF Inv, Finish, Busy, Makes, Making
<1>1. UNCHANGED <<home, life, reap, cancelled, destroying, stopped, phase, handle>>
  BY DEF Finish
<1>2. /\ Creation(t, b) /\ BrowserOK(b) /\ reap[b] \subseteq {"timeout", "destroy"}
      /\ \A u \in Threads : Makes(u, b) => u = t
      /\ Status(b) # "none" => home[b] \in Sessions
  BY <1>0, CreatorFacts
<1>3. /\ life[b] = "running" /\ "timeout" \notin reap[b] /\ Status(b) \in {"creating", "none"}
      /\ Status(b) = "creating" \/ "destroy" \in reap[b]
      /\ Status(b) = "creating" => "destroy" \notin reap[b]
  BY <1>0, <1>2 DEF Creation, BrowserOK
<1>4. CASE StillWanted(b) /\ Becomes(b, Idle) /\ permits' = Freed(permits) /\ Goto(t, "lockNew")
  <2>1. Others(t) /\ ThreadOK(t)' /\ task'[t].pc = "lockNew"
    BY <1>0, <1>4, GotoOK, StepNames
  <2>2. /\ Status(b)' = "idle" /\ DOMAIN entry' = Browsers
        /\ \A c \in Browsers \ {b} : Status(c)' = Status(c)
    BY <1>0, <1>4 DEF Becomes, Idle, Status, ThreadsInv
  <2>3. Status(b) = "creating" /\ reap[b] = {}
    BY <1>2, <1>3, <1>4 DEF StillWanted
  <2>4. BrowserOK(b)'
    BY <1>1, <1>3, <2>2, <2>3 DEF BrowserOK, Ready
  <2>5. \A u \in Threads : ~Kills(u, b)
    BY <2>3 DEF Inv, LivesInv, KillerOK, Destruction
  <2>6. \A c \in Browsers : Makes(t, c) <=> c \in {b}
    BY <1>0 DEF Makes
  <2>7. Moved(t) /\ PhaseStep /\ permits' = permits + 1
    BY <1>0, <1>1, <1>4, <2>1, SamePhase DEF Moved, Freed
  <2>8. task[t].pc \in Permitted /\ task'[t].pc \in Plain /\ ~At(t, "place")
    BY <1>0, <2>1, Kinds DEF Permitted, Making
  <2>9. \A c \in {b} : /\ Status(c)' \in Statuses /\ BrowserOK(c)'
                       /\ Status(c)' # "none" => Status(c) # "none"
    BY <2>2, <2>3, <2>4 DEF Statuses
  <2>10. \A u \in Threads : \A c \in {b} : Kills(u, c) => Destruction(u, c)'
    BY <2>5
  <2> QED
    BY <1>1, <2>2, <2>6, <2>7, <2>8, <2>9, <2>10, MakerEndsOK
<1>5. ASSUME ~StillWanted(b), Becomes(b, NoEntry), permits' = permits,
             NEW p \in {"abandon", "discard"}, Goto(t, p),
             p = (IF b \in cancelled THEN "abandon" ELSE "discard")
      PROVE  Inv'
  <2>1. Others(t) /\ ThreadOK(t)' /\ task'[t].pc = p /\ task'[t].br = b
    BY <1>0, <1>5, GotoOK, StepNames
  <2>2. /\ Status(b)' = "none" /\ DOMAIN entry' = Browsers
        /\ \A c \in Browsers \ {b} : Status(c)' = Status(c)
    BY <1>0, <1>5 DEF Becomes, NoEntry, Status, ThreadsInv
  <2>3. Makes(t, b)' /\ \A u \in Threads : Makes(u, b)' => u = t
    BY <1>2, <2>1 DEF Makes, Making, Others
  <2>4. b \in cancelled <=> "destroy" \in reap[b]
    BY DEF Inv, LivesInv
  <2>5. p = "discard" => reap[b] = {} /\ stopped
    BY <1>2, <1>3, <1>5, <2>4 DEF StillWanted
  <2>6. p = "abandon" => "destroy" \in reap[b]
    BY <1>5, <2>4
  <2>7. Creation(t, b)'
    BY <1>1, <1>3, <2>1, <2>2, <2>3, <2>5, <2>6 DEF Creation, Giving
  <2>8. BrowserOK(b)'
    <3>1. reap[b] # {} => home[b] \in Sessions
      BY <1>2 DEF BrowserOK
    <3>2. Alive(b)' => reap'[b] # {} \/ (Makes(t, b)' /\ At(t, "discard")')
      BY <1>1, <2>1, <2>3, <2>6
    <3> QED
      BY <1>1, <1>3, <2>2, <3>1, <3>2 DEF BrowserOK, Ready
  <2>9. /\ life' \in [Browsers -> Lives] /\ reap' \in [Browsers -> SUBSET {"timeout", "destroy"}]
        /\ life[b] \in Lives
    BY <1>1 DEF Inv, LivesInv
  <2> QED
    BY <1>0, <1>1, <1>3, <1>5, <2>1, <2>2, <2>3, <2>7, <2>8, <2>9, MakerStepOK DEF CountsSame
<1>6. \/ StillWanted(b) /\ Becomes(b, Idle) /\ permits' = Freed(permits) /\ Goto(t, "lockNew")
      \/ /\ ~StillWanted(b) /\ Becomes(b, NoEntry) /\ permits' = permits
         /\ Goto(t, IF b \in cancelled THEN "abandon" ELSE "discard")
  BY <1>b DEF Finish
<1> QED
  BY <1>4, <1>5, <1>6

LEMMA AbandonOK == ASSUME Inv, NEW t \in Threads, scene' = scene, Abandon(t) PROVE Inv'
<1>0. ThreadsInv /\ task[t].pc \in Giving /\ Busy(t)
  BY DEF Inv, Abandon, Busy, Giving
<1>1. /\ UNCHANGED <<home, life, reap, cancelled, destroying, stopped, handle>>
      /\ permits' = permits + 1
      /\ entry' = [b \in Browsers |-> IF b = task[t].br THEN NoEntry ELSE entry[b]]
  BY DEF Abandon, Freed
<1>2. PhaseStep /\ Moved(t) /\ task'[t].pc \in Plain
  <2>1. CASE Unobtained(t)
    BY <1>0, <1>1, <2>1, UnobtainedOK, Kinds
  <2>2. CASE Fail({t}) /\ Resume(t)
    BY <1>0, <1>1, <2>2, FailOK, ResumeOK, Kinds DEF Moved, Busy
  <2> QED
    BY <2>1, <2>2 DEF Abandon
<1> DEFINE B == {c \in Browsers : c = task[t].br}
<1>3. \A c \in Browsers : Makes(t, c) <=> c \in B
  BY <1>0 DEF Makes, Giving, Making
<1>4. \A c \in Browsers \ B : Status(c)' = Status(c)
  BY <1>1 DEF Status
<1>5. \A c \in B : /\ Status(c)' \in Statuses /\ BrowserOK(c)'
                   /\ Status(c)' # "none" => Status(c) # "none"
  <2> SUFFICES ASSUME NEW c \in Browsers, c = task[t].br
               PROVE  Status(c)' = "none" /\ BrowserOK(c)'
    BY DEF Statuses
  <2>1. Status(c)' = "none"
    BY <1>1 DEF Status, NoEntry
  <2>2. Makes(t, c)
    BY <1>3
  <2>3. Creation(t, c) /\ BrowserOK(c)
    BY <2>2, CreatorFacts
  <2>4. life[c] \in {"refused", "gone"} \/ reap[c] # {}
    BY <1>0, <2>3 DEF Creation
  <2> QED
    BY <1>1, <2>1, <2>3, <2>4 DEF BrowserOK, Ready, Alive, Hazards
<1>6. \A u \in Threads : \A c \in B : Kills(u, c) => Destruction(u, c)'
  <2> SUFFICES ASSUME NEW u \in Threads, NEW c \in Browsers, c = task[t].br, Kills(u, c)
               PROVE  Destruction(u, c)'
    OBVIOUS
  <2>1. Destruction(u, c)
    BY DEF Inv, LivesInv, KillerOK
  <2>2. Status(c) \in {"creating", "none"}
    BY <1>3, CreatorFacts DEF Creation
  <2>3. Status(c)' = "none" /\ life[c] = "gone"
    BY <1>1, <2>1, <2>2 DEF Status, NoEntry, Destruction
  <2> QED
    BY <1>1, <2>1, <2>3 DEF Destruction
<1>7. task[t].pc \in Permitted /\ ~At(t, "place") /\ DOMAIN entry' = Browsers
  BY <1>0, <1>1 DEF Permitted, Making, Giving
<1> HIDE DEF B
<1>8. B \in SUBSET Browsers
  BY DEF B
<1> QED
  BY <1>1, <1>2, <1>3, <1>4, <1>5, <1>6, <1>7, <1>8, MakerEndsOK

LEMMA ReapCreatedOK == ASSUME Inv, NEW b \in Browsers, scene' = scene, ReapCreated(b) PROVE Inv'
<1>0. /\ ThreadsInv /\ Turn /\ UNCHANGED <<entry, home, permits, stopped, task, phase, handle>>
      /\ reap[b] # {} /\ life[b] \in {"running", "refused", "gone"}
  BY DEF Inv, ReapCreated
<1>1. /\ life' \in [Browsers -> Lives] /\ life'[b] \in {"refused", "gone"}
      /\ reap' \in [Browsers -> SUBSET {"timeout", "destroy"}] /\ reap'[b] = {}
      /\ \A c \in Browsers \ {b} : life'[c] = life[c] /\ reap'[c] = reap[c]
  BY <1>0 DEF Inv, LivesInv, ReapCreated, Lives
<1>2. BrowserOK(b) /\ home[b] \in Sessions
  BY <1>0 DEF Inv, LivesInv, BrowserOK
<1>3. \A u \in Threads : ~Makes(u, b)
  <2> SUFFICES ASSUME NEW u \in Threads, Makes(u, b) PROVE FALSE
    OBVIOUS
  <2>1. Creation(u, b) /\ task[u].br = b
    BY CreatorFacts DEF Makes
  <2>2. ~Prompt(u)
    BY <1>0 DEF Turn
  <2>3. task[u].pc \in Outside /\ ~(At(u, "starting") /\ life[b] # "starting")
    BY <2>1, <2>2 DEF Prompt
  <2>4. At(u, "starting") \/ At(u, "discard")
    BY <2>3 DEF Makes, Making, Outside
  <2> QED
    BY <1>0, <2>1, <2>3, <2>4 DEF Creation
<1>4. \A u \in Threads : ~Kills(u, b)
  BY <1>0 DEF Inv, LivesInv, KillerOK, Destruction
<1>5. Status(b) = "none"
  BY <1>0, <1>2, <1>3 DEF BrowserOK
<1>6. \A c \in Browsers : Status(c)' = Status(c)
  BY <1>0 DEF Status
<1>7. ThreadsInv'
  BY <1>0, SamePhase, SameEntry, ThreadsKept
<1>8. LivesInv'
  <2>1. \A u \in Threads : ~Makes(u, b)' /\ ~Kills(u, b)'
    BY <1>0, <1>3, <1>4 DEF Makes, Kills
  <2>2. BrowserOK(b)'
    BY <1>1, <1>5, <1>6 DEF BrowserOK, Ready, Alive
  <2>3. Apart({b})
    BY <1>0, <1>1, <1>6 DEF Apart
  <2>4. cancelled' = {c \in Browsers : "destroy" \in reap'[c]}
    <3>1. cancelled = {c \in Browsers : "destroy" \in reap[c]}
      BY DEF Inv, LivesInv
    <3>2. cancelled' = cancelled \ {b}
      BY <1>0, <3>1 DEF ReapCreated
    <3> QED
      BY <1>1, <3>1, <3>2
  <2> QED
    BY <1>0, <1>1, <2>1, <2>2, <2>3, <2>4, FocusOK
<1>9. PermitBook'
  BY <1>0, PermitsKept
<1>10. DeathBook'
  <2>1. \A z \in Sessions : Killers(z)' = Killers(z)
    BY <1>0 DEF Killers
  <2>2. CASE "destroy" \in reap[b]
    <3>0. PICK s \in Sessions : s = home[b]
      BY <1>2
    <3>1. destroying' = [destroying EXCEPT ![s] = @ - 1]
      BY <2>2, <3>0 DEF ReapCreated
    <3>2. b \in Reaping(s) /\ Reaping(s)' = Reaping(s) \ {b}
      BY <1>0, <1>1, <2>2, <3>0 DEF Reaping
    <3>3. \A z \in Sessions \ {s} : Reaping(z)' = Reaping(z)
      BY <1>0, <1>1, <3>0 DEF Reaping
    <3>4. \E c \in Reaping(s) : Reaping(s)' = Reaping(s) \ {c} /\ Killers(s)' = Killers(s)
      BY <2>1, <3>2
    <3> QED
      BY <2>1, <3>1, <3>3, <3>4, DeathEnds
  <2>3. CASE "destroy" \notin reap[b]
    <3>1. destroying' = destroying
      BY <2>3 DEF ReapCreated
    <3>2. \A z \in Sessions : Reaping(z)' = Reaping(z)
      BY <1>0, <1>1, <2>3 DEF Reaping
    <3> QED
      BY <2>1, <3>1, <3>2, DeathsKept
  <2> QED
    BY <2>2, <2>3
<1>11. OneTied'
  <2>1. \A c \in Browsers : Tied(c)' => Tied(c) /\ home'[c] = home[c]
    BY <1>0, <1>1, <1>6 DEF Tied
  <2> QED
    BY <2>1, TiesKept
<1> QED
  BY <1>7, <1>8, <1>9, <1>10, <1>11, BooksParts DEF Inv
-----------------------------------------------------------------------------
(* A browser is destroyed.                                                 *)

LEMMA NotifyOK ==
  ASSUME ThreadsInv, NEW t \in Threads, Busy(t), NEW s \in Sessions, NotifyChanged(t, s)
  PROVE  Moved(t) /\ task'[t].pc = "report" /\ task'[t].br = None
<1>1. /\ Others(t) /\ DOMAIN task'[t] = Fields /\ task'[t].pc = "report"
      /\ task'[t].then = task[t].then /\ task'[t].todo = task[t].todo
      /\ task'[t].br = None /\ task'[t].sess = s
  BY DEF ThreadsInv, ThreadOK, NotifyChanged, Others
<1> QED
  BY <1>1 DEF ThreadsInv, ThreadOK, Moved, Busy, Steps, Named

\* A destroyer takes b on, goes on, or is done.
LEMMA KillerStepOK ==
  ASSUME Inv, NEW t \in Threads, NEW b \in Browsers, Moved(t),
         task[t].br = b \/ task[t].pc \in Plain, task'[t].br = b \/ task'[t].pc \in Plain,
         task[t].pc \notin Permitted, task'[t].pc \notin Permitted, task[t].pc # "idle",
         UNCHANGED <<scene, home, permits, stopped, phase, handle>>,
         \A c \in Browsers \ {b} : Status(c)' = Status(c) /\ life'[c] = life[c] /\ reap'[c] = reap[c],
         DOMAIN entry' = Browsers, Status(b)' \in Statuses, Status(b)' # "none" => Status(b) # "none",
         Tied(b)' => Tied(b),
         life' \in [Browsers -> Lives], reap' \in [Browsers -> SUBSET {"timeout", "destroy"}],
         cancelled' = {c \in Browsers : "destroy" \in reap'[c]},
         \A u \in Threads : Makes(u, b) => Creation(u, b)',
         \A u \in Threads \ {t} : Kills(u, b) => Destruction(u, b)',
         Kills(t, b)' => Destruction(t, b)',
         BrowserOK(b)', DeathBook'
  PROVE  Inv'
<1>0. ThreadsInv /\ Others(t)
  BY DEF Inv, Moved
<1>1. ThreadsInv'
  <2>1. \A c \in Browsers : Status(c)' \in Statuses /\ (Status(c)' # "none" => home'[c] \in Sessions)
    BY <1>0 DEF ThreadsInv
  <2>2. PhaseStep /\ home' \in [Browsers -> Sessions \cup {None}]
    BY <1>0, SamePhase DEF ThreadsInv
  <2> QED
    BY <1>0, <2>1, <2>2, ThreadsFocus
<1>2. LivesInv'
  <2>1. \A u \in Threads : task'[u] = task[u] \/ Aside(u, {b})
    BY <1>0 DEF Aside, Makes, Kills, Others, Permitted, Plain
  <2>2. \A u \in Threads : Makes(u, b)' => Makes(u, b)
    BY <1>0 DEF Makes, Others, Permitted
  <2>3. \A u \in Threads \ {t} : Kills(u, b)' => Kills(u, b)
    BY <1>0 DEF Kills, Others
  <2>4. Apart({b})
    BY DEF Apart
  <2> QED
    BY <2>1, <2>2, <2>3, <2>4, FocusOK
<1>3. PermitBook'
  BY <1>0, PermitsKept DEF Others
<1>4. OneTied'
  <2>1. \A c \in Browsers : Tied(c)' => Tied(c) /\ home'[c] = home[c]
    BY DEF Tied
  <2> QED
    BY <2>1, TiesKept
<1> QED
  BY <1>1, <1>2, <1>3, <1>4, BooksParts DEF Inv

\* The facts about a thread and the browser it destroys.
LEMMA DestroyerFacts ==
  ASSUME Inv, NEW t \in Threads, NEW b \in Browsers, Kills(t, b)
  PROVE  /\ Destruction(t, b) /\ BrowserOK(b)
         /\ \A u \in Threads : Kills(u, b) => Destruction(u, b)
         /\ \A u \in Threads : Makes(u, b) => Creation(u, b)
BY CreatorFacts DEF Inv, LivesInv, KillerOK

LEMMA DestroyerOK == ASSUME Inv, NEW t \in Threads, scene' = scene, Destroyer(t) PROVE Inv'
<1>b. PICK b \in Browsers : b = task[t].br
  BY DEF Inv, Destroyer, ThreadsInv, ThreadOK, Named
<1>0. ThreadsInv /\ At(t, "destroyer") /\ Busy(t) /\ b = task[t].br /\ Kills(t, b)
  BY <1>b DEF Inv, Destroyer, Busy, Kills, Killing
<1>1. /\ UNCHANGED <<entry, home, reap, cancelled, destroying, permits, stopped, phase, handle>>
      /\ life' = [life EXCEPT ![b] = "gone"]
  BY <1>b DEF Destroyer
<1>2. Moved(t) /\ task'[t].pc = "destroyed" /\ task'[t].br = b /\ Others(t)
  BY <1>0, GotoOK, StepNames DEF Destroyer, Moved
<1>3. /\ \A c \in Browsers : Status(c)' = Status(c)
      /\ \A c \in Browsers \ {b} : life'[c] = life[c]
      /\ life'[b] = "gone" /\ life' \in [Browsers -> Lives] /\ DOMAIN entry' = Browsers
      /\ \A c \in Browsers : Status(c)' \in Statuses
      /\ reap' \in [Browsers -> SUBSET {"timeout", "destroy"}]
      /\ cancelled' = {c \in Browsers : "destroy" \in reap'[c]}
  BY <1>0, <1>1 DEF Inv, LivesInv, Lives, Status, ThreadsInv
<1>4. /\ Destruction(t, b) /\ BrowserOK(b)
      /\ \A u \in Threads : Kills(u, b) => Destruction(u, b)
      /\ \A u \in Threads : Makes(u, b) => Creation(u, b)
  BY <1>0, DestroyerFacts
<1>5. \A u \in Threads : Kills(u, b) => Destruction(u, b)'
  BY <1>1, <1>3, <1>4 DEF Destruction
<1>6. Destruction(t, b)'
  BY <1>1, <1>3, <1>4 DEF Destruction
<1>7. \A u \in Threads : Makes(u, b) => Creation(u, b)'
  <2> SUFFICES ASSUME NEW u \in Threads, Makes(u, b) PROVE Creation(u, b)'
    OBVIOUS
  <2>1. Creation(u, b) /\ Status(b) = "none" /\ life[b] = "gone"
    BY <1>4 DEF Creation, Destruction
  <2>2. u # t /\ task'[u] = task[u]
    BY <1>0, <1>2 DEF Makes, Making, Others
  <2>3. \A v \in Threads : Makes(v, b)' => v = u
    BY <1>2, <2>1 DEF Creation, Makes, Making, Others
  <2> QED
    BY <1>1, <1>3, <2>1, <2>2, <2>3 DEF Creation, Giving
<1>8. BrowserOK(b)'
  <2>1. Kills(t, b)'
    BY <1>2 DEF Kills, Killing
  <2>2. Status(b) \in {"destroying", "none"} /\ reap[b] = {}
    BY <1>4 DEF Destruction
  <2> QED
    BY <1>1, <1>3, <2>1, <2>2 DEF BrowserOK, Ready, Alive
<1>9. DeathBook'
  <2>1. \A s \in Sessions : Reaping(s)' = Reaping(s) /\ Killers(s)' = Killers(s)
    BY <1>0, <1>1, <1>2 DEF Reaping, Killers, Killing, Others
  <2> QED
    BY <1>1, <2>1, DeathsKept
<1>10. task[t].pc \notin Permitted /\ task'[t].pc \notin Permitted /\ task[t].pc # "idle"
  BY <1>0, <1>2 DEF Permitted, Making
<1>11. Tied(b)' => Tied(b)
  BY <1>1, <1>3 DEF Tied
<1> QED
  BY <1>0, <1>1, <1>2, <1>3, <1>5, <1>6, <1>7, <1>8, <1>9, <1>10, <1>11, KillerStepOK

LEMMA DestroyedOK == ASSUME Inv, NEW t \in Threads, scene' = scene, Destroyed(t) PROVE Inv'
<1>b. PICK b \in Browsers : b = task[t].br
  BY DEF Inv, Destroyed, ThreadsInv, ThreadOK, Named
<1>0. ThreadsInv /\ At(t, "destroyed") /\ Busy(t) /\ b = task[t].br /\ Kills(t, b)
  BY <1>b DEF Inv, Destroyed, Busy, Kills, Killing
<1>1. /\ UNCHANGED <<home, life, reap, cancelled, permits, stopped, phase, handle>>
      /\ entry' = [entry EXCEPT ![b] = IF @.status = "destroying" THEN NoEntry ELSE @]
      /\ destroying' = [destroying EXCEPT ![home[b]] = @ - 1]
  BY <1>b DEF Destroyed
<1>2. /\ Destruction(t, b) /\ BrowserOK(b)
      /\ \A u \in Threads : Kills(u, b) => Destruction(u, b)
      /\ \A u \in Threads : Makes(u, b) => Creation(u, b)
  BY <1>0, DestroyerFacts
<1>3. home[b] \in Sessions /\ life[b] = "gone" /\ reap[b] = {} /\ Status(b) \in {"destroying", "none"}
  BY <1>0, <1>2 DEF Destruction
<1>4. Moved(t) /\ task'[t].pc = "report" /\ Others(t)
  BY <1>b, <1>0, <1>3, NotifyOK DEF Destroyed, Moved
<1>5. /\ \A c \in Browsers \ {b} : Status(c)' = Status(c)
      /\ Status(b)' = "none" /\ DOMAIN entry' = Browsers
      /\ life' \in [Browsers -> Lives]
      /\ reap' \in [Browsers -> SUBSET {"timeout", "destroy"}]
      /\ cancelled' = {c \in Browsers : "destroy" \in reap'[c]}
  BY <1>0, <1>1, <1>3 DEF Inv, LivesInv, Status, ThreadsInv, NoEntry
<1>6. \A u \in Threads : Kills(u, b) => Destruction(u, b)'
  BY <1>1, <1>2, <1>3, <1>5 DEF Destruction
<1>7. \A u \in Threads : Makes(u, b) => Creation(u, b)'
  <2> SUFFICES ASSUME NEW u \in Threads, Makes(u, b) PROVE Creation(u, b)'
    OBVIOUS
  <2>1. Creation(u, b) /\ Status(b) = "none"
    BY <1>2, <1>3 DEF Creation
  <2>2. u # t /\ task'[u] = task[u]
    BY <1>0, <1>4 DEF Makes, Making, Others
  <2>3. \A v \in Threads : Makes(v, b)' => v = u
    BY <1>4, <2>1 DEF Creation, Makes, Making, Others
  <2> QED
    BY <1>1, <1>3, <1>5, <2>1, <2>2, <2>3 DEF Creation, Giving
<1>8. BrowserOK(b)'
  BY <1>1, <1>3, <1>5 DEF BrowserOK, Ready, Alive
<1>9. ~Kills(t, b)' /\ task'[t].pc \in Plain
  BY <1>4, Kinds DEF Kills, Killing
<1>10. DeathBook'
  <2>1. t \in Killers(home[b]) /\ Killers(home[b])' = Killers(home[b]) \ {t}
    BY <1>0, <1>1, <1>4 DEF Killers, Killing, Others
  <2>2. \A z \in Sessions \ {home[b]} : Killers(z)' = Killers(z)
    BY <1>0, <1>1, <1>4 DEF Killers, Killing, Others
  <2>3. \A z \in Sessions : Reaping(z)' = Reaping(z)
    BY <1>1 DEF Reaping
  <2> QED
    BY <1>1, <1>3, <2>1, <2>2, <2>3, DeathEnds
<1>11. task[t].pc \notin Permitted /\ task'[t].pc \notin Permitted /\ task[t].pc # "idle"
  BY <1>0, <1>4 DEF Permitted, Making
<1>12. (Tied(b)' => Tied(b)) /\ Status(b)' \in Statuses
  BY <1>1, <1>5 DEF Tied, Statuses
<1> QED
  BY <1>0, <1>1, <1>4, <1>5, <1>6, <1>7, <1>8, <1>9, <1>10, <1>11, <1>12, KillerStepOK

LEMMA DestroyOK == ASSUME Inv, NEW t \in Threads, scene' = scene, Destroy(t) PROVE Inv'
<1>b. PICK b \in Browsers : b = task[t].br
  BY DEF Inv, Destroy, ThreadsInv, ThreadOK, Named
<1>0. ThreadsInv /\ At(t, "destroy") /\ Busy(t) /\ b = task[t].br
  BY <1>b DEF Inv, Destroy, Busy
<1>1. UNCHANGED <<home, life, permits, stopped, phase, handle>>
  BY DEF Destroy
<1>2. /\ BrowserOK(b) /\ Status(b) \in Statuses /\ (Status(b) # "none" => home[b] \in Sessions)
      /\ reap[b] \subseteq {"timeout", "destroy"}
      /\ cancelled = {c \in Browsers : "destroy" \in reap[c]}
  BY DEF Inv, LivesInv, ThreadsInv
<1>3. /\ \A u \in Threads : Makes(u, b) => Creation(u, b)
      /\ \A u \in Threads : Kills(u, b) => Destruction(u, b)
  BY CreatorFacts DEF Inv, LivesInv, KillerOK
<1>4. task[t].pc \in Plain /\ task[t].pc \notin Permitted /\ task[t].pc \notin Killing
      /\ task[t].pc # "idle" /\ task[t].pc \notin Making
  BY <1>0, Kinds DEF Permitted, Making, Killing
<1>5. CASE Resume(t) /\ UNCHANGED <<entry, reap, cancelled, destroying>>
  <2>1. PoolSame /\ EntryStep /\ PhaseStep
    BY <1>0, <1>1, <1>5, SameEntry, SamePhase DEF PoolSame
  <2>2. PlainBy(t)
    BY <1>0, <1>4, <1>5, <2>1, ResumeOK, Kinds DEF PlainBy, Moved
  <2> QED
    BY <2>2, PlainStepOK DEF PlainStep
<1>6. CASE /\ Status(b) = "creating"
           /\ Becomes(b, NoEntry)
           /\ destroying' = Marked(home[b])
           /\ cancelled' = cancelled \cup {b}
           /\ reap' = [reap EXCEPT ![b] = @ \cup {"destroy"}]
           /\ NotifyChanged(t, home[b])
  <2>0. PICK s \in Sessions : s = home[b]
    BY <1>2, <1>6
  <2>1. Moved(t) /\ task'[t].pc = "report" /\ Others(t)
    BY <1>0, <1>6, <2>0, NotifyOK DEF Moved
  <2>2. /\ Status(b)' = "none" /\ DOMAIN entry' = Browsers
        /\ reap'[b] = reap[b] \cup {"destroy"}
        /\ \A c \in Browsers \ {b} : Status(c)' = Status(c) /\ reap'[c] = reap[c]
        /\ reap' \in [Browsers -> SUBSET {"timeout", "destroy"}] /\ life' \in [Browsers -> Lives]
    BY <1>0, <1>1, <1>6 DEF Inv, LivesInv, ThreadsInv, Becomes, NoEntry, Status
  <2>3. cancelled' = {c \in Browsers : "destroy" \in reap'[c]}
    BY <1>2, <1>6, <2>2
  <2>4. \A u \in Threads : ~Kills(u, b)
    BY <1>3, <1>6 DEF Destruction
  <2>5. \A u \in Threads : Makes(u, b) => Creation(u, b)'
    <3> SUFFICES ASSUME NEW u \in Threads, Makes(u, b) PROVE Creation(u, b)'
      OBVIOUS
    <3>1. Creation(u, b) /\ ~At(u, "discard")
      BY <1>3, <1>6 DEF Creation
    <3>2. u # t /\ task'[u] = task[u]
      BY <1>4, <2>1 DEF Makes, Others
    <3>3. \A v \in Threads : Makes(v, b)' => v = u
      BY <2>1, <3>1 DEF Creation, Makes, Making, Others
    <3> QED
      BY <1>1, <2>2, <3>1, <3>2, <3>3 DEF Creation
  <2>6. BrowserOK(b)'
    <3>1. ("timeout" \in reap[b] => "slow" \in Hazards) /\ Hazards' = Hazards
      BY <1>2 DEF BrowserOK, Hazards
    <3>2. home'[b] \in Sessions
      BY <1>1, <2>0
    <3> QED
      BY <2>2, <3>1, <3>2 DEF BrowserOK, Ready
  <2>7. DeathBook'
    <3>1. b \notin Reaping(s) /\ Reaping(s)' = Reaping(s) \cup {b}
      BY <1>1, <1>2, <1>6, <2>0, <2>2 DEF Reaping, BrowserOK
    <3>2. \A z \in Sessions \ {s} : Reaping(z)' = Reaping(z)
      BY <1>1, <2>0, <2>2 DEF Reaping
    <3>3. \A z \in Sessions : Killers(z)' = Killers(z)
      BY <1>1, <1>4, <2>1 DEF Killers, Killing, Others
    <3>4. \E c : c \notin Reaping(s) /\ Reaping(s)' = Reaping(s) \cup {c} /\ Killers(s)' = Killers(s)
      BY <3>1, <3>3
    <3>5. destroying' = Marked(s)
      BY <1>6, <2>0
    <3> QED
      BY <3>2, <3>3, <3>4, <3>5, DeathBegins
  <2>8. task'[t].pc \in Plain /\ task'[t].pc \notin Permitted /\ ~Kills(t, b)'
    BY <2>1, Kinds DEF Permitted, Making, Kills, Killing
  <2>9. (Tied(b)' => Tied(b)) /\ Status(b)' \in Statuses
    BY <1>6, <2>2 DEF Tied, Statuses
  <2>10. \A c \in Browsers \ {b} : Status(c)' = Status(c) /\ life'[c] = life[c] /\ reap'[c] = reap[c]
    BY <1>1, <2>2
  <2> QED
    BY <1>1, <1>4, <2>1, <2>2, <2>3, <2>4, <2>5, <2>6, <2>7, <2>8, <2>9, <2>10, KillerStepOK
<1>7. CASE /\ Status(b) \in {"idle", "locked", "destroying"}
           /\ Becomes(b, [status |-> "destroying", holder |-> None])
           /\ destroying' = Marked(home[b])
           /\ Goto(t, "destroyer")
           /\ UNCHANGED <<reap, cancelled>>
  <2>0. PICK s \in Sessions : s = home[b]
    BY <1>2, <1>7
  <2>1. Moved(t) /\ task'[t].pc = "destroyer" /\ task'[t].br = b /\ Others(t)
    BY <1>0, <1>7, GotoOK, StepNames DEF Moved
  <2>2. /\ Status(b)' = "destroying" /\ DOMAIN entry' = Browsers
        /\ \A c \in Browsers \ {b} : Status(c)' = Status(c)
        /\ reap' \in [Browsers -> SUBSET {"timeout", "destroy"}] /\ life' \in [Browsers -> Lives]
        /\ cancelled' = {c \in Browsers : "destroy" \in reap'[c]}
    BY <1>0, <1>1, <1>7 DEF Inv, LivesInv, ThreadsInv, Becomes, Status
  <2>3. reap[b] = {} /\ life[b] \in {"running", "gone"}
    BY <1>2, <1>7 DEF BrowserOK, Ready
  <2>4. \A u \in Threads : ~Makes(u, b)
    BY <1>3, <1>7 DEF Creation
  <2>5. \A u \in Threads \ {t} : Kills(u, b) => Destruction(u, b)'
    BY <1>1, <1>3, <1>7, <2>1, <2>2 DEF Destruction, Others
  <2>6. Kills(t, b)' /\ Destruction(t, b)'
    BY <1>1, <1>7, <2>0, <2>1, <2>2, <2>3 DEF Kills, Killing, Destruction
  <2>7. BrowserOK(b)'
    BY <1>1, <1>7, <2>2, <2>3, <2>6 DEF BrowserOK, Ready
  <2>8. DeathBook'
    <3>1. t \notin Killers(s) /\ Killers(s)' = Killers(s) \cup {t}
      BY <1>1, <1>4, <2>0, <2>1 DEF Killers, Killing, Others
    <3>2. \A z \in Sessions \ {s} : Killers(z)' = Killers(z)
      BY <1>1, <1>4, <2>0, <2>1 DEF Killers, Killing, Others
    <3>3. \A z \in Sessions : Reaping(z)' = Reaping(z)
      BY <1>1, <1>7 DEF Reaping
    <3>4. \E u : u \notin Killers(s) /\ Killers(s)' = Killers(s) \cup {u} /\ Reaping(s)' = Reaping(s)
      BY <3>1, <3>3
    <3>5. destroying' = Marked(s)
      BY <1>7, <2>0
    <3> QED
      BY <3>2, <3>3, <3>4, <3>5, DeathBegins
  <2>9. task'[t].pc \notin Permitted
    BY <2>1 DEF Permitted, Making
  <2>10. (Tied(b)' => Tied(b)) /\ Status(b)' \in Statuses /\ Status(b) # "none"
    BY <1>7, <2>2 DEF Tied, Statuses
  <2>11. \A c \in Browsers \ {b} : Status(c)' = Status(c) /\ life'[c] = life[c] /\ reap'[c] = reap[c]
    BY <1>1, <1>7, <2>2
  <2> QED
    BY <1>1, <1>4, <2>1, <2>2, <2>4, <2>5, <2>6, <2>7, <2>8, <2>9, <2>10, <2>11, KillerStepOK
<1> QED
  BY <1>b, <1>5, <1>6, <1>7 DEF Destroy
-----------------------------------------------------------------------------
(* The invariant.                                                          *)

LEMMA InitInv == Init => Inv
<1> SUFFICES ASSUME Init PROVE Inv
  OBVIOUS
<1>1. /\ \A t \in Threads : task[t] = NoTask /\ task[t].pc = "idle"
      /\ \A b \in Browsers : Status(b) = "none" /\ life[b] = "none" /\ reap[b] = {}
  BY NoTaskOK DEF Init, Status, NoEntry
<1>2. \A t \in Threads : ThreadOK(t)
  BY <1>1, NoTaskOK, PlanFacts DEF ThreadOK, Steps, Named, Nowhere
<1>3. ThreadsInv
  BY <1>1, <1>2 DEF Init, ThreadsInv, Phases, Statuses
<1>4. LivesInv
  <2>1. \A t \in Threads : \A b \in Browsers : ~Makes(t, b) /\ ~Kills(t, b)
    BY <1>1 DEF Makes, Kills, Making, Killing
  <2>2. \A b \in Browsers : BrowserOK(b)
    BY <1>1 DEF BrowserOK, Ready, Alive
  <2>3. /\ life \in [Browsers -> Lives] /\ reap \in [Browsers -> SUBSET {"timeout", "destroy"}]
        /\ cancelled = {b \in Browsers : "destroy" \in reap[b]}
    BY <1>1 DEF Init, Lives
  <2> QED
    BY <2>1, <2>2, <2>3 DEF LivesInv, MakerOK, KillerOK
<1>5. Books
  <2>1. Holders = {}
    BY <1>1 DEF Holders, Permitted, Making
  <2>2. \A s \in Sessions : Reaping(s) = {} /\ Killers(s) = {}
    BY <1>1 DEF Reaping, Killers, Killing
  <2>3. IsFiniteSet({}) /\ Cardinality({}) = 0
    BY FS_EmptySet
  <2>4. MaxCreating \in Nat
    BY PoolAssumption
  <2>5. permits = MaxCreating /\ destroying = [s \in Sessions |-> 0]
    BY DEF Init
  <2>6. \A s \in Sessions : /\ IsFiniteSet(Reaping(s)) /\ IsFiniteSet(Killers(s))
                            /\ destroying[s] = Cardinality(Reaping(s)) + Cardinality(Killers(s))
    BY <2>2, <2>3, <2>5
  <2>7. IsFiniteSet(Holders) /\ permits + Cardinality(Holders) = MaxCreating
    BY <2>1, <2>3, <2>4, <2>5
  <2> QED
    BY <2>4, <2>5, <2>6, <2>7 DEF Books
<1>6. OneTied
  BY <1>1 DEF OneTied, Tied
<1> QED
  BY <1>3, <1>4, <1>5, <1>6 DEF Inv

LEMMA AdvanceOK == ASSUME Inv, NEW t \in Threads, scene' = scene, Advance(t) PROVE Inv'
<1>1. CASE Reuse(t) \/ Lock(t) \/ Create(t) \/ Peek(t) \/ Lookup(t) \/ Dequeue(t) \/ Take(t)
           \/ Check(t) \/ Clean(t) \/ Hand(t) \/ Refuse(t) \/ Return(t) \/ Reset(t) \/ Settle(t)
           \/ Report(t) \/ CancelPlugin(t) \/ Later(t)
  <2>1. PlainBy(t)
    BY <1>1, ReuseOK, LockOK, CreateOK, PeekOK, LookupOK, DequeueOK, TakeOK, CheckOK, CleanOK,
       HandOK, RefuseOK, ReturnOK, ResetOK, SettleOK, ReportOK, CancelPluginOK, LaterOK
  <2> QED
    BY <2>1, PlainStepOK DEF PlainStep
<1>2. CASE GetPermit(t) \/ Place(t) \/ AwaitFactory(t) \/ Finish(t) \/ Discard(t) \/ Abandon(t)
  BY <1>2, GetPermitOK, PlaceOK, AwaitFactoryOK, FinishOK, DiscardOK, AbandonOK
<1>3. CASE Destroy(t) \/ Destroyer(t) \/ Destroyed(t)
  BY <1>3, DestroyOK, DestroyerOK, DestroyedOK
<1> QED
  BY <1>1, <1>2, <1>3 DEF Advance

LEMMA StepInv == Inv /\ [Next]_vars => Inv'
<1> SUFFICES ASSUME Inv, [Next]_vars PROVE Inv'
  OBVIOUS
<1>1. CASE UNCHANGED vars
  <2>1. PhaseStep /\ EntryStep /\ PoolSame /\ task' = task
    BY <1>1, SamePhase, SameEntry DEF Inv, PoolSame, vars
  <2> QED
    BY <2>1, PlainStepOK DEF PlainStep
<1>2. CASE Next
  <2>0. scene' = scene
    BY <1>2 DEF Next
  <2>1. ASSUME NEW r \in Requests, Caller(r) PROVE Inv'
    <3>1. PlainStep
      BY <2>0, <2>1, AcquireOK, TakeoverOK, SeizeOK, EnqueueOK, GiveUpOK, BuildHandleOK DEF Caller
    <3> QED
      BY <3>1, PlainStepOK
  <2>2. ASSUME NEW t \in Threads, Advance(t) PROVE Inv'
    BY <2>0, <2>2, AdvanceOK
  <2>3. ASSUME NEW t \in Workers, StartJob(t) \/ \E r \in Requests : Release(t, r) PROVE Inv'
    <3>1. PlainStep
      BY <2>0, <2>3, StartJobOK, ReleaseOK
    <3> QED
      BY <3>1, PlainStepOK
  <2>4. ASSUME NEW b \in Browsers, Launch(b) \/ ReapCreated(b) PROVE Inv'
    BY <2>0, <2>4, LaunchOK, ReapCreatedOK
  <2> QED
    BY <1>2, <2>1, <2>2, <2>3, <2>4 DEF Next
<1> QED
  BY <1>1, <1>2

\* The pool's map, its instances and its counts agree with what its threads are
\* doing (createBrowser, destroyBrowser, and every caller of theirs).
THEOREM PoolInv == Spec => []Inv
BY InitInv, StepInv, PTL DEF Spec

\* One live instance for a profile: the instances of createBrowser, those still
\* being launched or destroyed included, unless a factory outlives its time limit or
\* stop() has taken a browser out of the map that its creator is about to destroy.
THEOREM OneInstance == Spec => []OneLiveInstance
<1>1. Inv => OneLiveInstance
  <2> SUFFICES ASSUME Inv, "slow" \notin Hazards, NEW a \in Browsers, NEW b \in Browsers,
                      Alive(a), Alive(b), home[a] = home[b]
               PROVE  a = b \/ Discarded(a) \/ Discarded(b)
    BY DEF OneLiveInstance
  <2>1. \A c \in Browsers : Alive(c) => Tied(c) \/ Discarded(c)
    <3> SUFFICES ASSUME NEW c \in Browsers, Alive(c) PROVE Tied(c) \/ Discarded(c)
      OBVIOUS
    <3>1. BrowserOK(c) /\ reap[c] \subseteq {"timeout", "destroy"}
      BY DEF Inv, LivesInv
    <3>2. reap[c] = {} \/ "destroy" \in reap[c]
      BY <3>1 DEF BrowserOK
    <3> QED
      BY <3>1, <3>2 DEF BrowserOK, Tied, Discarded, Makes
  <2> QED
    BY <2>1 DEF Inv, OneTied
<1> QED
  BY <1>1, PoolInv, PTL

\* When no thread has anything to do and no factory is running, the map holds the
\* live instances and nothing else, all of them idle or lent, every destruction has
\* been counted off, and every permit is back (createBrowser, destroyBrowser).
THEOREM NothingIsLeft == Spec => []NothingLeftBehind
<1>1. Inv => NothingLeftBehind
  <2> SUFFICES ASSUME Inv, Quiet
               PROVE  /\ \A b \in Browsers : IF Ready(b) THEN life[b] = "running"
                                             ELSE Status(b) = "none" /\ ~Alive(b)
                      /\ \A s \in Sessions : destroying[s] = 0
                      /\ cancelled = {}
                      /\ permits = MaxCreating
    BY DEF NothingLeftBehind
  <2>1. /\ \A t \in Threads : task[t].pc = "idle"
        /\ \A b \in Browsers : reap[b] = {}
    BY DEF Quiet
  <2>2. \A t \in Threads : \A b \in Browsers : ~Makes(t, b) /\ ~Kills(t, b)
    BY <2>1 DEF Makes, Kills, Making, Killing
  <2>3. \A b \in Browsers : IF Ready(b) THEN life[b] = "running"
                            ELSE Status(b) = "none" /\ ~Alive(b)
    <3> SUFFICES ASSUME NEW b \in Browsers
                 PROVE  IF Ready(b) THEN life[b] = "running" ELSE Status(b) = "none" /\ ~Alive(b)
      OBVIOUS
    <3>1. BrowserOK(b) /\ Status(b) \in Statuses
      BY DEF Inv, LivesInv, ThreadsInv
    <3> QED
      BY <2>1, <2>2, <3>1 DEF BrowserOK, Statuses, Ready
  <2>4. Holders = {} /\ \A s \in Sessions : Reaping(s) = {} /\ Killers(s) = {}
    BY <2>1 DEF Holders, Reaping, Killers, Permitted, Making, Killing
  <2>5. Cardinality({}) = 0
    BY FS_EmptySet
  <2>6. permits = MaxCreating /\ \A s \in Sessions : destroying[s] = 0
    <3>1. /\ permits \in Nat /\ permits + Cardinality(Holders) = MaxCreating
          /\ \A s \in Sessions : destroying[s] = Cardinality(Reaping(s)) + Cardinality(Killers(s))
      BY DEF Inv, Books
    <3>2. permits + 0 = MaxCreating /\ \A s \in Sessions : destroying[s] = 0 + 0
      BY <2>4, <2>5, <3>1
    <3> QED
      BY <3>1, <3>2
  <2>7. cancelled = {}
    BY <2>1 DEF Inv, LivesInv
  <2> QED
    BY <2>3, <2>6, <2>7
<1> QED
  BY <1>1, PoolInv, PTL

-----------------------------------------------------------------------------
(* Handles and locks.  Calls says what a thread works for and owes, and    *)
(* what the queues hold; the rest of Order says who may take a browser     *)
(* away from whom.                                                         *)

\* The steps of an acquire; those that replace a browser, that serve the queue, and
\* that hand a browser over.
OwnSteps == {"idle", "reuse", "lock", "create", "permit", "place", "starting", "finish",
             "discard", "abandon", "abort", "lockNew", "enqueue", "seize"}
Renewing == {"create", "permit", "place", "starting", "finish", "discard", "abandon",
             "abort", "lockNew"}
Serving == Renewing \cup {"lookup", "reuse", "lock", "dequeue"}
Handing == {"check", "clean", "hand"}
Endings == {<<"refuse">>, <<"create">>}
Winding == {"return", "reset", "settle", "destroy", "destroyer", "destroyed", "report", "peek"}

\* A waiter taken off its queue is answered at the end of what its thread does.
OwedOK(t) ==
  IF task[t].owed = None
  THEN task[t].then \notin Endings /\ task[t].pc \notin Handing \cup {"refuse"}
  ELSE /\ phase[task[t].owed] = "served" /\ task[t].todo = {}
       /\ \/ task[t].then = <<>> /\ task[t].pc \in Handing \cup {"refuse"}
          \/ task[t].then = <<>> /\ task[t].pc \in Renewing /\ task[t].req = task[t].owed
          \/ task[t].then \in Endings /\ task[t].pc \in Winding
          \/ task[t].then \in Endings /\ task[t].pc \in Serving /\ task[t].req # task[t].owed
OwnOK(t) ==
  /\ task[t].owed = None /\ task[t].then = <<>> /\ task[t].todo = {}
  /\ task[t].pc \in OwnSteps
  /\ ~At(t, "idle") => task[t].req = t /\ phase[t] = "calling"
CallOK(t) ==
  /\ task[t].req \in Requests \cup {None} /\ task[t].owed \in Requests \cup {None}
  /\ task[t].aim \subseteq Requests
  /\ At(t, "idle") => task[t] = NoTask
  /\ task[t].pc \in Serving => task[t].req \in Requests
  /\ At(t, "take") => task[t].then = <<>> /\ task[t].todo = {}
  /\ t \in Requests => OwnOK(t)
  /\ OwedOK(t)

QueueOK ==
  /\ queue \in [Sessions -> Seq(Requests)]
  /\ \A s \in Sessions : \A i \in DOMAIN queue[s] :
       /\ phase[queue[s][i]] = "waiting" /\ Session[queue[s][i]] = s
       /\ \A j \in DOMAIN queue[s] : queue[s][i] = queue[s][j] => i = j
OweOne == \A t, u \in Threads : task[t].owed = task[u].owed /\ task[t].owed # None => t = u
EntryOK ==
  /\ entry \in [Browsers -> [status : Statuses, holder : Requests \cup {None}]]
  /\ \A b \in Browsers : entry[b].holder # None => Status(b) = "locked"
Calls == /\ \A t \in Threads : CallOK(t)
         /\ QueueOK /\ OweOne /\ EntryOK /\ revoked \subseteq Requests

\* What a step does to the task of its thread.
Rest(t) == /\ task'[t].sess = task[t].sess /\ task'[t].owed = task[t].owed
           /\ task'[t].aim = task[t].aim /\ task'[t].then = task[t].then
           /\ task'[t].todo = task[t].todo
Goes(t, p) == Others(t) /\ task'[t].pc = p /\ Rest(t) /\ task'[t].req = task[t].req
Walks(t, p) == Goes(t, p) /\ task'[t].br = task[t].br
Resumes(t) ==
  /\ Others(t)
  /\ \/ /\ task[t].then # <<>>
        /\ task'[t].pc = Head(task[t].then) /\ task'[t].then = Tail(task[t].then)
        /\ task'[t].req = task[t].owed /\ task'[t].owed = task[t].owed
        /\ task'[t].aim = task[t].aim /\ task'[t].todo = task[t].todo
        /\ task'[t].br = task[t].br /\ task'[t].sess = task[t].sess
     \/ /\ task[t].then = <<>>
        /\ \E b \in task[t].todo :
             /\ task'[t].pc = "destroy" /\ task'[t].br = b /\ task'[t].todo = task[t].todo \ {b}
             /\ task'[t].req = task[t].req /\ task'[t].owed = task[t].owed
             /\ task'[t].aim = task[t].aim /\ task'[t].then = task[t].then
             /\ task'[t].sess = task[t].sess
     \/ task[t].then = <<>> /\ task[t].todo = {} /\ task'[t] = NoTask

LEMMA GotoWalks ==
  ASSUME ThreadsInv, NEW t \in Threads, NEW p, Goto(t, p)
  PROVE  Walks(t, p)
BY DEF ThreadsInv, ThreadOK, Walks, Goes, Rest, Others

LEMMA GotoWithWalks ==
  ASSUME ThreadsInv, NEW t \in Threads, NEW p, NEW b, GotoWith(t, p, b)
  PROVE  Goes(t, p) /\ task'[t].br = b
BY DEF ThreadsInv, ThreadOK, Goes, Rest, Others

LEMMA PassWalks ==
  ASSUME ThreadsInv, NEW t \in Threads, NextPass(t)
  PROVE  Walks(t, "peek")
BY DEF ThreadsInv, ThreadOK, NextPass, Walks, Goes, Rest, Others

LEMMA ResumeWalks ==
  ASSUME ThreadsInv, NEW t \in Threads, Resume(t)
  PROVE  Resumes(t)
<1>t. DOMAIN task = Threads /\ DOMAIN task[t] = Fields
  BY DEF ThreadsInv, ThreadOK
<1> DEFINE k == task[t]
<1>1. CASE k.then # <<>>
  <2>1. task' = [task EXCEPT ![t].pc = Head(k.then), ![t].then = Tail(k.then),
                             ![t].tries = 0, ![t].req = k.owed]
    BY <1>1 DEF Resume
  <2> QED
    BY <1>t, <1>1, <2>1 DEF Resumes, Others
<1>2. CASE k.then = <<>> /\ k.todo # {}
  <2>1. PICK b \in k.todo : task' = [task EXCEPT ![t].pc = "destroy", ![t].br = b,
                                                 ![t].todo = @ \ {b}]
    BY <1>2 DEF Resume
  <2> QED
    BY <1>t, <1>2, <2>1 DEF Resumes, Others
<1>3. CASE k.then = <<>> /\ k.todo = {}
  <2>1. task' = [task EXCEPT ![t] = NoTask]
    BY <1>3 DEF Resume
  <2> QED
    BY <1>t, <1>3, <2>1 DEF Resumes, Others
<1> QED
  BY <1>1, <1>2, <1>3

LEMMA EndWalks ==
  ASSUME ThreadsInv, NEW t \in Threads, NEW k, task' = [task EXCEPT ![t] = k]
  PROVE  Others(t) /\ task'[t] = k
BY DEF ThreadsInv, Others

LEMMA NoTaskCall == 
  /\ NoTask.pc = "idle" /\ NoTask.req = None /\ NoTask.owed = None /\ NoTask.aim = {}
  /\ NoTask.then = <<>> /\ NoTask.todo = {} /\ NoTask.br = None
BY DEF NoTask

LEMMA IdleCall ==
  ASSUME ThreadsInv, NEW t \in Threads, task'[t] = NoTask
  PROVE  CallOK(t)'
BY NoTaskCall DEF CallOK, OwedOK, OwnOK, Serving, Renewing, OwnSteps, Endings, Handing

LEMMA PlanHeads ==
  /\ \A p \in Plans \ Endings : /\ p # <<>> => Head(p) \in {"peek", "cancelPlugin"}
                                /\ p # <<>> => Tail(p) \notin Endings
  /\ \A p \in Batched : Head(p) \in {"return", "destroy"} /\ Tail(p) \notin Endings
  /\ \A p \in Endings : Head(p) \in {"refuse", "create"} /\ Tail(p) = <<>> /\ p # <<>>
<1>1. /\ Head(<<"peek">>) = "peek" /\ Tail(<<"peek">>) = <<>>
      /\ Head(<<"refuse">>) = "refuse" /\ Tail(<<"refuse">>) = <<>> /\ <<"refuse">> # <<>>
      /\ Head(<<"create">>) = "create" /\ Tail(<<"create">>) = <<>> /\ <<"create">> # <<>>
      /\ Head(<<"destroy">>) = "destroy" /\ Tail(<<"destroy">>) = <<>>
  OBVIOUS
<1>2. /\ Head(<<"cancelPlugin", "peek">>) = "cancelPlugin"
      /\ Tail(<<"cancelPlugin", "peek">>) = <<"peek">>
      /\ Head(<<"return", "peek">>) = "return" /\ Tail(<<"return", "peek">>) = <<"peek">>
      /\ <<"peek">> # <<"refuse">> /\ <<"peek">> # <<"create">>
  OBVIOUS
<1>3. /\ Head(<<"return", "cancelPlugin", "peek">>) = "return"
      /\ Tail(<<"return", "cancelPlugin", "peek">>) = <<"cancelPlugin", "peek">>
      /\ <<"cancelPlugin", "peek">> # <<"refuse">> /\ <<"cancelPlugin", "peek">> # <<"create">>
  OBVIOUS
<1> QED
  BY <1>1, <1>2, <1>3 DEF Plans, Batched, Endings

\* A call that resumes still owes its waiter, if it has more to do.
LEMMA ResumeCalls ==
  ASSUME ThreadsInv, Calls, NEW t \in Threads, Resume(t),
         task[t].owed # None /\ task[t].then # <<>> => phase'[task[t].owed] = "served"
  PROVE  /\ CallOK(t)' /\ Others(t) /\ Resumes(t)
         /\ task'[t].owed = None \/ task'[t].owed = task[t].owed
<1> DEFINE k == task[t]
<1>0. Resumes(t) /\ CallOK(t) /\ ThreadOK(t)
  BY ResumeWalks DEF ThreadsInv, Calls
<1>1. CASE k.then # <<>> /\ k.owed = None
  <2>1. /\ t \notin Requests /\ k.then \in (Plans \ Endings) \cup Batched
    BY <1>0, <1>1 DEF CallOK, OwnOK, OwedOK, ThreadOK
  <2>2. /\ task'[t].pc \in {"peek", "cancelPlugin", "return", "destroy"}
        /\ task'[t].then \notin Endings /\ task'[t].owed = None /\ task'[t].req = None
        /\ task'[t].aim = k.aim
    BY <1>0, <1>1, <2>1, PlanHeads DEF Resumes
  <2> QED
    BY <1>0, <2>1, <2>2 DEF CallOK, OwedOK, Serving, Renewing, Handing, Resumes
<1>2. CASE k.then # <<>> /\ k.owed # None
  <2>1. /\ t \notin Requests /\ k.then \in Endings /\ k.todo = {} /\ k.owed \in Requests
    BY <1>0, <1>2 DEF CallOK, OwnOK, OwedOK
  <2>2. /\ task'[t].pc \in {"refuse", "create"} /\ task'[t].then = <<>>
        /\ task'[t].owed = k.owed /\ task'[t].req = k.owed
        /\ task'[t].aim = k.aim /\ task'[t].todo = {}
    BY <1>0, <1>2, <2>1, PlanHeads DEF Resumes
  <2> QED
    BY <1>0, <1>2, <2>1, <2>2 DEF CallOK, OwedOK, Serving, Renewing, Handing, Resumes
<1>3. CASE k.then = <<>> /\ k.todo # {}
  <2>1. k.owed = None /\ t \notin Requests /\ k.then \notin Endings
    BY <1>0, <1>3 DEF CallOK, OwnOK, OwedOK
  <2>2. /\ task'[t].pc = "destroy" /\ task'[t].then = k.then
        /\ task'[t].owed = k.owed /\ task'[t].req = k.req
        /\ task'[t].aim = k.aim
    BY <1>0, <1>3 DEF Resumes
  <2> QED
    BY <1>0, <1>3, <2>1, <2>2 DEF CallOK, OwedOK, Serving, Renewing, Handing, Resumes
<1>4. CASE k.then = <<>> /\ k.todo = {}
  BY <1>0, <1>4, IdleCall, NoTaskCall DEF Resumes
<1> QED
  BY <1>1, <1>2, <1>3, <1>4

\* Whose acquire is answered, or goes on, in a step of t.
PhaseMoves(t) == \A r \in Requests :
  \/ phase'[r] = phase[r]
  \/ phase[r] \notin {"calling", "served"}
  \/ phase[r] = "calling" /\ r = t
  \/ phase[r] = "served" /\ r = task[t].owed

LEMMA OthersCalls ==
  ASSUME Calls, NEW t \in Threads, Others(t), PhaseMoves(t)
  PROVE  \A u \in Threads \ {t} : CallOK(u)'
<1> SUFFICES ASSUME NEW u \in Threads \ {t} PROVE CallOK(u)'
  OBVIOUS
<1>1. CallOK(u) /\ task'[u] = task[u]
  BY DEF Calls, Others
<1>2. task[u].owed # None => task[u].owed # task[t].owed /\ task[u].owed \in Requests
  BY <1>1 DEF Calls, OweOne, CallOK
<1>3. u \in Requests /\ phase[u] = "calling" => phase'[u] = "calling"
  BY DEF PhaseMoves
<1>4. OwedOK(u)'
  BY <1>1, <1>2 DEF CallOK, OwedOK, PhaseMoves
<1>5. u \in Requests => OwnOK(u)'
  BY <1>1, <1>3 DEF CallOK, OwnOK
<1> QED
  BY <1>1, <1>4, <1>5 DEF CallOK

LEMMA CallsMove ==
  ASSUME Calls, NEW t \in Threads, Others(t), PhaseMoves(t), CallOK(t)',
         QueueOK', EntryOK', revoked' \subseteq Requests,
         \/ task'[t].owed = None \/ task'[t].owed = task[t].owed
         \/ \A u \in Threads : task[u].owed # task'[t].owed
  PROVE  Calls'
<1>1. \A u \in Threads : CallOK(u)'
  BY OthersCalls
<1>2. OweOne'
  BY DEF Calls, OweOne, Others
<1> QED
  BY <1>1, <1>2 DEF Calls

LEMMA CallsStay ==
  ASSUME Calls, task' = task, QueueOK', EntryOK', revoked' \subseteq Requests,
         \A r \in Requests : phase'[r] = phase[r] \/ phase[r] \notin {"calling", "served"}
  PROVE  Calls'
<1>1. ASSUME NEW u \in Threads PROVE CallOK(u)'
  <2>1. CallOK(u) /\ task'[u] = task[u]
    BY DEF Calls
  <2>2. OwedOK(u)'
    BY <2>1 DEF CallOK, OwedOK
  <2>3. u \in Requests => OwnOK(u)'
    BY <2>1 DEF CallOK, OwnOK
  <2> QED
    BY <2>1, <2>2, <2>3 DEF CallOK
<1>2. OweOne'
  BY DEF Calls, OweOne
<1> QED
  BY <1>1, <1>2 DEF Calls

\* What is taken out of a queue, and put into it.
Apiece(q) == \A i, j \in DOMAIN q : q[i] = q[j] => i = j

LEMMA WithoutOK ==
  ASSUME NEW q \in Seq(Requests), NEW R
  PROVE  /\ Without(q, R) \in Seq(Requests)
         /\ \A n \in DOMAIN Without(q, R) : \E i \in DOMAIN q :
              q[i] = Without(q, R)[n] /\ q[i] \notin R
         /\ Apiece(q) => Apiece(Without(q, R))
         /\ \A i \in DOMAIN q : q[i] \notin R => \E n \in DOMAIN Without(q, R) : Without(q, R)[n] = q[i]
<1> DEFINE kept == {i \in DOMAIN q : q[i] \notin R}
           upto(i) == {j \in kept : j <= i}
           place(i) == Cardinality(upto(i))
           m == Cardinality(kept)
           f == [i \in kept |-> place(i)]
           pick(n) == CHOOSE i \in kept : place(i) = n
<1>1. IsFiniteSet(kept) /\ m \in Nat /\ kept \subseteq 1..Len(q)
  <2>1. IsFiniteSet(1..Len(q)) /\ DOMAIN q = 1..Len(q)
    BY FS_Interval
  <2> QED
    BY <2>1, FS_Subset, FS_CardinalityType
<1>2. \A i \in kept : IsFiniteSet(upto(i)) /\ place(i) \in 1..m
  <2> SUFFICES ASSUME NEW i \in kept PROVE IsFiniteSet(upto(i)) /\ place(i) \in 1..m
    OBVIOUS
  <2>1. upto(i) \in SUBSET kept /\ i \in upto(i)
    BY <1>1
  <2>2. IsFiniteSet(upto(i)) /\ place(i) \in Nat /\ place(i) <= m
    BY <1>1, <2>1, FS_Subset, FS_CardinalityType
  <2>3. place(i) # 0
    BY <2>1, <2>2, FS_EmptySet
  <2> QED
    BY <1>1, <2>2, <2>3
<1>3. \A i, j \in kept : i < j => place(i) # place(j)
  <2> SUFFICES ASSUME NEW i \in kept, NEW j \in kept, i < j, place(i) = place(j) PROVE FALSE
    OBVIOUS
  <2>1. upto(i) \in SUBSET upto(j) /\ j \in upto(j) /\ j \notin upto(i)
    BY <1>1
  <2>2. upto(i) = upto(j)
    BY <1>2, <2>1, FS_Subset
  <2> QED
    BY <2>1, <2>2
<1>4. f \in Injection(kept, 1..m)
  <2>1. f \in [kept -> 1..m]
    BY <1>2
  <2>2. \A i, j \in kept : f[i] = f[j] => i = j
    BY <1>1, <1>3
  <2> QED
    BY <2>1, <2>2 DEF Injection, IsInjective
<1>5. IsFiniteSet(1..m) /\ Cardinality(1..m) = m
  BY <1>1, FS_Interval
<1>6. f \in Surjection(kept, 1..m)
  BY <1>4, <1>5, FS_Injection
<1>7. \A n \in 1..m : pick(n) \in kept /\ place(pick(n)) = n
  <2> SUFFICES ASSUME NEW n \in 1..m PROVE pick(n) \in kept /\ place(pick(n)) = n
    OBVIOUS
  <2>1. PICK i \in kept : f[i] = n
    BY <1>6 DEF Surjection
  <2>2. place(i) = n
    BY <2>1
  <2> QED
    BY <2>2
<1>8. Without(q, R) = [n \in 1..m |-> q[pick(n)]]
  BY DEF Without
<1> HIDE DEF kept, m, f, pick, upto
<1>9. \A i \in kept : i \in DOMAIN q /\ q[i] \in Requests /\ q[i] \notin R
  BY DEF kept
<1>10. /\ DOMAIN Without(q, R) = 1..m
       /\ \A n \in 1..m : Without(q, R)[n] = q[pick(n)] /\ pick(n) \in kept
  BY <1>7, <1>8
<1>11. Without(q, R) \in Seq(Requests)
  <2>1. \A n \in 1..m : q[pick(n)] \in Requests
    BY <1>9, <1>10
  <2>2. Without(q, R) \in [1..m -> Requests]
    BY <1>8, <2>1
  <2> QED
    BY <1>1, <2>2
<1>12. \A n, k \in 1..m : pick(n) = pick(k) => n = k
  BY <1>7
<1>13. Apiece(q) => Apiece(Without(q, R))
  BY <1>9, <1>10, <1>12 DEF Apiece
<1>14. ASSUME NEW i \in DOMAIN q, q[i] \notin R
       PROVE  \E n \in DOMAIN Without(q, R) : Without(q, R)[n] = q[i]
  <2>1. i \in kept
    BY <1>14 DEF kept
  <2>2. place(i) \in 1..m
    BY <1>2, <2>1
  <2>3. pick(place(i)) \in kept /\ place(pick(place(i))) = place(i)
    BY <1>7, <2>2
  <2>4. pick(place(i)) = i
    BY <1>1, <1>3, <2>1, <2>3
  <2> QED
    BY <1>10, <2>2, <2>4
<1> QED
  BY <1>9, <1>10, <1>11, <1>13, <1>14

LEMMA InsertAtOK ==
  ASSUME NEW q \in Seq(Requests), NEW r \in Requests, NEW i \in 1..Len(q) + 1
  PROVE  /\ InsertAt(q, i, r) \in Seq(Requests) /\ Len(InsertAt(q, i, r)) = Len(q) + 1
         /\ \A j \in 1..Len(q) + 1 : InsertAt(q, i, r)[j] =
              IF j < i THEN q[j] ELSE IF j = i THEN r ELSE q[j - 1]
<1> DEFINE u == SubSeq(q, 1, i - 1)
           v == SubSeq(q, i, Len(q))
<1>1. /\ u \in Seq(Requests) /\ Len(u) = i - 1 /\ \A j \in 1..i - 1 : u[j] = q[j]
  BY SubSeqProperties
<1>2. /\ v \in Seq(Requests) /\ Len(v) = Len(q) - i + 1
      /\ \A j \in 1..Len(q) - i + 1 : v[j] = q[i + j - 1]
  BY SubSeqProperties
<1>3. InsertAt(q, i, r) = (u \o <<r>>) \o v
  BY DEF InsertAt
<1> HIDE DEF u, v
<1>4. <<r>> \in Seq(Requests) /\ Len(<<r>>) = 1 /\ <<r>>[1] = r
  OBVIOUS
<1>5. /\ u \o <<r>> \in Seq(Requests) /\ Len(u \o <<r>>) = i
      /\ \A j \in 1..i : (u \o <<r>>)[j] = IF j < i THEN q[j] ELSE r
  BY <1>1, <1>4, ConcatProperties
<1> DEFINE x == u \o <<r>>
<1> HIDE DEF x
<1>6. /\ x \in Seq(Requests) /\ Len(x) = i /\ \A j \in 1..i : x[j] = IF j < i THEN q[j] ELSE r
  BY <1>5 DEF x
<1>7. /\ x \o v \in Seq(Requests) /\ Len(x \o v) = Len(x) + Len(v)
      /\ \A j \in 1..Len(x) + Len(v) : (x \o v)[j] = IF j <= Len(x) THEN x[j] ELSE v[j - Len(x)]
  BY <1>2, <1>6, ConcatProperties
<1>8. InsertAt(q, i, r) = x \o v
  BY <1>3 DEF x
<1>l. Len(q) \in Nat /\ i \in Nat /\ Len(x) + Len(v) = Len(q) + 1
  BY <1>2, <1>6
<1>9. ASSUME NEW j \in 1..Len(q) + 1
      PROVE  (x \o v)[j] = IF j < i THEN q[j] ELSE IF j = i THEN r ELSE q[j - 1]
  <2>1. CASE j <= i
    BY <1>6, <1>7, <1>l, <2>1
  <2>2. CASE j > i
    <3>1. (x \o v)[j] = v[j - i] /\ j - i \in 1..Len(q) - i + 1
      BY <1>6, <1>7, <1>l, <2>2
    <3>2. i + (j - i) - 1 = j - 1
      BY <1>l
    <3>3. v[j - i] = q[i + (j - i) - 1]
      BY <1>2, <3>1
    <3>4. v[j - i] = q[j - 1]
      BY <3>2, <3>3, Zenon
    <3>5. (x \o v)[j] = q[j - 1]
      BY <3>1, <3>4, Zenon
    <3>6. ~(j < i) /\ j # i
      BY <1>l, <2>2
    <3> QED
      BY <3>5, <3>6
  <2> QED
    BY <1>l, <2>1, <2>2
<1> QED
  BY <1>7, <1>8, <1>l, <1>9

\* The queues, when nothing is taken out, or some waiters are.
LEMMA QueueSame ==
  ASSUME QueueOK, scene' = scene, queue' = queue,
         \A r \in Requests : phase[r] = "waiting" => phase'[r] = "waiting"
  PROVE  QueueOK'
<1>1. \A s \in Sessions : \A i \in DOMAIN queue[s] : queue[s][i] \in Requests
  BY DEF QueueOK
<1> QED
  BY <1>1 DEF QueueOK, Session

LEMMA QueueCleared ==
  ASSUME QueueOK, scene' = scene, queue' \in [Sessions -> Seq(Requests)],
         \A s \in Sessions :
           \/ queue'[s] = <<>>
           \/ queue'[s] = queue[s] /\ \A i \in DOMAIN queue[s] : phase'[queue[s][i]] = "waiting"
  PROVE  QueueOK'
BY DEF QueueOK, Session

LEMMA QueueHead ==
  ASSUME QueueOK, NEW s \in Sessions, queue[s] # <<>>
  PROVE  /\ Head(queue[s]) \in Requests /\ phase[Head(queue[s])] = "waiting"
         /\ Session[Head(queue[s])] = s
         /\ \A x \in Sessions : \A i \in DOMAIN queue[x] :
              queue[x][i] = Head(queue[s]) => x = s /\ i = 1
         /\ queue[s] \in Seq(Requests) /\ Tail(queue[s]) \in Seq(Requests)
         /\ DOMAIN Tail(queue[s]) = 1..Len(queue[s]) - 1
         /\ \A i \in DOMAIN Tail(queue[s]) : /\ Tail(queue[s])[i] = queue[s][i + 1]
                                             /\ i + 1 \in DOMAIN queue[s] /\ i \in Nat
<1>1. queue[s] \in Seq(Requests) /\ 1 \in DOMAIN queue[s] /\ Head(queue[s]) = queue[s][1]
  BY DEF QueueOK
<1>2. /\ Head(queue[s]) \in Requests /\ phase[Head(queue[s])] = "waiting"
      /\ Session[Head(queue[s])] = s
  BY <1>1 DEF QueueOK
<1>3. \A x \in Sessions : \A i \in DOMAIN queue[x] : queue[x][i] = Head(queue[s]) => x = s /\ i = 1
  BY <1>1, <1>2 DEF QueueOK
<1>4. /\ Tail(queue[s]) \in Seq(Requests) /\ DOMAIN Tail(queue[s]) = 1..Len(queue[s]) - 1
      /\ \A i \in DOMAIN Tail(queue[s]) : /\ Tail(queue[s])[i] = queue[s][i + 1]
                                          /\ i + 1 \in DOMAIN queue[s] /\ i \in Nat
  BY <1>1
<1> QED
  BY <1>1, <1>2, <1>3, <1>4

LEMMA QueueServed ==
  ASSUME QueueOK, scene' = scene, NEW s \in Sessions, queue[s] # <<>>,
         queue' = [queue EXCEPT ![s] = Tail(@)],
         \A r \in Requests : phase[r] = "waiting" /\ r # Head(queue[s]) => phase'[r] = "waiting"
  PROVE  QueueOK'
<1>1. /\ queue' \in [Sessions -> Seq(Requests)] /\ queue'[s] = Tail(queue[s])
      /\ \A x \in Sessions \ {s} : queue'[x] = queue[x]
  BY QueueHead DEF QueueOK
<1>2. \A x \in Sessions \ {s} : \A i \in DOMAIN queue[x] :
        queue[x][i] \in Requests /\ queue[x][i] # Head(queue[s])
  BY QueueHead DEF QueueOK
<1>3. \A i \in DOMAIN Tail(queue[s]) :
        Tail(queue[s])[i] \in Requests /\ Tail(queue[s])[i] # Head(queue[s])
  <2> SUFFICES ASSUME NEW i \in DOMAIN Tail(queue[s])
               PROVE  Tail(queue[s])[i] \in Requests /\ Tail(queue[s])[i] # Head(queue[s])
    OBVIOUS
  <2>1. Tail(queue[s])[i] = queue[s][i + 1] /\ i + 1 \in DOMAIN queue[s] /\ i \in Nat /\ i # 0
    BY QueueHead
  <2>2. i + 1 # 1
    BY <2>1
  <2> QED
    BY <2>1, <2>2, QueueHead
<1>4. ASSUME NEW x \in Sessions, x # s, NEW i \in DOMAIN queue'[x]
      PROVE  /\ phase'[queue'[x][i]] = "waiting" /\ Session[queue'[x][i]] = x
             /\ \A j \in DOMAIN queue'[x] : queue'[x][i] = queue'[x][j] => i = j
  BY <1>1, <1>2, <1>4 DEF QueueOK
<1>5. ASSUME NEW i \in DOMAIN queue'[s]
      PROVE  /\ phase'[queue'[s][i]] = "waiting" /\ Session[queue'[s][i]] = s
             /\ \A j \in DOMAIN queue'[s] : queue'[s][i] = queue'[s][j] => i = j
  <2>1. queue'[s][i] = queue[s][i + 1] /\ i + 1 \in DOMAIN queue[s] /\ i \in Nat
    BY <1>1, QueueHead
  <2>2. phase'[queue'[s][i]] = "waiting" /\ Session[queue'[s][i]] = s
    BY <1>1, <1>3, <2>1 DEF QueueOK
  <2>3. ASSUME NEW j \in DOMAIN queue'[s], queue'[s][i] = queue'[s][j] PROVE i = j
    <3>1. queue'[s][j] = queue[s][j + 1] /\ j + 1 \in DOMAIN queue[s] /\ j \in Nat
      BY <1>1, QueueHead
    <3>2. i + 1 = j + 1
      BY <2>1, <2>3, <3>1 DEF QueueOK
    <3> QED
      BY <2>1, <3>1, <3>2
  <2> QED
    BY <2>2, <2>3
<1> QED
  BY <1>1, <1>4, <1>5 DEF QueueOK, Session

LEMMA QueueCancelled ==
  ASSUME QueueOK, scene' = scene, NEW R, CancelWaiting(R),
         \A r \in Requests \ R : phase[r] = "waiting" => phase'[r] = "waiting"
  PROVE  QueueOK'
<1>1. ASSUME NEW s \in Sessions
      PROVE  /\ queue'[s] \in Seq(Requests)
             /\ \A n \in DOMAIN queue'[s] : \E i \in DOMAIN queue[s] :
                  queue[s][i] = queue'[s][n] /\ queue[s][i] \in Requests \ R
             /\ Apiece(queue'[s])
  <2>1. queue[s] \in Seq(Requests) /\ Apiece(queue[s])
    BY DEF QueueOK, Apiece
  <2>2. queue'[s] = Without(queue[s], R)
    BY DEF CancelWaiting
  <2>3. \A i \in DOMAIN queue[s] : queue[s][i] \in Requests
    BY <2>1
  <2> QED
    BY <2>1, <2>2, <2>3, WithoutOK
<1>2. queue' \in [Sessions -> Seq(Requests)]
  BY <1>1 DEF CancelWaiting
<1>3. ASSUME NEW s \in Sessions, NEW n \in DOMAIN queue'[s]
      PROVE  phase'[queue'[s][n]] = "waiting" /\ Session[queue'[s][n]] = s
  <2>1. PICK i \in DOMAIN queue[s] : queue[s][i] = queue'[s][n] /\ queue[s][i] \in Requests \ R
    BY <1>1, <1>3
  <2>2. phase[queue[s][i]] = "waiting" /\ Session[queue[s][i]] = s
    BY DEF QueueOK
  <2> QED
    BY <2>1, <2>2
<1> QED
  BY <1>1, <1>2, <1>3 DEF QueueOK, Session, Apiece

LEMMA QueueJoined ==
  ASSUME QueueOK, scene' = scene, Session \in [Requests -> Sessions], NEW r \in Requests,
         phase[r] # "waiting", NEW i \in 1..Len(queue[Session[r]]) + 1,
         queue' = [queue EXCEPT ![Session[r]] = InsertAt(@, i, r)],
         phase'[r] = "waiting", \A q \in Requests : phase[q] = "waiting" => phase'[q] = "waiting"
  PROVE  QueueOK'
<1> DEFINE s == Session[r]
           q == queue[s]
           p == InsertAt(q, i, r)
<1>1. /\ s \in Sessions /\ q \in Seq(Requests) /\ Len(q) \in Nat /\ i \in Nat
      /\ i \in 1..Len(q) + 1
      /\ \A j \in 1..Len(q) : q[j] \in Requests /\ phase[q[j]] = "waiting" /\ Session[q[j]] = s
                              /\ \A k \in 1..Len(q) : q[j] = q[k] => j = k
  BY DEF QueueOK
<1>2. /\ p \in Seq(Requests) /\ Len(p) = Len(q) + 1
      /\ \A j \in 1..Len(q) + 1 : p[j] = IF j < i THEN q[j] ELSE IF j = i THEN r ELSE q[j - 1]
  <2> HIDE DEF q
  <2> QED
    BY <1>1, InsertAtOK
<1>3. /\ queue' \in [Sessions -> Seq(Requests)] /\ queue'[s] = p
      /\ \A x \in Sessions \ {s} : queue'[x] = queue[x]
  BY <1>1, <1>2 DEF QueueOK
<1> HIDE DEF p, q
<1>4. ASSUME NEW j \in 1..Len(q) + 1
      PROVE  \/ j = i /\ p[j] = r
             \/ j < i /\ j \in 1..Len(q) /\ p[j] = q[j]
             \/ j > i /\ j - 1 \in 1..Len(q) /\ p[j] = q[j - 1]
  <2>1. j < i \/ j = i \/ (j > i /\ j - 1 \in 1..Len(q))
    BY <1>1
  <2>2. j < i => j \in 1..Len(q)
    BY <1>1
  <2>3. p[j] = IF j < i THEN q[j] ELSE IF j = i THEN r ELSE q[j - 1]
    BY <1>2
  <2>4. j > i => ~(j < i) /\ j # i
    BY <1>1
  <2>5. j = i => ~(j < i)
    BY <1>1
  <2> QED
    BY <2>1, <2>2, <2>3, <2>4, <2>5, Zenon
<1>5. ASSUME NEW j \in 1..Len(q) + 1
      PROVE  p[j] \in Requests /\ phase'[p[j]] = "waiting" /\ Session[p[j]] = s
  BY <1>1, <1>4
<1>6. ASSUME NEW j \in 1..Len(q) + 1, NEW k \in 1..Len(q) + 1, p[j] = p[k]
      PROVE  j = k
  <2>1. \A n \in 1..Len(q) : q[n] # r
    BY <1>1
  <2> QED
    BY <1>1, <1>4, <1>6, <2>1
<1>7. ASSUME NEW x \in Sessions, x # s, NEW j \in DOMAIN queue'[x]
      PROVE  /\ phase'[queue'[x][j]] = "waiting" /\ Session[queue'[x][j]] = x
             /\ \A k \in DOMAIN queue'[x] : queue'[x][j] = queue'[x][k] => j = k
  <2>1. queue'[x] = queue[x] /\ queue[x][j] \in Requests
    BY <1>3, <1>7 DEF QueueOK
  <2> QED
    BY <1>7, <2>1 DEF QueueOK
<1>8. Session' = Session /\ DOMAIN p = 1..Len(q) + 1
  BY <1>2 DEF Session
<1>9. ASSUME NEW x \in Sessions, NEW j \in DOMAIN queue'[x]
      PROVE  /\ phase'[queue'[x][j]] = "waiting" /\ Session[queue'[x][j]] = x
             /\ \A k \in DOMAIN queue'[x] : queue'[x][j] = queue'[x][k] => j = k
  <2>1. CASE x = s
    <3>1. queue'[x] = p /\ j \in 1..Len(q) + 1
      BY <1>3, <1>8, <1>9, <2>1
    <3> HIDE DEF s
    <3> QED
      BY <1>5, <1>6, <1>8, <2>1, <3>1
  <2> QED
    BY <1>7, <1>9, <2>1
<1> QED
  BY <1>3, <1>8, <1>9 DEF QueueOK

\* A step of t that leaves those who wait alone.
CallStep(t) ==
  /\ Others(t) /\ CallOK(t)' /\ PhaseMoves(t)
  /\ task'[t].owed = None \/ task'[t].owed = task[t].owed
Waiters == \A r \in Requests : phase[r] = "waiting" => phase'[r] = "waiting"

LEMMA CallFacts ==
  ASSUME ThreadsInv, Calls, NEW t \in Threads
  PROVE  /\ CallOK(t) /\ OwedOK(t) /\ ThreadOK(t) /\ phase \in [Requests -> Phases]
         /\ t \in Requests => OwnOK(t)
BY DEF ThreadsInv, Calls, CallOK

\* t goes on without a new answer.
LEMMA WalkCalls ==
  ASSUME ThreadsInv, Calls, NEW t \in Threads, NEW p, Goes(t, p), phase' = phase,
         ~At(t, "idle"), p \notin {"idle", "take"},
         p \in Serving => task[t].pc \in Serving,
         t \in Requests => p \in OwnSteps,
         task[t].owed = None => p \notin Handing \cup {"refuse"},
         task[t].owed # None =>
           \/ task[t].pc \in Handing /\ p \in Handing
           \/ task[t].pc \in Renewing /\ p \in Renewing
           \/ task[t].pc \in Winding /\ p \in Winding
           \/ task[t].pc \in Serving /\ task[t].then # <<>> /\ p \in Serving \cup Winding
  PROVE  CallStep(t) /\ Waiters
<1>0. CallOK(t) /\ OwedOK(t) /\ (t \in Requests => OwnOK(t))
  BY CallFacts
<1>1. OwedOK(t)'
  <2>1. CASE task[t].owed = None
    BY <1>0, <2>1 DEF OwedOK, Goes, Rest
  <2>2. CASE task[t].owed # None
    BY <1>0, <2>2 DEF OwedOK, Goes, Rest, Endings, Handing, Renewing, Serving, Winding
  <2> QED
    BY <2>1, <2>2
<1>2. t \in Requests => OwnOK(t)'
  BY <1>0 DEF OwnOK, Goes, Rest
<1>3. CallOK(t)'
  BY <1>0, <1>1, <1>2 DEF CallOK, Goes, Rest
<1> QED
  BY <1>3 DEF CallStep, Goes, Rest, PhaseMoves, Waiters

LEMMA ResolveMoves ==
  ASSUME ThreadsInv, Calls, NEW r \in Requests, NEW b, Resolve(r, b)
  PROVE  /\ phase'[r] = "resolved" /\ handle'[r] = b
         /\ \A q \in Requests \ {r} : phase'[q] = phase[q] /\ handle'[q] = handle[q]
BY DEF ThreadsInv, Resolve

LEMMA FailMoves ==
  ASSUME NEW R, Fail(R)
  PROVE  \A q \in Requests : phase'[q] = IF q \in R THEN "failed" ELSE phase[q]
BY DEF Fail

LEMMA EndCalls ==
  ASSUME ThreadsInv, Calls, NEW t \in Threads, task' = [task EXCEPT ![t] = NoTask]
  PROVE  Others(t) /\ CallOK(t)' /\ task'[t].owed = None
BY EndWalks, IdleCall, NoTaskCall

LEMMA ObtainedCalls ==
  ASSUME ThreadsInv, Calls, NEW t \in Threads, task[t].pc \in {"lock", "lockNew"},
         NEW b \in Browsers, Obtained(t, b)
  PROVE  CallStep(t) /\ Waiters
<1>0. /\ CallOK(t) /\ OwedOK(t) /\ (t \in Requests => OwnOK(t))
      /\ ~At(t, "idle") /\ task[t].pc \in Serving /\ task[t].pc \notin Winding \cup Handing \cup {"refuse"}
      /\ "dequeue" \in Serving /\ "dequeue" \notin Handing \cup {"refuse"}
  BY CallFacts DEF Serving, Renewing, Winding, Handing
<1>1. CASE Own(t)
  <2>1. Resolve(t, b) /\ task' = [task EXCEPT ![t] = NoTask] /\ t \in Requests /\ phase[t] = "calling"
    BY <1>0, <1>1 DEF Obtained, Own, OwnOK
  <2> QED
    BY <2>1, EndCalls, ResolveMoves DEF CallStep, PhaseMoves, Waiters
<1>2. CASE ~Own(t) /\ Owing(t)
  <2>1. Resolve(task[t].owed, b) /\ Resume(t)
    BY <1>2 DEF Obtained
  <2>2. task[t].owed \in Requests /\ phase[task[t].owed] = "served" /\ task[t].then = <<>>
    BY <1>0, <1>2 DEF OwedOK, CallOK, Owing
  <2>3. CallOK(t)' /\ Others(t) /\ (task'[t].owed = None \/ task'[t].owed = task[t].owed)
    BY <2>1, <2>2, ResumeCalls
  <2> QED
    BY <2>1, <2>2, <2>3, ResolveMoves DEF CallStep, PhaseMoves, Waiters
<1>3. CASE ~Own(t) /\ ~Owing(t)
  <2>1. Goto(t, "dequeue") /\ phase' = phase /\ t \notin Requests
    BY <1>3 DEF Obtained, Own
  <2>2. task[t].owed # None => task[t].then # <<>>
    BY <1>0, <1>3 DEF OwedOK, Owing, Endings
  <2> QED
    BY <1>0, <2>1, <2>2, GotoWalks, WalkCalls DEF Walks
<1> QED
  BY <1>1, <1>2, <1>3

LEMMA UnobtainedCalls ==
  ASSUME ThreadsInv, Calls, NEW t \in Threads, task[t].pc \in {"lockNew", "create", "abandon"},
         Unobtained(t)
  PROVE  CallStep(t) /\ Waiters
<1>0. /\ CallOK(t) /\ OwedOK(t) /\ (t \in Requests => OwnOK(t))
      /\ ~At(t, "idle") /\ task[t].pc \in Serving /\ task[t].pc \notin Winding \cup Handing \cup {"refuse"}
      /\ "enqueue" \notin Serving \cup Handing \cup {"refuse"} /\ "enqueue" \in OwnSteps
      /\ "peek" \notin Serving \cup Handing \cup {"refuse"} /\ "peek" \in Winding
  BY CallFacts DEF Serving, Renewing, Winding, Handing, OwnSteps
<1>1. CASE Own(t)
  <2>1. Goto(t, "enqueue") /\ phase' = phase /\ t \in Requests /\ task[t].owed = None
    BY <1>0, <1>1 DEF Unobtained, Own, OwnOK
  <2> QED
    BY <1>0, <2>1, GotoWalks, WalkCalls DEF Walks
<1>2. CASE ~Own(t) /\ Owing(t)
  <2>1. Fail({task[t].owed}) /\ Resume(t)
    BY <1>2 DEF Unobtained
  <2>2. task[t].owed \in Requests /\ phase[task[t].owed] = "served" /\ task[t].then = <<>>
    BY <1>0, <1>2 DEF OwedOK, CallOK, Owing
  <2>3. CallOK(t)' /\ Others(t) /\ (task'[t].owed = None \/ task'[t].owed = task[t].owed)
    BY <2>1, <2>2, ResumeCalls
  <2> QED
    BY <2>1, <2>2, <2>3, FailMoves DEF CallStep, PhaseMoves, Waiters
<1>3. CASE ~Own(t) /\ ~Owing(t)
  <2>1. NextPass(t) /\ phase' = phase /\ t \notin Requests
    BY <1>3 DEF Unobtained, Own
  <2>2. task[t].owed # None => task[t].then # <<>>
    BY <1>0, <1>3 DEF OwedOK, Owing, Endings
  <2> QED
    BY <1>0, <2>1, <2>2, PassWalks, WalkCalls DEF Walks
<1> QED
  BY <1>1, <1>2, <1>3

\* What an entry may become.
LEMMA EntryForms ==
  /\ NoEntry \in [status : Statuses, holder : Requests \cup {None}] /\ NoEntry.holder = None
  /\ Idle \in [status : Statuses, holder : Requests \cup {None}] /\ Idle.holder = None
  /\ \A r \in Requests \cup {None} :
       /\ LockedBy(r) \in [status : Statuses, holder : Requests \cup {None}]
       /\ LockedBy(r).status = "locked" /\ LockedBy(r).holder = r
  /\ \A x \in {"creating", "destroying"} :
       [status |-> x, holder |-> None] \in [status : Statuses, holder : Requests \cup {None}]
BY DEF NoEntry, Idle, LockedBy, Statuses

LEMMA EntryPut ==
  ASSUME Calls, NEW b \in Browsers, NEW e \in [status : Statuses, holder : Requests \cup {None}],
         e.holder # None => e.status = "locked", entry' = [entry EXCEPT ![b] = e]
  PROVE  EntryOK'
<1>1. entry' \in [Browsers -> [status : Statuses, holder : Requests \cup {None}]]
  BY DEF Calls, EntryOK
<1>2. \A c \in Browsers : entry'[c] = entry[c] \/ (c = b /\ entry'[c] = e)
  BY DEF Calls, EntryOK
<1> QED
  BY <1>1, <1>2 DEF Calls, EntryOK, Status

LEMMA EntryLocked ==
  ASSUME Calls, NEW b \in Browsers, NEW r \in Requests \cup {None}, Becomes(b, LockedBy(r))
  PROVE  EntryOK'
BY EntryPut, EntryForms DEF Becomes

LEMMA CallsDone ==
  ASSUME ThreadsInv, Calls, scene' = scene, NEW t \in Threads, CallStep(t), Waiters,
         queue' = queue, EntryOK', revoked' \subseteq Requests
  PROVE  Calls'
<1>1. QueueOK'
  BY QueueSame DEF Calls, Waiters
<1> QED
  BY <1>1, CallsMove DEF CallStep

\* Nothing but the task of t changes here.
LEMMA CallsWalk ==
  ASSUME ThreadsInv, Calls, scene' = scene, NEW t \in Threads, CallStep(t), Waiters,
         queue' = queue, entry' = entry, revoked' = revoked
  PROVE  Calls'
<1>1. EntryOK' /\ revoked' \subseteq Requests
  BY DEF Calls, EntryOK, Status
<1> QED
  BY <1>1, CallsDone

LEMMA ReclaimOK ==
  ASSUME Calls, NEW t \in Threads, NEW b, Reclaim(t, b)
  PROVE  revoked' \subseteq Requests
BY DEF Calls, CallOK, Reclaim

LEMMA ReuseCalls ==
  ASSUME ThreadsInv, Calls, scene' = scene, NEW t \in Threads, Reuse(t)
  PROVE  Calls'
<1>1. At(t, "reuse") /\ phase' = phase /\ queue' = queue /\ entry' = entry /\ revoked' = revoked
  BY DEF Reuse
<1>2. PICK p \in {"lock", "create"} : Goes(t, p)
  BY GotoWalks, GotoWithWalks DEF Reuse, Walks
<1>3. CallStep(t) /\ Waiters
  <2>1. CallOK(t) /\ OwedOK(t)
    BY CallFacts
  <2>2. p \in Serving /\ p \in OwnSteps /\ task[t].pc \in Serving \ (Handing \cup Renewing \cup Winding \cup {"refuse"})
        /\ p \notin Handing \cup {"refuse"}
    BY <1>1 DEF Serving, OwnSteps, Handing, Renewing, Winding
  <2>3. task[t].owed # None => task[t].then # <<>>
    BY <2>1, <2>2 DEF OwedOK, Endings
  <2> QED
    BY <1>1, <1>2, <2>2, <2>3, WalkCalls
<1> QED
  BY <1>1, <1>3, CallsWalk

LEMMA LockCalls ==
  ASSUME ThreadsInv, Calls, scene' = scene, NEW t \in Threads, Lock(t)
  PROVE  Calls'
<1> DEFINE b == task[t].br
<1>1. /\ task[t].pc \in {"lock", "lockNew"} /\ queue' = queue /\ revoked' = revoked
      /\ b \in Browsers /\ task[t].req \in Requests
  BY CallFacts DEF Lock, ThreadOK, Named, CallOK, Serving, Renewing
<1>2. CASE Becomes(b, LockedBy(task[t].req)) /\ Obtained(t, b)
  <2>1. EntryOK' /\ revoked' \subseteq Requests
    BY <1>1, <1>2, EntryLocked DEF Calls
  <2> QED
    BY <1>1, <1>2, <2>1, ObtainedCalls, CallsDone
<1>3. CASE At(t, "lock") /\ Goto(t, "create") /\ phase' = phase /\ entry' = entry
  <2>1. CallOK(t) /\ OwedOK(t)
    BY CallFacts
  <2>2. "create" \in Serving /\ "create" \in OwnSteps
        /\ task[t].pc \in Serving \ (Handing \cup Renewing \cup Winding \cup {"refuse"})
        /\ "create" \notin Handing \cup {"refuse"}
    BY <1>3 DEF Serving, OwnSteps, Handing, Renewing, Winding
  <2>3. task[t].owed # None => task[t].then # <<>>
    BY <2>1, <2>2 DEF OwedOK, Endings
  <2>4. Goes(t, "create") /\ ~At(t, "idle")
    BY <1>3, GotoWalks DEF Walks
  <2>5. CallStep(t) /\ Waiters
    BY <1>3, <2>2, <2>3, <2>4, WalkCalls
  <2> QED
    BY <1>1, <1>3, <2>5, CallsWalk
<1>4. CASE At(t, "lockNew") /\ Unobtained(t) /\ entry' = entry
  BY <1>1, <1>4, UnobtainedCalls, CallsWalk
<1> QED
  BY <1>1, <1>2, <1>3, <1>4 DEF Lock

LEMMA RenewCalls ==
  ASSUME ThreadsInv, Calls, NEW t \in Threads, task[t].pc \in Renewing, NEW p \in Renewing,
         Goes(t, p), phase' = phase
  PROVE  CallStep(t) /\ Waiters
<1>1. CallOK(t) /\ OwedOK(t)
  BY CallFacts
<1>2. /\ p \in Serving /\ p \in OwnSteps /\ p \notin Handing \cup {"refuse", "idle", "take"}
      /\ task[t].pc \in Serving \ (Handing \cup Winding \cup {"refuse"}) /\ ~At(t, "idle")
  BY DEF Serving, Renewing, OwnSteps, Handing, Winding
<1> QED
  BY <1>1, <1>2, WalkCalls DEF OwedOK

LEMMA CreateCalls ==
  ASSUME ThreadsInv, Calls, scene' = scene, NEW t \in Threads, Create(t)
  PROVE  Calls'
<1>1. At(t, "create") /\ queue' = queue /\ entry' = entry /\ revoked' = revoked
  BY DEF Create
<1>2. CASE Unobtained(t)
  BY <1>1, <1>2, UnobtainedCalls, CallsWalk
<1>3. CASE Goto(t, "permit") /\ phase' = phase
  <2>1. task[t].pc \in Renewing /\ "permit" \in Renewing /\ Goes(t, "permit")
    BY <1>1, <1>3, GotoWalks DEF Renewing, Walks
  <2> QED
    BY <1>1, <1>3, <2>1, RenewCalls, CallsWalk
<1> QED
  BY <1>2, <1>3 DEF Create

LEMMA GetPermitCalls ==
  ASSUME ThreadsInv, Calls, scene' = scene, NEW t \in Threads, GetPermit(t)
  PROVE  Calls'
<1>1. /\ At(t, "permit") /\ queue' = queue /\ entry' = entry /\ revoked' = revoked /\ phase' = phase
      /\ Goto(t, "place")
  BY DEF GetPermit
<1>2. task[t].pc \in Renewing /\ "place" \in Renewing /\ Goes(t, "place")
  BY <1>1, GotoWalks DEF Renewing, Walks
<1> QED
  BY <1>1, <1>2, RenewCalls, CallsWalk

LEMMA PlaceCalls ==
  ASSUME ThreadsInv, Calls, scene' = scene, NEW t \in Threads, Place(t)
  PROVE  Calls'
<1>1. At(t, "place") /\ queue' = queue /\ revoked' = revoked /\ phase' = phase
  BY DEF Place
<1>2. PICK p \in {"abandon", "starting"} : Goes(t, p)
  BY GotoWithWalks DEF Place
<1>3. CallStep(t) /\ Waiters
  <2>1. p \in Renewing /\ task[t].pc \in Renewing
    BY <1>1 DEF Renewing
  <2> QED
    BY <1>1, <1>2, <2>1, RenewCalls
<1>4. EntryOK' /\ revoked' \subseteq Requests
  <2>1. CASE entry' = entry
    BY <1>1, <2>1 DEF Calls, EntryOK, Status
  <2>2. ASSUME NEW b \in Browsers, Becomes(b, [status |-> "creating", holder |-> None])
        PROVE  EntryOK'
    BY <2>2, EntryPut, EntryForms DEF Becomes
  <2> QED
    BY <1>1, <2>1, <2>2 DEF Place, Calls
<1> QED
  BY <1>1, <1>3, <1>4, CallsDone

LEMMA AwaitFactoryCalls ==
  ASSUME ThreadsInv, Calls, scene' = scene, NEW t \in Threads, AwaitFactory(t)
  PROVE  Calls'
<1>1. At(t, "starting") /\ queue' = queue /\ entry' = entry /\ revoked' = revoked /\ phase' = phase
  BY DEF AwaitFactory
<1>2. PICK p \in {"finish", "abandon", "abort"} : Goes(t, p)
  BY GotoWalks DEF AwaitFactory, Walks
<1>3. task[t].pc \in Renewing /\ p \in Renewing
  BY <1>1 DEF Renewing
<1> QED
  BY <1>1, <1>2, <1>3, RenewCalls, CallsWalk

LEMMA FinishCalls ==
  ASSUME ThreadsInv, Calls, scene' = scene, NEW t \in Threads, Finish(t)
  PROVE  Calls'
<1>1. /\ At(t, "finish") /\ queue' = queue /\ revoked' = revoked /\ phase' = phase
      /\ task[t].br \in Browsers
  BY CallFacts DEF Finish, ThreadOK, Named
<1>2. PICK p \in {"lockNew", "abandon", "discard"} : Goes(t, p)
  BY GotoWalks DEF Finish, Walks
<1>3. task[t].pc \in Renewing /\ p \in Renewing
  BY <1>1 DEF Renewing
<1>4. EntryOK' /\ revoked' \subseteq Requests
  BY <1>1, EntryPut, EntryForms DEF Finish, Becomes, Calls
<1> QED
  BY <1>1, <1>2, <1>3, <1>4, RenewCalls, CallsDone

LEMMA DiscardCalls ==
  ASSUME ThreadsInv, Calls, scene' = scene, NEW t \in Threads, Discard(t)
  PROVE  Calls'
<1>1. /\ At(t, "discard") /\ queue' = queue /\ entry' = entry /\ revoked' = revoked /\ phase' = phase
      /\ Goto(t, "abandon")
  BY DEF Discard
<1>2. task[t].pc \in Renewing /\ "abandon" \in Renewing /\ Goes(t, "abandon")
  BY <1>1, GotoWalks DEF Renewing, Walks
<1> QED
  BY <1>1, <1>2, RenewCalls, CallsWalk

LEMMA AbandonCalls ==
  ASSUME ThreadsInv, Calls, scene' = scene, NEW t \in Threads, Abandon(t)
  PROVE  Calls'
<1>1. task[t].pc \in {"abandon", "abort"} /\ queue' = queue /\ revoked' = revoked
  BY DEF Abandon
<1>2. EntryOK' /\ revoked' \subseteq Requests
  <2>1. entry' = [b \in Browsers |-> IF b = task[t].br THEN NoEntry ELSE entry[b]]
    BY DEF Abandon
  <2>2. entry \in [Browsers -> [status : Statuses, holder : Requests \cup {None}]]
    BY DEF Calls, EntryOK
  <2>3. entry' \in [Browsers -> [status : Statuses, holder : Requests \cup {None}]]
    BY <2>1, <2>2, EntryForms
  <2>4. \A b \in Browsers : entry'[b] = NoEntry \/ entry'[b] = entry[b]
    BY <2>1
  <2> QED
    BY <1>1, <2>3, <2>4, EntryForms DEF EntryOK, Calls, Status
<1>3. CASE Unobtained(t) /\ At(t, "abandon")
  BY <1>1, <1>2, <1>3, UnobtainedCalls, CallsDone
<1>4. CASE Fail({t}) /\ Resume(t) /\ At(t, "abort")
  <2>1. CallOK(t) /\ OwedOK(t) /\ (t \in Requests => OwnOK(t)) /\ task[t].pc \in Renewing
        /\ ~At(t, "idle")
    BY <1>4, CallFacts DEF Renewing
  <2>2. task[t].owed # None /\ task[t].then # <<>> => phase'[task[t].owed] = "served"
    <3> SUFFICES ASSUME task[t].owed # None PROVE phase'[task[t].owed] = "served"
      OBVIOUS
    <3>1. task[t].owed \in Requests /\ phase[task[t].owed] = "served" /\ t \notin Requests
      BY <2>1 DEF OwedOK, CallOK, OwnOK
    <3> QED
      BY <1>4, <3>1, FailMoves
  <2>3. CallOK(t)' /\ Others(t) /\ (task'[t].owed = None \/ task'[t].owed = task[t].owed)
    BY <1>4, <2>2, ResumeCalls
  <2>4. \A q \in Requests : phase'[q] = IF q = t THEN "failed" ELSE phase[q]
    BY <1>4, FailMoves
  <2>5. t \in Requests => phase[t] = "calling"
    BY <2>1 DEF OwnOK
  <2>6. CallStep(t) /\ Waiters
    BY <2>3, <2>4, <2>5 DEF CallStep, PhaseMoves, Waiters
  <2> QED
    BY <1>1, <1>2, <2>6, CallsDone
<1> QED
  BY <1>1, <1>3, <1>4 DEF Abandon

LEMMA ResumeStays ==
  ASSUME ThreadsInv, Calls, NEW t \in Threads, Resume(t),
         \A r \in Requests : phase'[r] = phase[r] \/ phase[r] \notin {"calling", "served"}
  PROVE  CallStep(t)
<1>1. CallOK(t) /\ OwedOK(t)
  BY CallFacts
<1>2. task[t].owed # None => phase'[task[t].owed] = "served"
  BY <1>1 DEF OwedOK, CallOK
<1> QED
  BY <1>2, ResumeCalls DEF CallStep, PhaseMoves

\* A step outside OwnSteps is not one of a request's thread.
LEMMA NotOwn ==
  ASSUME ThreadsInv, Calls, NEW t \in Threads, task[t].pc \notin OwnSteps
  PROVE  t \notin Requests
BY CallFacts DEF OwnOK

LEMMA PeekCalls ==
  ASSUME ThreadsInv, Calls, scene' = scene, NEW t \in Threads, Peek(t)
  PROVE  Calls'
<1>1. At(t, "peek") /\ phase' = phase /\ queue' = queue /\ entry' = entry /\ revoked' = revoked
  BY DEF Peek
<1>2. CASE Resume(t)
  BY <1>1, <1>2, ResumeStays, CallsWalk DEF Waiters
<1>3. CASE /\ queue[task[t].sess] # <<>>
           /\ task' = [task EXCEPT ![t].pc = "lookup", ![t].req = Head(queue[task[t].sess])]
  <2>1. /\ CallOK(t) /\ OwedOK(t) /\ t \notin Requests /\ task[t].sess \in Sessions
        /\ DOMAIN task = Threads /\ DOMAIN task[t] = Fields
    BY <1>1, CallFacts, NotOwn DEF OwnSteps, ThreadOK, Nowhere, ThreadsInv
  <2>2. Head(queue[task[t].sess]) \in Requests /\ phase[Head(queue[task[t].sess])] = "waiting"
    BY <1>3, <2>1, QueueHead DEF Calls
  <2>3. /\ Others(t) /\ task'[t].pc = "lookup" /\ task'[t].req = Head(queue[task[t].sess])
        /\ Rest(t)
    BY <1>3, <2>1 DEF Others, Rest
  <2>4. OwedOK(t)'
    BY <1>1, <2>1, <2>2, <2>3 DEF OwedOK, Rest, Handing, Renewing, Winding, Serving
  <2>5. CallOK(t)'
    BY <2>1, <2>2, <2>3, <2>4 DEF CallOK, Rest
  <2>6. CallStep(t) /\ Waiters
    BY <1>1, <2>3, <2>5 DEF CallStep, PhaseMoves, Rest, Waiters
  <2> QED
    BY <1>1, <2>6, CallsWalk
<1> QED
  BY <1>2, <1>3 DEF Peek

\* The waiters of a session fail together.
LEMMA QueueFailed ==
  ASSUME QueueOK, scene' = scene, NEW s \in Sessions, Fail(ToSet(queue[s])),
         queue' = [queue EXCEPT ![s] = <<>>]
  PROVE  /\ QueueOK'
         /\ \A r \in Requests : phase'[r] = phase[r] \/ phase[r] = "waiting"
<1>1. /\ queue' \in [Sessions -> Seq(Requests)] /\ queue'[s] = <<>>
      /\ \A x \in Sessions \ {s} : queue'[x] = queue[x]
  BY DEF QueueOK
<1>2. \A r \in ToSet(queue[s]) : phase[r] = "waiting" /\ Session[r] = s
  BY DEF QueueOK, ToSet
<1>3. \A x \in Sessions \ {s} : \A i \in DOMAIN queue[x] :
        queue[x][i] \in Requests /\ Session[queue[x][i]] = x /\ phase[queue[x][i]] = "waiting"
  BY DEF QueueOK
<1>4. \A r \in Requests : phase'[r] = IF r \in ToSet(queue[s]) THEN "failed" ELSE phase[r]
  BY FailMoves
<1>5. \A x \in Sessions \ {s} : \A i \in DOMAIN queue[x] : phase'[queue[x][i]] = "waiting"
  BY <1>2, <1>3, <1>4
<1>6. QueueOK'
  BY <1>1, <1>5, QueueCleared
<1> QED
  BY <1>2, <1>4, <1>6

LEMMA LookupCalls ==
  ASSUME ThreadsInv, Calls, scene' = scene, NEW t \in Threads, Lookup(t)
  PROVE  Calls'
<1>1. At(t, "lookup") /\ entry' = entry /\ revoked' = revoked /\ task[t].sess \in Sessions
  BY CallFacts DEF Lookup, ThreadOK, Nowhere
<1>2. CASE Goto(t, "reuse") /\ queue' = queue /\ phase' = phase
  <2>1. CallOK(t) /\ OwedOK(t) /\ t \notin Requests
    BY <1>1, CallFacts, NotOwn DEF OwnSteps
  <2>2. /\ "reuse" \in Serving \ (Handing \cup {"refuse"}) /\ ~At(t, "idle")
        /\ task[t].pc \in Serving \ (Handing \cup Renewing \cup Winding \cup {"refuse"})
    BY <1>1 DEF Serving, Handing, Renewing, Winding
  <2>3. task[t].owed # None => task[t].then # <<>>
    BY <2>1, <2>2 DEF OwedOK, Endings
  <2>4. Goes(t, "reuse")
    BY <1>2, GotoWalks DEF Walks
  <2>5. CallStep(t) /\ Waiters
    BY <1>2, <2>1, <2>2, <2>3, <2>4, WalkCalls
  <2> QED
    BY <1>1, <1>2, <2>5, CallsWalk
<1>3. CASE /\ Fail(ToSet(queue[task[t].sess]))
           /\ queue' = [queue EXCEPT ![task[t].sess] = <<>>] /\ Resume(t)
  <2>1. QueueOK' /\ \A r \in Requests : phase'[r] = phase[r] \/ phase[r] = "waiting"
    BY <1>1, <1>3, QueueFailed DEF Calls
  <2>2. CallStep(t)
    BY <1>3, <2>1, ResumeStays
  <2>3. EntryOK' /\ revoked' \subseteq Requests
    BY <1>1 DEF Calls, EntryOK, Status
  <2> QED
    BY <2>1, <2>2, <2>3, CallsMove DEF CallStep
<1>4. CASE Resume(t) /\ queue' = queue /\ phase' = phase
  BY <1>1, <1>4, ResumeStays, CallsWalk DEF Waiters
<1> QED
  BY <1>2, <1>3, <1>4 DEF Lookup

\* The first in a queue leaves it.
LEMMA QueueLeft ==
  ASSUME QueueOK, scene' = scene, NEW s \in Sessions, queue[s] # <<>>,
         queue' = [queue EXCEPT ![s] = Tail(@)],
         \A r \in Requests \ {Head(queue[s])} : phase'[r] = phase[r]
  PROVE  /\ QueueOK' /\ Head(queue[s]) \in Requests
         /\ \A r \in Requests : phase'[r] = phase[r] \/ phase[r] = "waiting"
<1>1. Head(queue[s]) \in Requests /\ phase[Head(queue[s])] = "waiting"
  BY QueueHead
<1>2. QueueOK'
  BY QueueServed
<1> QED
  BY <1>1, <1>2

LEMMA DequeueCalls ==
  ASSUME ThreadsInv, Calls, scene' = scene, NEW t \in Threads, Dequeue(t)
  PROVE  Calls'
<1> DEFINE s == task[t].sess
<1>1. /\ At(t, "dequeue") /\ entry' = entry /\ revoked' = revoked /\ s \in Sessions
      /\ NextPass(t) /\ QueueOK
  BY CallFacts DEF Dequeue, ThreadOK, Nowhere, Calls
<1>2. /\ QueueOK'
      /\ \A r \in Requests : phase'[r] = phase[r] \/ phase[r] = "waiting"
  <2>1. CASE queue[s] # <<>>
    <3>1. Resolve(Head(queue[s]), task[t].br) /\ queue' = [queue EXCEPT ![s] = Tail(@)]
      BY <2>1 DEF Dequeue
    <3>2. Head(queue[s]) \in Requests
      BY <1>1, <2>1, QueueHead
    <3>3. \A r \in Requests \ {Head(queue[s])} : phase'[r] = phase[r]
      BY <3>1, <3>2, ResolveMoves
    <3> QED
      BY <1>1, <2>1, <3>1, <3>3, QueueLeft
  <2>2. CASE queue[s] = <<>>
    <3>1. queue' = queue /\ phase' = phase
      BY <2>2 DEF Dequeue
    <3> QED
      BY <1>1, <3>1, QueueSame
  <2> QED
    BY <2>1, <2>2
<1>3. Walks(t, "peek") /\ CallOK(t) /\ OwedOK(t) /\ t \notin Requests
  BY <1>1, CallFacts, PassWalks, NotOwn DEF OwnSteps
<1>4. OwedOK(t)'
  BY <1>1, <1>2, <1>3 DEF OwedOK, CallOK, Walks, Goes, Rest, Handing, Renewing, Winding, Serving, Endings
<1>5. CallOK(t)'
  BY <1>3, <1>4 DEF CallOK, Walks, Goes, Rest, Serving, Renewing
<1>6. EntryOK' /\ revoked' \subseteq Requests
  BY <1>1 DEF Calls, EntryOK, Status
<1>7. PhaseMoves(t)
  BY <1>2 DEF PhaseMoves
<1> QED
  BY <1>2, <1>3, <1>5, <1>6, <1>7, CallsMove DEF Walks, Goes, Rest

\* t takes up another plan.
Plots(t, p, q) ==
  /\ Others(t) /\ task'[t].pc = p /\ task'[t].then = q
  /\ task'[t].sess = task[t].sess /\ task'[t].owed = task[t].owed
  /\ task'[t].aim = task[t].aim /\ task'[t].todo = task[t].todo
  /\ task'[t].br = task[t].br /\ task'[t].req = task[t].req

LEMMA PlotsWalk ==
  ASSUME ThreadsInv, NEW t \in Threads, NEW p, NEW q,
         task' = [task EXCEPT ![t].pc = p, ![t].then = q]
  PROVE  Plots(t, p, q)
BY DEF ThreadsInv, ThreadOK, Plots, Others

LEMMA PlotCalls ==
  ASSUME ThreadsInv, Calls, NEW t \in Threads, NEW p \in {"return", "destroy"}, NEW q, Plots(t, p, q),
         task[t].pc \notin OwnSteps, phase' = phase,
         IF task[t].owed = None THEN q \notin Endings ELSE q \in Endings
  PROVE  CallStep(t) /\ Waiters
<1>1. CallOK(t) /\ OwedOK(t) /\ t \notin Requests
  BY CallFacts, NotOwn
<1>2. OwedOK(t)'
  BY <1>1 DEF OwedOK, Plots, Winding, Handing
<1>3. CallOK(t)'
  BY <1>1, <1>2 DEF CallOK, Plots, Serving, Renewing
<1> QED
  BY <1>3 DEF CallStep, PhaseMoves, Plots, Waiters

LEMMA TakeCalls ==
  ASSUME ThreadsInv, Calls, scene' = scene, NEW t \in Threads, Take(t)
  PROVE  Calls'
<1> DEFINE s == task[t].sess
<1>1. /\ At(t, "take") /\ entry' = entry /\ revoked' = revoked /\ s \in Sessions
      /\ QueueOK
  BY CallFacts DEF Take, ThreadOK, Nowhere, Calls
<1>2. CallOK(t) /\ OwedOK(t) /\ t \notin Requests /\ task[t].owed = None
  BY <1>1, CallFacts, NotOwn DEF OwnSteps, OwedOK, Handing, Renewing, Winding, Serving
<1>3. CASE /\ task' = [task EXCEPT ![t].pc = "return", ![t].then = AfterReturn]
           /\ queue' = queue /\ phase' = phase
  <2>1. Plots(t, "return", <<"peek">>)
    BY <1>3, PlotsWalk DEF AfterReturn
  <2>2. <<"peek">> \notin Endings
    <3>1. Head(<<"peek">>) = "peek" /\ Head(<<"refuse">>) = "refuse" /\ Head(<<"create">>) = "create"
      OBVIOUS
    <3> QED
      BY <3>1 DEF Endings
  <2>3. CallStep(t) /\ Waiters
    BY <1>1, <1>2, <1>3, <2>1, <2>2, PlotCalls DEF OwnSteps
  <2> QED
    BY <1>1, <1>3, <2>3, CallsWalk
<1>4. CASE /\ queue[s] # <<>>
           /\ phase' = [phase EXCEPT ![Head(queue[s])] = "served"]
           /\ queue' = [queue EXCEPT ![s] = Tail(@)]
           /\ task' = [task EXCEPT ![t].pc = "check", ![t].owed = Head(queue[s])]
  <2> DEFINE h == Head(queue[s])
  <2>1. h \in Requests /\ phase[h] = "waiting" /\ phase \in [Requests -> Phases] /\ h # None
    BY <1>1, <1>4, QueueHead, CallFacts, PoolAssumption
  <2>2. phase'[h] = "served" /\ \A r \in Requests \ {h} : phase'[r] = phase[r]
    BY <1>4, <2>1
  <2>3. QueueOK' /\ \A r \in Requests : phase'[r] = phase[r] \/ phase[r] = "waiting"
    BY <1>1, <1>4, <2>2, QueueLeft
  <2>4. /\ Others(t) /\ task'[t].pc = "check" /\ task'[t].owed = h
        /\ task'[t].then = task[t].then /\ task'[t].todo = task[t].todo
        /\ task'[t].req = task[t].req /\ task'[t].aim = task[t].aim
    BY <1>4 DEF ThreadsInv, ThreadOK, Others
  <2>5. \A u \in Threads : task[u].owed # h
    BY <2>1 DEF Calls, CallOK, OwedOK
  <2>6. task[t].then = <<>> /\ task[t].todo = {}
    BY <1>1, <1>2 DEF CallOK
  <2>7. CallOK(t)'
    BY <1>2, <2>1, <2>2, <2>4, <2>6 DEF CallOK, OwedOK, Serving, Renewing, Handing
  <2>8. PhaseMoves(t)
    BY <2>3 DEF PhaseMoves
  <2>9. EntryOK' /\ revoked' \subseteq Requests
    BY <1>1 DEF Calls, EntryOK, Status
  <2> QED
    BY <2>3, <2>4, <2>5, <2>7, <2>8, <2>9, CallsMove
<1> QED
  BY <1>3, <1>4 DEF Take

LEMMA PeekPlan == <<"peek">> \notin Endings /\ <<>> \notin Endings
<1>1. /\ Head(<<"peek">>) = "peek" /\ Head(<<"refuse">>) = "refuse" /\ Head(<<"create">>) = "create"
      /\ <<>> # <<"refuse">> /\ <<>> # <<"create">>
  OBVIOUS
<1> QED
  BY <1>1 DEF Endings

LEMMA CheckCalls ==
  ASSUME ThreadsInv, Calls, scene' = scene, NEW t \in Threads, Check(t)
  PROVE  Calls'
<1>1. /\ At(t, "check") /\ queue' = queue /\ entry' = entry /\ revoked' = revoked /\ phase' = phase
      /\ task[t].owed # None /\ t \notin Requests
  BY CallFacts, NotOwn DEF Check, OwnSteps, OwedOK, Handing
<1>2. CallStep(t) /\ Waiters
  <2>1. ASSUME NEW p \in {"clean", "hand"}, Goto(t, p) PROVE CallStep(t) /\ Waiters
    BY <1>1, <2>1, GotoWalks, WalkCalls DEF Walks, Serving, Renewing, Handing
  <2>2. CASE task' = [task EXCEPT ![t].pc = "return", ![t].then = <<"refuse">>]
    BY <1>1, <2>2, PlotsWalk, PlotCalls DEF Endings, OwnSteps
  <2>3. CASE Resume(t)
    BY <1>1, <2>3, ResumeStays DEF Waiters
  <2> QED
    BY <2>1, <2>2, <2>3 DEF Check
<1> QED
  BY <1>1, <1>2, CallsWalk

LEMMA CleanCalls ==
  ASSUME ThreadsInv, Calls, scene' = scene, NEW t \in Threads, Clean(t)
  PROVE  Calls'
<1>1. /\ At(t, "clean") /\ queue' = queue /\ entry' = entry /\ revoked' = revoked /\ phase' = phase
      /\ task[t].owed # None /\ t \notin Requests
  BY CallFacts, NotOwn DEF Clean, OwnSteps, OwedOK, Handing
<1>2. CallStep(t) /\ Waiters
  <2>1. CASE Goto(t, "hand")
    BY <1>1, <2>1, GotoWalks, WalkCalls DEF Walks, Serving, Renewing, Handing
  <2>2. CASE task' = [task EXCEPT ![t].pc = "destroy", ![t].then = <<"create">>]
    BY <1>1, <2>2, PlotsWalk, PlotCalls DEF Endings, OwnSteps
  <2> QED
    BY <2>1, <2>2 DEF Clean
<1> QED
  BY <1>1, <1>2, CallsWalk

\* t answers the waiter it has promised a browser.
LEMMA AnswerCalls ==
  ASSUME ThreadsInv, Calls, NEW t \in Threads, Resume(t), task[t].pc \in Handing \cup {"refuse"},
         \A r \in Requests \ {task[t].owed} : phase'[r] = phase[r]
  PROVE  CallStep(t) /\ Waiters
<1>1. CallOK(t) /\ OwedOK(t)
  BY CallFacts
<1>2. /\ task[t].owed \in Requests /\ phase[task[t].owed] = "served" /\ task[t].then = <<>>
  BY <1>1, PoolAssumption DEF OwedOK, CallOK, Handing, Renewing, Winding, Serving
<1>3. CallOK(t)' /\ Others(t) /\ (task'[t].owed = None \/ task'[t].owed = task[t].owed)
  BY <1>2, ResumeCalls
<1>4. PhaseMoves(t) /\ Waiters
  BY <1>2 DEF PhaseMoves, Waiters
<1> QED
  BY <1>3, <1>4 DEF CallStep

LEMMA HandCalls ==
  ASSUME ThreadsInv, Calls, scene' = scene, NEW t \in Threads, Hand(t)
  PROVE  Calls'
<1> DEFINE b == task[t].br
<1>1. /\ At(t, "hand") /\ queue' = queue /\ b \in Browsers
      /\ task[t].owed # None /\ task[t].owed \in Requests /\ t \notin Requests
  BY CallFacts, NotOwn DEF Hand, OwnSteps, OwedOK, Handing, ThreadOK, Named, CallOK
<1>2. CASE /\ Becomes(b, LockedBy(task[t].owed)) /\ Reclaim(t, b)
           /\ Resolve(task[t].owed, b) /\ Resume(t)
  <2>1. EntryOK' /\ revoked' \subseteq Requests
    BY <1>1, <1>2, EntryLocked, ReclaimOK
  <2>2. CallStep(t) /\ Waiters
    BY <1>1, <1>2, ResolveMoves, AnswerCalls DEF Handing
  <2> QED
    BY <1>1, <2>1, <2>2, CallsDone
<1>3. CASE /\ task' = [task EXCEPT ![t].pc = "return", ![t].then = <<"refuse">>]
           /\ entry' = entry /\ phase' = phase /\ revoked' = revoked
  <2>1. CallStep(t) /\ Waiters
    BY <1>1, <1>3, PlotsWalk, PlotCalls DEF Endings, OwnSteps
  <2> QED
    BY <1>1, <1>3, <2>1, CallsWalk
<1> QED
  BY <1>2, <1>3 DEF Hand

LEMMA RefuseCalls ==
  ASSUME ThreadsInv, Calls, scene' = scene, NEW t \in Threads, Refuse(t)
  PROVE  Calls'
<1>1. /\ At(t, "refuse") /\ queue' = queue /\ entry' = entry /\ revoked' = revoked
      /\ Fail({task[t].owed}) /\ Resume(t)
  BY DEF Refuse
<1>2. CallStep(t) /\ Waiters
  BY <1>1, FailMoves, AnswerCalls
<1> QED
  BY <1>1, <1>2, CallsWalk

\* A job goes from one step of a call to the next.
LEMMA WindCalls ==
  ASSUME ThreadsInv, Calls, NEW t \in Threads, task[t].pc \in Winding, NEW p \in Winding,
         Goes(t, p), phase' = phase
  PROVE  CallStep(t) /\ Waiters
<1>1. task[t].pc \notin OwnSteps /\ p \notin Handing \cup {"refuse", "idle", "take"} \cup Serving
      /\ ~At(t, "idle")
  BY DEF Winding, OwnSteps, Handing, Serving, Renewing
<1> QED
  BY <1>1, NotOwn, WalkCalls

LEMMA ReturnCalls ==
  ASSUME ThreadsInv, Calls, scene' = scene, NEW t \in Threads, Return(t)
  PROVE  Calls'
<1> DEFINE b == task[t].br
<1>1. At(t, "return") /\ queue' = queue /\ b \in Browsers /\ phase' = phase
  BY CallFacts DEF Return, ThreadOK, Named
<1>2. CASE Becomes(b, InReset(b)) /\ Reclaim(t, b) /\ Goto(t, "reset")
  <2>1. EntryOK' /\ revoked' \subseteq Requests
    BY <1>1, <1>2, EntryLocked, ReclaimOK DEF InReset
  <2>2. CallStep(t) /\ Waiters
    BY <1>1, <1>2, GotoWalks, WindCalls DEF Walks, Winding
  <2> QED
    BY <1>1, <2>1, <2>2, CallsDone
<1>3. CASE Resume(t) /\ entry' = entry /\ revoked' = revoked
  BY <1>1, <1>3, ResumeStays, CallsWalk DEF Waiters
<1> QED
  BY <1>2, <1>3 DEF Return

LEMMA ResetCalls ==
  ASSUME ThreadsInv, Calls, scene' = scene, NEW t \in Threads, Reset(t)
  PROVE  Calls'
<1>1. At(t, "reset") /\ queue' = queue /\ entry' = entry /\ revoked' = revoked /\ phase' = phase
  BY DEF Reset
<1>2. PICK p \in {"settle", "destroy"} : Goes(t, p)
  BY GotoWalks DEF Reset, Walks
<1>3. CallStep(t) /\ Waiters
  BY <1>1, <1>2, WindCalls DEF Winding
<1> QED
  BY <1>1, <1>3, CallsWalk

LEMMA SettleCalls ==
  ASSUME ThreadsInv, Calls, scene' = scene, NEW t \in Threads, Settle(t)
  PROVE  Calls'
<1>1. /\ At(t, "settle") /\ queue' = queue /\ revoked' = revoked /\ phase' = phase
      /\ task[t].br \in Browsers /\ Resume(t)
      /\ entry' = [entry EXCEPT ![task[t].br] = IF @ = InReset(task[t].br) THEN Idle ELSE @]
  BY CallFacts DEF Settle, ThreadOK, Named
<1>2. EntryOK'
  <2>1. entry \in [Browsers -> [status : Statuses, holder : Requests \cup {None}]]
    BY DEF Calls, EntryOK
  <2>2. /\ entry' \in [Browsers -> [status : Statuses, holder : Requests \cup {None}]]
        /\ \A b \in Browsers : entry'[b] = Idle \/ entry'[b] = entry[b]
    BY <1>1, <2>1, EntryForms
  <2> QED
    BY <2>2, EntryForms DEF EntryOK, Calls, Status
<1>3. CallStep(t) /\ Waiters /\ revoked' \subseteq Requests
  BY <1>1, ResumeStays DEF Waiters, Calls
<1> QED
  BY <1>1, <1>2, <1>3, CallsDone

\* t turns from the browser to the waiters of its session.
LEMMA NotifyCalls ==
  ASSUME ThreadsInv, Calls, NEW t \in Threads, task[t].pc \in Winding, NEW s, NotifyChanged(t, s),
         phase' = phase
  PROVE  CallStep(t) /\ Waiters /\ task'[t].pc = "report" /\ task'[t].br = None /\ task'[t].sess = s
<1>1. CallOK(t) /\ OwedOK(t) /\ t \notin Requests
  BY CallFacts, NotOwn DEF Winding, OwnSteps
<1>2. /\ Others(t) /\ task'[t].pc = "report" /\ task'[t].then = task[t].then
      /\ task'[t].owed = task[t].owed /\ task'[t].aim = task[t].aim
      /\ task'[t].todo = task[t].todo /\ task'[t].req = task[t].req
      /\ task'[t].br = None /\ task'[t].sess = s
  BY DEF ThreadsInv, ThreadOK, NotifyChanged, Others
<1>3. OwedOK(t)'
  BY <1>1, <1>2 DEF OwedOK, Winding, Handing, Renewing, Serving
<1>4. CallOK(t)'
  BY <1>1, <1>2, <1>3 DEF CallOK, Serving, Renewing
<1> QED
  BY <1>2, <1>4 DEF CallStep, PhaseMoves, Waiters

LEMMA DestroyCalls ==
  ASSUME ThreadsInv, Calls, scene' = scene, NEW t \in Threads, Destroy(t)
  PROVE  Calls'
<1> DEFINE b == task[t].br
<1>1. /\ At(t, "destroy") /\ queue' = queue /\ b \in Browsers /\ phase' = phase
      /\ task[t].pc \in Winding
  BY CallFacts DEF Destroy, ThreadOK, Named, Winding
<1>2. CASE Resume(t) /\ entry' = entry /\ revoked' = revoked
  BY <1>1, <1>2, ResumeStays, CallsWalk DEF Waiters
<1>3. CASE Becomes(b, NoEntry) /\ NotifyChanged(t, home[b]) /\ revoked' = revoked
  <2>1. EntryOK' /\ revoked' \subseteq Requests
    BY <1>1, <1>3, EntryPut, EntryForms DEF Becomes, Calls
  <2>2. CallStep(t) /\ Waiters
    BY <1>1, <1>3, NotifyCalls
  <2> QED
    BY <1>1, <2>1, <2>2, CallsDone
<1>4. CASE /\ Becomes(b, [status |-> "destroying", holder |-> None]) /\ Reclaim(t, b)
           /\ Goto(t, "destroyer")
  <2>1. EntryOK' /\ revoked' \subseteq Requests
    BY <1>1, <1>4, EntryPut, EntryForms, ReclaimOK DEF Becomes
  <2>2. CallStep(t) /\ Waiters
    BY <1>1, <1>4, GotoWalks, WindCalls DEF Walks, Winding
  <2> QED
    BY <1>1, <2>1, <2>2, CallsDone
<1> QED
  BY <1>2, <1>3, <1>4 DEF Destroy

LEMMA DestroyerCalls ==
  ASSUME ThreadsInv, Calls, scene' = scene, NEW t \in Threads, Destroyer(t)
  PROVE  Calls'
<1>1. /\ At(t, "destroyer") /\ queue' = queue /\ entry' = entry /\ revoked' = revoked /\ phase' = phase
      /\ Goto(t, "destroyed")
  BY DEF Destroyer
<1>2. CallStep(t) /\ Waiters
  BY <1>1, GotoWalks, WindCalls DEF Walks, Winding
<1> QED
  BY <1>1, <1>2, CallsWalk

LEMMA DestroyedCalls ==
  ASSUME ThreadsInv, Calls, scene' = scene, NEW t \in Threads, Destroyed(t)
  PROVE  Calls'
<1> DEFINE b == task[t].br
<1>1. /\ At(t, "destroyed") /\ queue' = queue /\ b \in Browsers /\ phase' = phase /\ revoked' = revoked
      /\ entry' = [entry EXCEPT ![b] = IF @.status = "destroying" THEN NoEntry ELSE @]
      /\ NotifyChanged(t, home[b]) /\ task[t].pc \in Winding
  BY CallFacts DEF Destroyed, ThreadOK, Named, Winding
<1>2. EntryOK'
  <2>1. entry \in [Browsers -> [status : Statuses, holder : Requests \cup {None}]]
    BY DEF Calls, EntryOK
  <2>2. /\ entry' \in [Browsers -> [status : Statuses, holder : Requests \cup {None}]]
        /\ \A c \in Browsers : entry'[c] = NoEntry \/ entry'[c] = entry[c]
    BY <1>1, <2>1, EntryForms
  <2> QED
    BY <2>2, EntryForms DEF EntryOK, Calls, Status
<1>3. CallStep(t) /\ Waiters /\ revoked' \subseteq Requests
  BY <1>1, NotifyCalls DEF Calls
<1> QED
  BY <1>1, <1>2, <1>3, CallsDone

LEMMA ReportCalls ==
  ASSUME ThreadsInv, Calls, scene' = scene, NEW t \in Threads, Report(t)
  PROVE  Calls'
<1>1. /\ At(t, "report") /\ queue' = queue /\ entry' = entry /\ revoked' = revoked /\ phase' = phase
      /\ Goto(t, "peek")
  BY DEF Report
<1>2. CallStep(t) /\ Waiters
  BY <1>1, GotoWalks, WindCalls DEF Walks, Winding
<1> QED
  BY <1>1, <1>2, CallsWalk

LEMMA LaterCalls ==
  ASSUME ThreadsInv, Calls, scene' = scene, NEW t \in Threads, Later(t)
  PROVE  Calls'
<1>1. /\ queue' = queue /\ entry' = entry /\ revoked' = revoked /\ phase' = phase
      /\ Resume(t)
  BY DEF Later
<1> QED
  BY <1>1, ResumeStays, CallsWalk DEF Waiters

LEMMA CancelPluginCalls ==
  ASSUME ThreadsInv, Calls, scene' = scene, NEW t \in Threads, CancelPlugin(t)
  PROVE  Calls'
<1> DEFINE R == {r \in task[t].aim : phase[r] = "waiting"}
<1>1. entry' = entry /\ revoked' = revoked /\ Resume(t) /\ Fail(R) /\ CancelWaiting(R)
  BY DEF CancelPlugin
<1>2. \A r \in Requests : phase'[r] = IF r \in R THEN "failed" ELSE phase[r]
  BY <1>1, FailMoves
<1>3. QueueOK'
  BY <1>1, <1>2, QueueCancelled DEF Calls
<1>4. \A r \in Requests : phase'[r] = phase[r] \/ phase[r] = "waiting"
  BY <1>2
<1>5. CallStep(t)
  BY <1>1, <1>4, ResumeStays
<1>6. EntryOK' /\ revoked' \subseteq Requests
  BY <1>1 DEF Calls, EntryOK, Status
<1> QED
  BY <1>3, <1>5, <1>6, CallsMove DEF CallStep

LEMMA AdvanceCalls ==
  ASSUME ThreadsInv, Calls, scene' = scene, NEW t \in Threads, Advance(t)
  PROVE  Calls'
<1>1. CASE Reuse(t) \/ Lock(t) \/ Create(t) \/ GetPermit(t) \/ Place(t)
  BY <1>1, ReuseCalls, LockCalls, CreateCalls, GetPermitCalls, PlaceCalls
<1>2. CASE AwaitFactory(t) \/ Finish(t) \/ Discard(t) \/ Abandon(t)
  BY <1>2, AwaitFactoryCalls, FinishCalls, DiscardCalls, AbandonCalls
<1>3. CASE Peek(t) \/ Lookup(t) \/ Dequeue(t) \/ Take(t) \/ Check(t) \/ Clean(t)
  BY <1>3, PeekCalls, LookupCalls, DequeueCalls, TakeCalls, CheckCalls, CleanCalls
<1>4. CASE Hand(t) \/ Refuse(t) \/ Return(t) \/ Reset(t) \/ Settle(t)
  BY <1>4, HandCalls, RefuseCalls, ReturnCalls, ResetCalls, SettleCalls
<1>5. CASE Destroy(t) \/ Destroyer(t) \/ Destroyed(t) \/ Report(t) \/ CancelPlugin(t) \/ Later(t)
  BY <1>5, DestroyCalls, DestroyerCalls, DestroyedCalls, ReportCalls, CancelPluginCalls, LaterCalls
<1> QED
  BY <1>1, <1>2, <1>3, <1>4, <1>5 DEF Advance

\* A call or a job begins.
Starts(t, p, a, b, q, T) ==
  /\ Others(t) /\ task'[t].pc = p /\ task'[t].aim = a /\ task'[t].br = b /\ task'[t].then = q
  /\ task'[t].todo = T /\ task'[t].req = None /\ task'[t].owed = None

LEMMA PlainStarts ==
  ASSUME ThreadsInv, NEW t \in Threads, NEW a, NEW b, NEW p, task' = [task EXCEPT ![t] = Job(a, b, p)]
  PROVE  Starts(t, p, a, b, <<>>, {})
<1>1. LET k == Job(a, b, p)
      IN k.pc = p /\ k.br = b /\ k.req = None /\ k.owed = None /\ k.then = <<>> /\ k.todo = {} /\ k.aim = a
  BY DEF Job, NoTask
<1> QED
  BY <1>1 DEF Starts, ThreadsInv, Others

LEMMA DropStarts ==
  ASSUME ThreadsInv, NEW t \in Threads, NEW a, NEW b, NEW p, NEW q,
         task' = [task EXCEPT ![t] = [Job(a, b, p) EXCEPT !.then = q]]
  PROVE  Starts(t, p, a, b, q, {})
<1> DEFINE j == Job(a, b, p)
           k == [j EXCEPT !.then = q]
<1>1. DOMAIN j = Fields /\ j.pc = p /\ j.br = b /\ j.req = None /\ j.owed = None /\ j.aim = a /\ j.todo = {}
  BY DEF Job, NoTask
<1> HIDE DEF j
<1>2. /\ k.pc = p /\ k.aim = a /\ k.br = b /\ k.then = q /\ k.todo = {} /\ k.req = None /\ k.owed = None
  BY <1>1
<1>3. task' = [task EXCEPT ![t] = k]
  BY DEF j
<1> HIDE DEF k
<1> QED
  BY <1>2, <1>3 DEF Starts, ThreadsInv, Others

LEMMA KillStarts ==
  ASSUME ThreadsInv, NEW t \in Threads, NEW b, NEW p, NEW x, NEW q,
         \/ task' = [task EXCEPT ![t] = [Job({}, b, p) EXCEPT !.aim = Requests, !.then = q]] /\ x = {}
         \/ task' = [task EXCEPT ![t] = [Job({}, b, p) EXCEPT !.aim = Requests, !.todo = x]] /\ q = <<>>
  PROVE  Starts(t, p, Requests, b, q, x)
<1> DEFINE j == Job({}, b, p)
           k == [j EXCEPT !.aim = Requests, !.then = q]
           l == [j EXCEPT !.aim = Requests, !.todo = x]
<1>1. DOMAIN j = Fields /\ j.pc = p /\ j.br = b /\ j.req = None /\ j.owed = None /\ j.todo = {} /\ j.then = <<>>
  BY DEF Job, NoTask
<1>3. (task' = [task EXCEPT ![t] = k] /\ x = {}) \/ (task' = [task EXCEPT ![t] = l] /\ q = <<>>)
  OBVIOUS
<1> HIDE DEF j
<1>2. /\ k.pc = p /\ k.aim = Requests /\ k.br = b /\ k.then = q /\ k.todo = {} /\ k.req = None
      /\ k.owed = None
  BY <1>1
<1>4. /\ l.pc = p /\ l.aim = Requests /\ l.br = b /\ l.then = <<>> /\ l.todo = x /\ l.req = None
      /\ l.owed = None
  BY <1>1
<1> HIDE DEF k, l
<1> QED
  BY <1>2, <1>3, <1>4 DEF Starts, ThreadsInv, Others

LEMMA RunStarts ==
  ASSUME ThreadsInv, NEW t \in Threads, NEW a, NEW b, NEW calls, Run(t, Job(a, b, "idle"), calls)
  PROVE  \/ Starts(t, Head(calls), a, b, Tail(calls), {})
         \/ "batch" \in Hazards /\ Starts(t, "later", a, b, calls, {})
<1> DEFINE j == Job(a, b, "idle")
           now == [j EXCEPT !.pc = Head(calls), !.then = Tail(calls)]
           later == [j EXCEPT !.pc = "later", !.then = calls]
<1>1. DOMAIN j = Fields /\ j.br = b /\ j.req = None /\ j.owed = None /\ j.aim = a /\ j.todo = {}
  BY DEF Job, NoTask
<1>2. \/ task' = [task EXCEPT ![t] = now]
      \/ "batch" \in Hazards /\ task' = [task EXCEPT ![t] = later]
  BY DEF Run
<1> HIDE DEF j
<1>3. /\ now.pc = Head(calls) /\ now.aim = a /\ now.br = b /\ now.then = Tail(calls) /\ now.todo = {}
      /\ now.req = None /\ now.owed = None
  BY <1>1
<1>4. /\ later.pc = "later" /\ later.aim = a /\ later.br = b /\ later.then = calls /\ later.todo = {}
      /\ later.req = None /\ later.owed = None
  BY <1>1
<1> HIDE DEF now, later
<1> QED
  BY <1>2, <1>3, <1>4 DEF Starts, ThreadsInv, Others

\* What StartJob and Release begin.
Job1(t) == \E b \in Present : \E q \in {<<>>, <<"peek">>} : Starts(t, "destroy", Requests, b, q, {})
Job2(t) ==
  \E b \in Browsers :
    /\ Status(b) = "locked" /\ entry[b].holder \in Requests
    /\ \/ Starts(t, "return", {entry[b].holder}, b, <<"peek">>, {})
       \/ "batch" \in Hazards /\ Starts(t, "later", {entry[b].holder}, b, <<"return", "peek">>, {})
Job3(t) ==
  \E b \in Browsers :
    /\ Status(b) = "idle"
    /\ \/ Starts(t, "destroy", {}, b, <<>>, {})
       \/ "batch" \in Hazards /\ Starts(t, "later", {}, b, <<"destroy">>, {})
Job4(t) ==
  \E mine \in SUBSET Requests :
    \/ \E b \in Present :
         /\ entry[b].holder \in mine
         /\ \/ Starts(t, "return", mine, b, <<"cancelPlugin", "peek">>, {})
            \/ /\ "batch" \in Hazards
               /\ Starts(t, "later", mine, b, <<"return", "cancelPlugin", "peek">>, {})
    \/ Starts(t, "cancelPlugin", mine, None, <<>>, {})
Job5(t, B) == \E b \in B : Starts(t, "destroy", Requests, b, <<>>, B \ {b})
Job6(t, r) ==
  /\ HoldsLock(r) /\ Ready(handle[r])
  /\ \/ Starts(t, "take", {r}, handle[r], <<>>, {})
     \/ Starts(t, "destroy", {r}, handle[r], <<"peek">>, {})

LEMMA StopPluginStarts ==
  ASSUME ThreadsInv, NEW t \in Workers, NEW r \in Requests, StopPlugin(t, r)
  PROVE  Job4(t)
<1> DEFINE mine == {q \in Requests : Plugin[q] = Plugin[r]}
           held == {b \in Present : entry[b].holder \in mine}
           k == [NoTask EXCEPT !.pc = "cancelPlugin", !.aim = mine]
<1>1. CASE task' = [task EXCEPT ![t] = k]
  <2>1. /\ k.pc = "cancelPlugin" /\ k.aim = mine /\ k.br = None /\ k.then = <<>> /\ k.todo = {}
        /\ k.req = None /\ k.owed = None
    BY DEF NoTask
  <2> HIDE DEF k
  <2>2. Starts(t, "cancelPlugin", mine, None, <<>>, {})
    BY <1>1, <2>1 DEF Starts, ThreadsInv, Others
  <2> QED
    BY <2>2 DEF Job4
<1>2. ASSUME NEW b \in held, Run(t, Job(mine, b, "idle"), <<"return", "cancelPlugin", "peek">>)
      PROVE  Job4(t)
  <2>1. /\ Head(<<"return", "cancelPlugin", "peek">>) = "return"
        /\ Tail(<<"return", "cancelPlugin", "peek">>) = <<"cancelPlugin", "peek">>
    OBVIOUS
  <2>2. \/ Starts(t, "return", mine, b, <<"cancelPlugin", "peek">>, {})
        \/ /\ "batch" \in Hazards
           /\ Starts(t, "later", mine, b, <<"return", "cancelPlugin", "peek">>, {})
    BY <1>2, <2>1, RunStarts
  <2> QED
    BY <2>2 DEF Job4
<1> QED
  BY <1>1, <1>2 DEF StopPlugin

LEMMA StartJobStarts ==
  ASSUME ThreadsInv, Calls, NEW t \in Workers, StartJob(t)
  PROVE  \/ /\ Job1(t) \/ Job2(t) \/ Job3(t) \/ Job4(t)
            /\ UNCHANGED <<queue, stopped, phase>>
         \/ \E s \in Sessions :
              /\ Fail(ToSet(queue[s])) /\ queue' = [queue EXCEPT ![s] = <<>>]
              /\ stopped' = stopped /\ (task' = task \/ Job5(t, Of(s)))
         \/ /\ stopped' = TRUE /\ Fail(UNION {ToSet(queue[s]) : s \in Sessions})
            /\ queue' = [s \in Sessions |-> <<>>]
            /\ (task' = task /\ Present = {}) \/ Job5(t, Present)
<1>1. ASSUME NEW b \in Browsers, StartDestroy(t, b)
      PROVE  Job1(t) /\ UNCHANGED <<queue, stopped, phase>>
  BY <1>1, KillStarts DEF StartDestroy, Job1
<1>2. ASSUME NEW b \in Browsers, Sweep(t, b)
      PROVE  Job2(t) /\ UNCHANGED <<queue, stopped, phase>>
  <2>1. Head(<<"return", "peek">>) = "return" /\ Tail(<<"return", "peek">>) = <<"peek">>
    OBVIOUS
  <2>2. entry[b].holder \in Requests
    BY <1>2 DEF Sweep, Calls, EntryOK
  <2>3. \/ Starts(t, "return", {entry[b].holder}, b, <<"peek">>, {})
        \/ "batch" \in Hazards /\ Starts(t, "later", {entry[b].holder}, b, <<"return", "peek">>, {})
    BY <1>2, <2>1, RunStarts DEF Sweep
  <2> QED
    BY <1>2, <2>2, <2>3 DEF Sweep, Job2
<1>3. ASSUME NEW b \in Browsers, Evict(t, b)
      PROVE  Job3(t) /\ UNCHANGED <<queue, stopped, phase>>
  <2>1. Head(<<"destroy">>) = "destroy" /\ Tail(<<"destroy">>) = <<>>
    OBVIOUS
  <2>2. \/ Starts(t, "destroy", {}, b, <<>>, {})
        \/ "batch" \in Hazards /\ Starts(t, "later", {}, b, <<"destroy">>, {})
    BY <1>3, <2>1, RunStarts DEF Evict
  <2> QED
    BY <1>3, <2>2 DEF Evict, Job3
<1>4. ASSUME NEW r \in Requests, StopPlugin(t, r)
      PROVE  Job4(t) /\ UNCHANGED <<queue, stopped, phase>>
  BY <1>4, StopPluginStarts DEF StopPlugin
<1>5. ASSUME NEW B, DestroyAll(t, B) PROVE (task' = task /\ B = {}) \/ Job5(t, B)
  BY <1>5, KillStarts DEF DestroyAll, Job5
<1>6. ASSUME NEW s \in Sessions, DestroyProfile(t, s)
      PROVE  /\ Fail(ToSet(queue[s])) /\ queue' = [queue EXCEPT ![s] = <<>>]
             /\ stopped' = stopped /\ (task' = task \/ Job5(t, Of(s)))
  BY <1>5, <1>6 DEF DestroyProfile
<1>7. ASSUME Stop(t)
      PROVE  /\ stopped' = TRUE /\ Fail(UNION {ToSet(queue[s]) : s \in Sessions})
             /\ queue' = [s \in Sessions |-> <<>>]
             /\ (task' = task /\ Present = {}) \/ Job5(t, Present)
  BY <1>5, <1>7 DEF Stop
<1> QED
  BY <1>1, <1>2, <1>3, <1>4, <1>6, <1>7 DEF StartJob

LEMMA ReleaseStarts ==
  ASSUME ThreadsInv, NEW t \in Workers, NEW r \in Requests, Release(t, r)
  PROVE  \/ task' = task /\ (stopped \/ ~HoldsLock(r))
         \/ Job6(t, r)
BY PlainStarts, DropStarts DEF Release, Job6

\* A job has nothing to answer yet.
LEMMA StartsCalls ==
  ASSUME ThreadsInv, Calls, NEW t \in Workers, NEW p \in {"destroy", "return", "later", "take", "cancelPlugin"},
         NEW a \in SUBSET Requests, NEW b, NEW q, q \notin Endings, NEW T, Starts(t, p, a, b, q, T),
         p = "take" => q = <<>> /\ T = {}
  PROVE  Others(t) /\ CallOK(t)' /\ task'[t].owed = None
<1>1. t \notin Requests
  BY SceneFacts
<1> QED
  BY <1>1 DEF Starts, CallOK, OwedOK, Serving, Renewing, Handing

LEMMA StartPlans ==
  /\ <<"peek">> \notin Endings /\ <<>> \notin Endings /\ <<"return", "peek">> \notin Endings
  /\ <<"destroy">> \notin Endings /\ <<"return", "cancelPlugin", "peek">> \notin Endings
  /\ <<"cancelPlugin", "peek">> \notin Endings
<1>1. /\ Head(<<"peek">>) = "peek" /\ Head(<<"refuse">>) = "refuse" /\ Head(<<"create">>) = "create"
      /\ <<>> # <<"refuse">> /\ <<>> # <<"create">> /\ Head(<<"return", "peek">>) = "return"
      /\ Head(<<"destroy">>) = "destroy"
      /\ Head(<<"return", "cancelPlugin", "peek">>) = "return"
      /\ Head(<<"cancelPlugin", "peek">>) = "cancelPlugin"
  OBVIOUS
<1> QED
  BY <1>1 DEF Endings

LEMMA JobCalls ==
  ASSUME ThreadsInv, Calls, NEW t \in Workers,
         \/ Job1(t) \/ Job2(t) \/ Job3(t) \/ Job4(t)
         \/ \E B : Job5(t, B)
         \/ \E r \in Requests : Job6(t, r)
  PROVE  Others(t) /\ CallOK(t)' /\ task'[t].owed = None
<1>1. CASE Job1(t)
  BY <1>1, StartsCalls, StartPlans DEF Job1
<1>2. CASE Job2(t)
  BY <1>2, StartsCalls, StartPlans DEF Job2
<1>3. CASE Job3(t)
  BY <1>3, StartsCalls, StartPlans DEF Job3
<1>4. CASE Job4(t)
  BY <1>4, StartsCalls, StartPlans DEF Job4
<1>5. ASSUME NEW B, Job5(t, B) PROVE Others(t) /\ CallOK(t)' /\ task'[t].owed = None
  BY <1>5, StartsCalls, StartPlans DEF Job5
<1>6. ASSUME NEW r \in Requests, Job6(t, r) PROVE Others(t) /\ CallOK(t)' /\ task'[t].owed = None
  BY <1>6, StartsCalls, StartPlans DEF Job6
<1> QED
  BY <1>1, <1>2, <1>3, <1>4, <1>5, <1>6

LEMMA QueuesFailed ==
  ASSUME QueueOK, scene' = scene, Fail(UNION {ToSet(queue[s]) : s \in Sessions}),
         queue' = [s \in Sessions |-> <<>>]
  PROVE  QueueOK' /\ \A r \in Requests : phase'[r] = phase[r] \/ phase[r] = "waiting"
<1>1. queue' \in [Sessions -> Seq(Requests)] /\ \A s \in Sessions : queue'[s] = <<>>
  OBVIOUS
<1>2. QueueOK'
  BY <1>1, QueueCleared
<1>3. \A s \in Sessions : \A r \in ToSet(queue[s]) : phase[r] = "waiting"
  BY DEF QueueOK, ToSet
<1>4. \A r \in Requests : phase'[r] = IF r \in UNION {ToSet(queue[s]) : s \in Sessions} THEN "failed" ELSE phase[r]
  BY FailMoves
<1>5. \A r \in UNION {ToSet(queue[s]) : s \in Sessions} : phase[r] = "waiting"
  BY <1>3
<1> QED
  BY <1>2, <1>4, <1>5

LEMMA StartJobCalls ==
  ASSUME ThreadsInv, Calls, scene' = scene, NEW t \in Workers, StartJob(t)
  PROVE  Calls'
<1>1. entry' = entry /\ revoked' = revoked
  BY DEF StartJob
<1>2. EntryOK' /\ revoked' \subseteq Requests
  BY <1>1 DEF Calls, EntryOK, Status
<1>3. /\ QueueOK' /\ \A r \in Requests : phase'[r] = phase[r] \/ phase[r] = "waiting"
      /\ \/ task' = task
         \/ Others(t) /\ CallOK(t)' /\ task'[t].owed = None
  <2>1. CASE (Job1(t) \/ Job2(t) \/ Job3(t) \/ Job4(t)) /\ queue' = queue /\ phase' = phase
    BY <2>1, JobCalls, QueueSame DEF Calls
  <2>2. ASSUME NEW s \in Sessions, Fail(ToSet(queue[s])), queue' = [queue EXCEPT ![s] = <<>>],
               task' = task \/ Job5(t, Of(s))
        PROVE  /\ QueueOK' /\ \A r \in Requests : phase'[r] = phase[r] \/ phase[r] = "waiting"
               /\ task' = task \/ (Others(t) /\ CallOK(t)' /\ task'[t].owed = None)
    BY <2>2, JobCalls, QueueFailed DEF Calls
  <2>3. CASE /\ Fail(UNION {ToSet(queue[s]) : s \in Sessions})
             /\ queue' = [s \in Sessions |-> <<>>]
             /\ task' = task \/ Job5(t, Present)
    BY <2>3, JobCalls, QueuesFailed DEF Calls
  <2> QED
    BY <2>1, <2>2, <2>3, StartJobStarts
<1> QED
  BY <1>2, <1>3, CallsMove, CallsStay DEF PhaseMoves

LEMMA ReleaseCalls ==
  ASSUME ThreadsInv, Calls, scene' = scene, NEW t \in Workers, NEW r \in Requests, Release(t, r)
  PROVE  Calls'
<1>1. /\ entry' = entry /\ revoked' = revoked /\ queue' = queue
      /\ phase[r] \in {"granted", "released"} /\ phase' = [phase EXCEPT ![r] = "released"]
  BY DEF Release
<1>2. EntryOK' /\ revoked' \subseteq Requests
  BY <1>1 DEF Calls, EntryOK, Status
<1>3. \A q \in Requests : phase'[q] = phase[q] \/ phase[q] \in {"granted", "released"}
  BY <1>1 DEF ThreadsInv
<1>4. QueueOK'
  BY <1>1, <1>3, QueueSame DEF Calls
<1>5. task' = task \/ (Others(t) /\ CallOK(t)' /\ task'[t].owed = None)
  BY ReleaseStarts, JobCalls
<1> QED
  BY <1>2, <1>3, <1>4, <1>5, CallsMove, CallsStay DEF PhaseMoves

LEMMA AcquireCalls ==
  ASSUME ThreadsInv, Calls, scene' = scene, NEW r \in Requests, Acquire(r)
  PROVE  Calls'
<1>1. /\ entry' = entry /\ revoked' = revoked /\ queue' = queue
      /\ phase[r] = "new" /\ phase' = [phase EXCEPT ![r] = "calling"]
  BY DEF Acquire
<1>2. EntryOK' /\ revoked' \subseteq Requests
  BY <1>1 DEF Calls, EntryOK, Status
<1>3. phase'[r] = "calling" /\ \A q \in Requests : phase'[q] = phase[q] \/ (q = r /\ phase[q] = "new")
  BY <1>1 DEF ThreadsInv
<1>4. QueueOK'
  BY <1>1, <1>3, QueueSame DEF Calls
<1> DEFINE k == [NoTask EXCEPT !.pc = "reuse", !.req = r, !.sess = Session[r]]
<1>5. /\ k.pc = "reuse" /\ k.req = r /\ k.owed = None /\ k.aim = {} /\ k.then = <<>> /\ k.todo = {}
      /\ task' = [task EXCEPT ![r] = k]
  BY DEF Acquire, NoTask
<1> HIDE DEF k
<1>6. Others(r) /\ task'[r] = k
  BY <1>5 DEF ThreadsInv, Others
<1>7. CallOK(r)'
  BY <1>3, <1>5, <1>6, PeekPlan DEF CallOK, OwnOK, OwedOK, OwnSteps, Handing
<1> QED
  BY <1>2, <1>3, <1>4, <1>5, <1>6, <1>7, CallsMove DEF PhaseMoves

LEMMA TakeoverCalls ==
  ASSUME ThreadsInv, Calls, scene' = scene, NEW r \in Requests, Takeover(r)
  PROVE  Calls'
<1>1. /\ entry' = entry /\ revoked' = revoked /\ queue' = queue
      /\ phase[r] = "new" /\ phase' = [phase EXCEPT ![r] = "calling"]
  BY DEF Takeover
<1>2. EntryOK' /\ revoked' \subseteq Requests
  BY <1>1 DEF Calls, EntryOK, Status
<1>3. phase'[r] = "calling" /\ \A q \in Requests : phase'[q] = phase[q] \/ (q = r /\ phase[q] = "new")
  BY <1>1 DEF ThreadsInv
<1>4. QueueOK'
  BY <1>1, <1>3, QueueSame DEF Calls
<1>5. PICK b \in Of(Session[r]) :
        /\ entry[b].holder # None
        /\ task' = [task EXCEPT ![r] = [Job({entry[b].holder}, b, "seize") EXCEPT !.req = r]]
  BY DEF Takeover
<1> DEFINE j == Job({entry[b].holder}, b, "seize")
           k == [j EXCEPT !.req = r]
<1>6. /\ DOMAIN j = Fields /\ j.pc = "seize" /\ j.owed = None /\ j.aim = {entry[b].holder} /\ j.then = <<>>
      /\ j.todo = {} /\ j.br = b
  BY DEF Job, NoTask
<1>7. entry[b].holder \in Requests
  BY <1>5 DEF Calls, EntryOK, Of, Present
<1>8. task' = [task EXCEPT ![r] = k]
  BY <1>5
<1> HIDE DEF j
<1>9. /\ k.pc = "seize" /\ k.req = r /\ k.owed = None /\ k.aim = {entry[b].holder} /\ k.then = <<>>
      /\ k.todo = {}
  BY <1>6
<1> HIDE DEF k
<1>10. Others(r) /\ task'[r] = k
  BY <1>8 DEF ThreadsInv, Others
<1>11. CallOK(r)'
  BY <1>3, <1>7, <1>9, <1>10, PeekPlan DEF CallOK, OwnOK, OwedOK, OwnSteps, Handing, Serving, Renewing
<1> QED
  BY <1>2, <1>3, <1>4, <1>9, <1>10, <1>11, CallsMove DEF PhaseMoves

LEMMA SeizeCalls ==
  ASSUME ThreadsInv, Calls, scene' = scene, NEW r \in Requests, Seize(r)
  PROVE  Calls'
<1> DEFINE b == task[r].br
<1>1. /\ queue' = queue /\ At(r, "seize") /\ task' = [task EXCEPT ![r] = NoTask] /\ b \in Browsers
      /\ phase[r] = "calling"
  BY CallFacts DEF Seize, OwnOK, ThreadOK, Named
<1>2. EntryOK' /\ revoked' \subseteq Requests
  <2>1. CASE Ready(b)
    BY <1>1, <2>1, EntryLocked, ReclaimOK DEF Seize
  <2>2. CASE ~Ready(b)
    BY <2>2 DEF Seize, Calls, EntryOK, Status
  <2> QED
    BY <2>1, <2>2
<1>3. \A q \in Requests \ {r} : phase'[q] = phase[q]
  BY FailMoves, ResolveMoves DEF Seize
<1>4. CallStep(r) /\ Waiters
  BY <1>1, <1>3, EndCalls DEF CallStep, PhaseMoves, Waiters
<1> QED
  BY <1>1, <1>2, <1>4, CallsDone

LEMMA EnqueueCalls ==
  ASSUME ThreadsInv, Calls, scene' = scene, NEW r \in Requests, Enqueue(r)
  PROVE  Calls'
<1>1. /\ At(r, "enqueue") /\ task' = [task EXCEPT ![r] = NoTask] /\ phase[r] = "calling"
      /\ entry' = entry /\ revoked' = revoked
  BY CallFacts DEF Enqueue, OwnOK
<1>2. EntryOK' /\ revoked' \subseteq Requests
  BY <1>1 DEF Calls, EntryOK, Status
<1>3. QueueOK' /\ \A q \in Requests \ {r} : phase'[q] = phase[q]
  <2>1. ASSUME NEW i \in Places(queue[Session[r]], r),
               queue' = [queue EXCEPT ![Session[r]] = InsertAt(@, i, r)],
               phase' = [phase EXCEPT ![r] = "waiting"]
        PROVE  QueueOK' /\ \A q \in Requests \ {r} : phase'[q] = phase[q]
    <3>1. phase'[r] = "waiting" /\ \A q \in Requests \ {r} : phase'[q] = phase[q]
      BY <2>1 DEF ThreadsInv
    <3>2. i \in 1..Len(queue[Session[r]]) + 1
      BY DEF Places
    <3>3. QueueOK
      BY DEF Calls
    <3> QED
      BY <1>1, <2>1, <3>1, <3>2, <3>3, QueueJoined, SceneFacts
  <2>2. CASE Fail({r}) /\ queue' = queue
    <3>1. \A q \in Requests \ {r} : phase'[q] = phase[q]
      BY <2>2, FailMoves
    <3> QED
      BY <1>1, <2>2, <3>1, QueueSame DEF Calls
  <2> QED
    BY <2>1, <2>2 DEF Enqueue
<1>4. Others(r) /\ CallOK(r)' /\ task'[r].owed = None
  BY <1>1, EndCalls
<1>5. PhaseMoves(r)
  BY <1>1, <1>3 DEF PhaseMoves
<1> QED
  BY <1>2, <1>3, <1>4, <1>5, CallsMove

LEMMA GiveUpCalls ==
  ASSUME ThreadsInv, Calls, scene' = scene, NEW r \in Requests, GiveUp(r)
  PROVE  Calls'
<1>1. /\ CancelWaiting({r}) /\ Fail({r}) /\ entry' = entry /\ revoked' = revoked /\ task' = task
      /\ phase[r] = "waiting"
  BY DEF GiveUp
<1>2. \A q \in Requests \ {r} : phase'[q] = phase[q]
  BY <1>1, FailMoves
<1>3. QueueOK'
  BY <1>1, <1>2, QueueCancelled DEF Calls
<1>4. EntryOK' /\ revoked' \subseteq Requests
  BY <1>1 DEF Calls, EntryOK, Status
<1> QED
  BY <1>1, <1>2, <1>3, <1>4, CallsStay

LEMMA BuildHandleCalls ==
  ASSUME ThreadsInv, Calls, scene' = scene, NEW r \in Requests, BuildHandle(r)
  PROVE  Calls'
<1>1. /\ phase[r] = "resolved" /\ entry' = entry /\ revoked' = revoked /\ task' = task /\ queue' = queue
      /\ phase' = [phase EXCEPT ![r] = IF Ready(handle[r]) THEN "granted" ELSE "failed"]
  BY DEF BuildHandle
<1>2. \A q \in Requests \ {r} : phase'[q] = phase[q]
  BY <1>1 DEF ThreadsInv
<1>3. QueueOK'
  BY <1>1, <1>2, QueueSame DEF Calls
<1>4. EntryOK' /\ revoked' \subseteq Requests
  BY <1>1 DEF Calls, EntryOK, Status
<1> QED
  BY <1>1, <1>2, <1>3, <1>4, CallsStay

LEMMA SameCalls ==
  ASSUME Calls, UNCHANGED <<scene, entry, queue, phase, handle, task, revoked>>
  PROVE  Calls'
<1>1. QueueOK'
  BY QueueSame DEF Calls
<1>2. EntryOK' /\ revoked' \subseteq Requests
  BY DEF Calls, EntryOK, Status
<1> QED
  BY <1>1, <1>2, CallsStay

LEMMA StepCalls == Inv /\ Calls /\ [Next]_vars => Calls'
<1> SUFFICES ASSUME Inv, Calls, [Next]_vars PROVE Calls'
  OBVIOUS
<1>0. ThreadsInv
  BY DEF Inv
<1>1. CASE UNCHANGED vars
  BY <1>1, SameCalls DEF vars
<1>2. CASE Next
  <2>0. scene' = scene
    BY <1>2 DEF Next
  <2>1. ASSUME NEW r \in Requests, Caller(r) PROVE Calls'
    BY <1>0, <2>0, <2>1, AcquireCalls, TakeoverCalls, SeizeCalls, EnqueueCalls, GiveUpCalls,
       BuildHandleCalls DEF Caller
  <2>2. ASSUME NEW t \in Threads, Advance(t) PROVE Calls'
    BY <1>0, <2>0, <2>2, AdvanceCalls
  <2>3. ASSUME NEW t \in Workers, StartJob(t) \/ \E r \in Requests : Release(t, r) PROVE Calls'
    BY <1>0, <2>0, <2>3, StartJobCalls, ReleaseCalls
  <2>4. ASSUME NEW b \in Browsers, Launch(b) \/ ReapCreated(b) PROVE Calls'
    BY <2>0, <2>4, SameCalls DEF Launch, ReapCreated
  <2> QED
    BY <1>2, <2>1, <2>2, <2>3, <2>4 DEF Next
<1> QED
  BY <1>1, <1>2

LEMMA InitCalls == Init => Calls
<1> SUFFICES ASSUME Init PROVE Calls
  OBVIOUS
<1>1. ASSUME NEW t \in Threads PROVE CallOK(t)
  <2>1. task[t] = NoTask
    BY DEF Init
  <2> QED
    BY <2>1, NoTaskCall, PeekPlan DEF CallOK, OwedOK, OwnOK, Serving, Renewing, OwnSteps, Handing
<1>2. QueueOK
  BY DEF Init, QueueOK
<1>3. OweOne
  BY NoTaskCall DEF Init, OweOne
<1>4. EntryOK
  BY EntryForms DEF Init, EntryOK
<1> QED
  BY <1>1, <1>2, <1>3, <1>4 DEF Init, Calls
-----------------------------------------------------------------------------
(* Who may take a browser from whom.  With one job at a time, nothing else *)
(* moves while a request seizes a browser (SeizeInv), and what a job works *)
(* with is as it found it (WorkerAt); so those who have a handle have the  *)
(* lock (HoldsInv), and each lock has a handle or a job that sees to it    *)
(* (LocksInv), after stop() as well (StopInv).                             *)

Given == {"resolved", "granted"}
Alone(t) == /\ \A u \in Threads \ {t} : ~Prompt(u)
            /\ \A r \in Requests : phase[r] # "resolved"
SeizeInv == \A r \in Requests : At(r, "seize") =>
  /\ Alone(r) /\ r \in Takers
  /\ task[r].br \in Browsers /\ entry[task[r].br].holder # None
WorkInv == \A v, w \in Workers : ~At(v, "idle") /\ ~At(w, "idle") => v = w

\* Requests keep their places; then a job has aimed at the holders it clears; then
\* it hands every lock on.
Mine == Orderly /\ Takers = {} /\ "batch" \notin Hazards
Sure == Orderly /\ "lookup" \notin Hazards

Handles == Handing \cup {"take", "return", "reset", "settle", "destroy", "dequeue"}
Handling(w, b) == b \in task[w].todo \/ (task[w].br = b /\ task[w].pc \in Handles)
Settled(b) == \E r \in Requests : /\ entry[b] = LockedBy(r) /\ handle[r] = b
                                  /\ phase[r] \in Given

\* The request being served is the first of its queue; its browser is locked for it.
HeadAt(w) == Orderly /\ task[w].pc \in Serving /\ ~Owing(w) =>
  queue[task[w].sess] # <<>> /\ Head(queue[task[w].sess]) = task[w].req
DequeueAt(w) == Orderly /\ At(w, "dequeue") => entry[task[w].br] = LockedBy(task[w].req)
ResetAt(w) == task[w].pc \in {"reset", "settle"} => entry[task[w].br] = InReset(task[w].br)

\* A job that clears a lock has aimed at its holder.
Held(w) == entry[task[w].br].status = "locked" /\ entry[task[w].br].holder \in task[w].aim
AimAt(w) == Mine =>
  /\ ~At(w, "later")
  /\ task[w].todo # {} => task[w].aim = Requests
  /\ task[w].pc \in Handing \cup {"take", "return"} => Held(w)
  /\ At(w, "destroy") => \/ task[w].aim = Requests
                         \/ Held(w)
                         \/ entry[task[w].br] = InReset(task[w].br)
                         \/ Alone(w) /\ Status(task[w].br) = "idle"
LockAt(w) == Sure => \A b \in Browsers : Status(b) = "locked" => Settled(b) \/ Handling(w, b)
StopAt(w) == stopped => \A b \in Browsers : Ready(b) =>
  b \in task[w].todo \/ (At(w, "destroy") /\ task[w].br = b)
WorkerAt(w) == HeadAt(w) /\ DequeueAt(w) /\ ResetAt(w) /\ AimAt(w)

HoldsInv == Mine => \A r \in Requests :
  phase[r] \in Given /\ r \notin revoked => entry[handle[r]] = LockedBy(r)
LocksInv == Sure => \A b \in Browsers : Status(b) = "locked" =>
  Settled(b) \/ \E w \in Workers : Handling(w, b)
StopInv == stopped => \A b \in Browsers : Ready(b) =>
  \E w \in Workers : b \in task[w].todo \/ (At(w, "destroy") /\ task[w].br = b)

Locks == /\ SeizeInv /\ WorkInv
         /\ \A w \in Workers : WorkerAt(w)
         /\ HoldsInv /\ LocksInv /\ StopInv
Order == Calls /\ (AtOnce = 1 => Locks)

\* The scene does not change.
LEMMA SceneSame ==
  ASSUME scene' = scene
  PROVE  /\ Orderly' = Orderly /\ Mine' = Mine /\ Sure' = Sure /\ AtOnce' = AtOnce
         /\ Hazards' = Hazards /\ Takers' = Takers /\ Impatient' = Impatient
BY DEF Orderly, Mine, Sure, AtOnce, Hazards, Takers, Impatient, Session, Prio

\* The browsers t still has to destroy come along.
TodoMoves(t) == \A b \in task[t].todo :
  b \in task'[t].todo \/ (task'[t].pc = "destroy" /\ task'[t].br = b)

\* No lock and no answer changes.
Gentle ==
  /\ \A b \in Browsers : Status(b) = "locked" \/ Status(b)' = "locked" => entry'[b] = entry[b]
  /\ \A r \in Requests : phase[r] \in Given \/ phase'[r] \in Given =>
       phase'[r] = phase[r] /\ handle'[r] = handle[r]
  /\ revoked' = revoked /\ stopped' = stopped
  /\ stopped => \A b \in Browsers : Ready(b)' => Ready(b)
Worked(w) == WorkerAt(w)' /\ LockAt(w)' /\ StopAt(w)' /\ HoldsInv'

LEMMA GentleHolds ==
  ASSUME ThreadsInv, HoldsInv, scene' = scene, Gentle
  PROVE  HoldsInv'
<1> SUFFICES ASSUME Mine, NEW r \in Requests, phase'[r] \in Given, r \notin revoked'
             PROVE  entry'[handle'[r]] = LockedBy(r)
  BY SceneSame DEF HoldsInv
<1>1. phase[r] \in Given /\ handle'[r] = handle[r] /\ r \notin revoked /\ handle[r] \in Browsers
  BY DEF Gentle, ThreadsInv, Given
<1>2. entry[handle[r]] = LockedBy(r)
  BY <1>1 DEF HoldsInv
<1>3. Status(handle[r]) = "locked"
  BY <1>2 DEF Status, LockedBy
<1> QED
  BY <1>1, <1>2, <1>3 DEF Gentle

LEMMA SettledStays ==
  ASSUME NEW b \in Browsers, entry'[b] = entry[b], Settled(b),
         \A r \in Requests : phase[r] \in Given => phase'[r] = phase[r] /\ handle'[r] = handle[r]
  PROVE  Settled(b)'
BY DEF Settled, LockedBy

LEMMA GentleStays ==
  ASSUME scene' = scene, NEW w \in Workers, Gentle, LockAt(w), StopAt(w), TodoMoves(w),
         \A b \in Browsers : /\ Sure /\ Status(b) = "locked" /\ task[w].br = b /\ task[w].pc \in Handles
                               => Handling(w, b)'
                             /\ stopped /\ Ready(b)' /\ task[w].br = b => ~At(w, "destroy")
  PROVE  LockAt(w)' /\ StopAt(w)'
<1>1. ASSUME Sure, NEW b \in Browsers, Status(b)' = "locked" PROVE Settled(b)' \/ Handling(w, b)'
  <2>1. entry'[b] = entry[b] /\ Status(b) = "locked"
    BY <1>1 DEF Gentle, Status
  <2>2. CASE Settled(b)
    BY <2>1, <2>2, SettledStays DEF Gentle
  <2>3. CASE b \in task[w].todo
    BY <2>3 DEF TodoMoves, Handling, Handles
  <2>4. CASE task[w].br = b /\ task[w].pc \in Handles
    BY <1>1, <2>1, <2>4
  <2> QED
    BY <1>1, <2>1, <2>2, <2>3, <2>4 DEF LockAt, Handling
<1>2. ASSUME stopped', NEW b \in Browsers, Ready(b)'
      PROVE  b \in task'[w].todo \/ (task'[w].pc = "destroy" /\ task'[w].br = b)
  BY <1>2 DEF Gentle, StopAt, TodoMoves
<1> QED
  BY <1>1, <1>2, SceneSame DEF LockAt, StopAt

LEMMA ResumeAt ==
  ASSUME ThreadsInv, Calls, scene' = scene, NEW w \in Workers, Resume(w), AimAt(w)
  PROVE  WorkerAt(w)' /\ TodoMoves(w)
<1>0. /\ w \in Threads /\ CallOK(w) /\ OwedOK(w) /\ ThreadOK(w) /\ Resumes(w)
  BY CallFacts, ResumeWalks
<1>1. CASE task[w].then # <<>>
  <2>1. /\ task'[w].pc = Head(task[w].then) /\ task'[w].todo = task[w].todo /\ task'[w].aim = task[w].aim
        /\ task'[w].req = task[w].owed /\ task'[w].owed = task[w].owed
    BY <1>0, <1>1 DEF Resumes
  <2>2. /\ task'[w].pc \in {"peek", "cancelPlugin", "refuse", "create", "return", "destroy"}
        /\ task'[w].pc \in {"return", "destroy"} => At(w, "later")
        /\ task'[w].pc \in {"refuse", "create"} => task[w].then \in Endings
    <3>1. task[w].then \in Endings => task'[w].pc \in {"refuse", "create"}
      BY <2>1, PlanHeads
    <3>2. task[w].then \in Plans \ Endings => task'[w].pc \in {"peek", "cancelPlugin"}
      BY <1>1, <2>1, PlanHeads
    <3>3. task[w].then \in Batched => task'[w].pc \in {"return", "destroy"}
      BY <2>1, PlanHeads
    <3>4. task[w].then \in Plans \/ (task[w].then \in Batched /\ At(w, "later"))
      BY <1>0 DEF ThreadOK
    <3> QED
      BY <3>1, <3>2, <3>3, <3>4
  <2>3. task'[w].pc = "create" => Owing(w)'
    BY <1>0, <2>1, <2>2 DEF OwedOK, Owing
  <2>4. HeadAt(w)' /\ DequeueAt(w)' /\ ResetAt(w)'
    BY <2>2, <2>3 DEF HeadAt, DequeueAt, ResetAt, Serving, Renewing
  <2>5. AimAt(w)'
    BY <2>1, <2>2, SceneSame DEF AimAt, Handing
  <2> QED
    BY <2>1, <2>4, <2>5 DEF WorkerAt, TodoMoves
<1>2. CASE task[w].then = <<>> /\ task[w].todo # {}
  <2>1. PICK b \in task[w].todo :
          /\ task'[w].pc = "destroy" /\ task'[w].br = b /\ task'[w].todo = task[w].todo \ {b}
          /\ task'[w].aim = task[w].aim
    BY <1>0, <1>2 DEF Resumes
  <2>2. HeadAt(w)' /\ DequeueAt(w)' /\ ResetAt(w)'
    BY <2>1 DEF HeadAt, DequeueAt, ResetAt, Serving, Renewing
  <2>3. AimAt(w)'
    BY <1>2, <2>1, SceneSame DEF AimAt, Handing
  <2> QED
    BY <2>1, <2>2, <2>3 DEF WorkerAt, TodoMoves
<1>3. CASE task[w].then = <<>> /\ task[w].todo = {} /\ task'[w] = NoTask
  BY <1>3, NoTaskCall DEF WorkerAt, TodoMoves, HeadAt, DequeueAt, ResetAt, AimAt, Serving, Renewing, Handing
<1> QED
  BY <1>0, <1>1, <1>2, <1>3 DEF Resumes

\* A step that handles no browser.
Plainly == Steps \ (Handles \cup {"later"})

LEMMA GoesAt ==
  ASSUME scene' = scene, NEW w \in Workers, NEW p \in Plainly, Goes(w, p), WorkerAt(w),
         queue' = queue, p \in Serving => task[w].pc \in Serving
  PROVE  WorkerAt(w)' /\ TodoMoves(w)
<1>1. /\ task'[w].pc = p /\ task'[w].todo = task[w].todo /\ task'[w].aim = task[w].aim
      /\ task'[w].req = task[w].req /\ task'[w].owed = task[w].owed /\ task'[w].sess = task[w].sess
      /\ Owing(w)' = Owing(w)
  BY DEF Goes, Rest, Owing
<1>2. HeadAt(w)' /\ DequeueAt(w)' /\ ResetAt(w)'
  BY <1>1, SceneSame DEF HeadAt, DequeueAt, ResetAt, Plainly, Handles, WorkerAt
<1>3. AimAt(w)'
  BY <1>1, SceneSame DEF AimAt, Plainly, Handles, WorkerAt
<1> QED
  BY <1>1, <1>2, <1>3 DEF WorkerAt, TodoMoves

\* What a job is in when it takes a step.
AtWork(w) == WorkerAt(w) /\ LockAt(w) /\ StopAt(w) /\ HoldsInv

LEMMA PlainWork ==
  ASSUME ThreadsInv, Calls, NEW w \in Workers, AtWork(w), scene' = scene, Gentle,
         task[w].pc \in Plainly \cup {"later"},
         \/ Resume(w)
         \/ \E p \in Plainly : /\ Goes(w, p) /\ queue' = queue
                               /\ p \in Serving => task[w].pc \in Serving
  PROVE  Worked(w)
<1>1. WorkerAt(w)' /\ TodoMoves(w)
  BY ResumeAt, GoesAt DEF AtWork, WorkerAt
<1>2. task[w].pc \notin Handles /\ ~At(w, "destroy")
  BY DEF Plainly, Handles, Handing
<1> QED
  BY <1>1, <1>2, GentleStays, GentleHolds DEF Worked, AtWork

LEMMA SameGentle ==
  ASSUME UNCHANGED <<entry, phase, handle, revoked, stopped>>
  PROVE  Gentle
BY DEF Gentle, Ready, Status

\* Some waiters or calls fail.
LEMMA FailGentle ==
  ASSUME NEW R, Fail(R), \A r \in Requests \cap R : phase[r] \notin Given,
         UNCHANGED <<entry, handle, revoked, stopped>>
  PROVE  Gentle
<1>1. \A r \in Requests : phase'[r] = IF r \in R THEN "failed" ELSE phase[r]
  BY FailMoves
<1> QED
  BY <1>1 DEF Gentle, Ready, Status, Given

LEMMA ReuseWork ==
  ASSUME ThreadsInv, Calls, NEW w \in Workers, AtWork(w), scene' = scene, Reuse(w)
  PROVE  Worked(w)
<1>1. Gentle /\ queue' = queue /\ At(w, "reuse")
  BY SameGentle DEF Reuse
<1>2. PICK p \in {"lock", "create"} : Goes(w, p)
  BY GotoWalks, GotoWithWalks DEF Reuse, Walks
<1>3. p \in Plainly /\ task[w].pc \in Plainly /\ task[w].pc \in Serving
  BY <1>1 DEF Plainly, Handles, Handing, Serving, Steps
<1> QED
  BY <1>1, <1>2, <1>3, PlainWork

\* A worker that got no browser.
LEMMA UnobtainedGoes ==
  ASSUME ThreadsInv, Calls, NEW w \in Workers, Unobtained(w), task[w].pc \in {"create", "lockNew", "abandon"}
  PROVE  /\ Resume(w) \/ Goes(w, "peek")
         /\ \A r \in Requests : phase'[r] = phase[r] \/ (phase[r] = "served" /\ phase'[r] = "failed")
<1>1. w \notin Requests /\ OwedOK(w) /\ CallOK(w)
  BY SceneFacts, CallFacts
<1>2. CASE Owing(w)
  <2>1. Fail({task[w].owed}) /\ Resume(w) /\ phase[task[w].owed] = "served"
    BY <1>1, <1>2 DEF Unobtained, Own, Owing, OwedOK
  <2> QED
    BY <2>1, FailMoves
<1>3. CASE ~Owing(w)
  BY <1>1, <1>3, PassWalks DEF Unobtained, Own, Walks
<1> QED
  BY <1>2, <1>3

LEMMA UnobtainedWork ==
  ASSUME ThreadsInv, Calls, NEW w \in Workers, AtWork(w), scene' = scene, Unobtained(w),
         task[w].pc \in {"create", "lockNew", "abandon"},
         queue' = queue, handle' = handle, revoked' = revoked, stopped' = stopped,
         \A b \in Browsers : entry'[b] = entry[b] \/ (~Ready(b) /\ ~Ready(b)')
  PROVE  Worked(w)
<1>1. /\ Resume(w) \/ Goes(w, "peek")
      /\ \A r \in Requests : phase'[r] = phase[r] \/ (phase[r] = "served" /\ phase'[r] = "failed")
  BY UnobtainedGoes
<1>2. Gentle
  BY <1>1 DEF Gentle, Given, Ready, Status
<1>3. "peek" \in Plainly /\ "peek" \notin Serving /\ task[w].pc \in Plainly
  BY DEF Plainly, Handles, Handing, Serving, Renewing, Steps
<1> QED
  BY <1>1, <1>2, <1>3, PlainWork

LEMMA CreateWork ==
  ASSUME ThreadsInv, Calls, NEW w \in Workers, AtWork(w), scene' = scene, Create(w)
  PROVE  Worked(w)
<1>1. /\ At(w, "create") /\ queue' = queue /\ entry' = entry
      /\ handle' = handle /\ revoked' = revoked /\ stopped' = stopped
  BY DEF Create
<1>2. CASE Unobtained(w)
  BY <1>1, <1>2, UnobtainedWork
<1>3. CASE Goto(w, "permit") /\ phase' = phase
  <2>1. Gentle /\ Goes(w, "permit") /\ w \in Threads
    BY <1>1, <1>3, SameGentle, GotoWalks DEF Walks
  <2>2. "permit" \in Plainly /\ task[w].pc \in Plainly /\ task[w].pc \in Serving
    BY <1>1 DEF Plainly, Handles, Handing, Serving, Renewing, Steps
  <2> QED
    BY <1>1, <2>1, <2>2, PlainWork
<1> QED
  BY <1>2, <1>3 DEF Create

\* The maker of a browser, before the browser is ready.
LEMMA MakesUnready ==
  ASSUME Inv, NEW t \in Threads, task[t].pc \in Making, NEW b \in Browsers, task[t].br = b
  PROVE  Status(b) \in {"creating", "none"}
BY DEF Inv, LivesInv, MakerOK, Makes, Creation

LEMMA MakeWork ==
  ASSUME ThreadsInv, Calls, NEW w \in Workers, AtWork(w), scene' = scene,
         NEW p \in Renewing, Goes(w, p), task[w].pc \in Renewing,
         UNCHANGED <<queue, phase, handle, revoked, stopped>>,
         \A b \in Browsers : \/ entry'[b] = entry[b]
                             \/ Status(b) # "locked" /\ Status(b)' # "locked" /\ (stopped => ~Ready(b)')
  PROVE  Worked(w)
<1>1. Gentle
  BY DEF Gentle, Ready, Status
<1>2. p \in Plainly /\ task[w].pc \in Plainly /\ task[w].pc \in Serving
  BY DEF Plainly, Handles, Handing, Serving, Renewing, Steps
<1> QED
  BY <1>1, <1>2, PlainWork

LEMMA GetPermitWork ==
  ASSUME ThreadsInv, Calls, NEW w \in Workers, AtWork(w), scene' = scene, GetPermit(w)
  PROVE  Worked(w)
<1>1. UNCHANGED <<queue, phase, handle, revoked, stopped, entry>> /\ At(w, "permit") /\ Goto(w, "place")
  BY DEF GetPermit
<1>2. Goes(w, "place") /\ "place" \in Renewing /\ task[w].pc \in Renewing
  BY <1>1, GotoWalks DEF Walks, Renewing
<1> QED
  BY <1>1, <1>2, MakeWork

LEMMA PlaceWork ==
  ASSUME ThreadsInv, Calls, NEW w \in Workers, AtWork(w), scene' = scene, Place(w)
  PROVE  Worked(w)
<1>1. UNCHANGED <<queue, phase, handle, revoked, stopped>> /\ At(w, "place")
  BY DEF Place
<1>2. PICK p \in {"abandon", "starting"} : Goes(w, p)
  BY GotoWithWalks DEF Place
<1>3. \A b \in Browsers : \/ entry'[b] = entry[b]
                          \/ Status(b) # "locked" /\ Status(b)' # "locked" /\ ~Ready(b)'
  <2>1. ASSUME NEW c \in Browsers, Fresh(c), Becomes(c, [status |-> "creating", holder |-> None]),
               NEW b \in Browsers
        PROVE  \/ entry'[b] = entry[b]
               \/ Status(b) # "locked" /\ Status(b)' # "locked" /\ ~Ready(b)'
    BY <2>1 DEF Becomes, Fresh, Status, Ready, ThreadsInv
  <2> QED
    BY <2>1 DEF Place
<1>4. p \in Renewing /\ task[w].pc \in Renewing
  BY <1>1 DEF Renewing
<1> QED
  BY <1>1, <1>2, <1>3, <1>4, MakeWork

LEMMA AwaitFactoryWork ==
  ASSUME ThreadsInv, Calls, NEW w \in Workers, AtWork(w), scene' = scene, AwaitFactory(w)
  PROVE  Worked(w)
<1>1. UNCHANGED <<queue, phase, handle, revoked, stopped, entry>> /\ At(w, "starting")
  BY DEF AwaitFactory
<1>2. PICK p \in {"finish", "abandon", "abort"} : Goes(w, p)
  BY GotoWalks DEF AwaitFactory, Walks
<1>3. p \in Renewing /\ task[w].pc \in Renewing
  BY <1>1 DEF Renewing
<1> QED
  BY <1>1, <1>2, <1>3, MakeWork

\* What becomes of the entry of a new browser.
LEMMA FinishEntry ==
  ASSUME Inv, NEW t \in Threads, Finish(t)
  PROVE  \A b \in Browsers :
           \/ entry'[b] = entry[b]
           \/ /\ Status(b) \in {"creating", "none"} /\ Status(b)' # "locked"
              /\ stopped => ~Ready(b)'
<1>1. At(t, "finish") /\ task[t].br \in Browsers /\ DOMAIN entry = Browsers
  BY DEF Inv, ThreadsInv, ThreadOK, Named, Finish
<1>2. Status(task[t].br) \in {"creating", "none"}
  BY <1>1, MakesUnready DEF Making
<1>3. CASE StillWanted(task[t].br) /\ Becomes(task[t].br, Idle)
  BY <1>1, <1>2, <1>3 DEF StillWanted, Becomes, Idle, Status, Ready
<1>4. CASE Becomes(task[t].br, NoEntry)
  BY <1>1, <1>2, <1>4 DEF Becomes, NoEntry, Status, Ready
<1> QED
  BY <1>3, <1>4 DEF Finish

LEMMA FinishWork ==
  ASSUME Inv, Calls, NEW w \in Workers, AtWork(w), scene' = scene, Finish(w)
  PROVE  Worked(w)
<1>1. UNCHANGED <<queue, phase, handle, revoked, stopped>> /\ At(w, "finish") /\ ThreadsInv
  BY DEF Finish, Inv
<1>2. PICK p \in {"lockNew", "abandon", "discard"} : Goes(w, p)
  BY <1>1, GotoWalks DEF Finish, Walks
<1>3. p \in Renewing /\ task[w].pc \in Renewing
  BY <1>1 DEF Renewing
<1>4. \A b \in Browsers : \/ entry'[b] = entry[b]
                          \/ Status(b) # "locked" /\ Status(b)' # "locked" /\ (stopped => ~Ready(b)')
  BY FinishEntry
<1> QED
  BY <1>1, <1>2, <1>3, <1>4, MakeWork

LEMMA DiscardWork ==
  ASSUME ThreadsInv, Calls, NEW w \in Workers, AtWork(w), scene' = scene, Discard(w)
  PROVE  Worked(w)
<1>1. UNCHANGED <<queue, phase, handle, revoked, stopped, entry>> /\ At(w, "discard") /\ Goto(w, "abandon")
  BY DEF Discard
<1>2. Goes(w, "abandon") /\ "abandon" \in Renewing /\ task[w].pc \in Renewing
  BY <1>1, GotoWalks DEF Walks, Renewing
<1> QED
  BY <1>1, <1>2, MakeWork

LEMMA AbandonEntry ==
  ASSUME Inv, NEW t \in Threads, Abandon(t)
  PROVE  \A b \in Browsers : entry'[b] = entry[b] \/ (~Ready(b) /\ ~Ready(b)')
<1> SUFFICES ASSUME NEW b \in Browsers, b = task[t].br PROVE ~Ready(b) /\ ~Ready(b)'
  BY DEF Abandon
<1>1. Status(b) \in {"creating", "none"}
  BY MakesUnready DEF Abandon, Making
<1>2. entry'[b] = NoEntry
  BY DEF Abandon
<1> QED
  BY <1>1, <1>2 DEF Ready, Status, NoEntry

LEMMA AbandonWork ==
  ASSUME Inv, Calls, NEW w \in Workers, AtWork(w), scene' = scene, Abandon(w)
  PROVE  Worked(w)
<1>1. /\ UNCHANGED <<queue, handle, revoked, stopped>> /\ task[w].pc \in {"abandon", "abort"}
      /\ ThreadsInv /\ w \notin Requests
  BY SceneFacts DEF Abandon, Inv
<1>2. \A b \in Browsers : entry'[b] = entry[b] \/ (~Ready(b) /\ ~Ready(b)')
  BY AbandonEntry
<1>3. CASE Unobtained(w) /\ At(w, "abandon")
  BY <1>1, <1>2, <1>3, UnobtainedWork
<1>4. CASE Fail({w}) /\ Resume(w)
  <2>1. \A r \in Requests : phase'[r] = phase[r]
    BY <1>1, <1>4, FailMoves
  <2>2. Gentle
    BY <1>1, <1>2, <2>1 DEF Gentle, Ready, Status
  <2>3. task[w].pc \in Plainly
    BY <1>1 DEF Plainly, Handles, Handing, Steps
  <2> QED
    BY <1>1, <1>4, <2>2, <2>3, PlainWork
<1> QED
  BY <1>1, <1>3, <1>4 DEF Abandon

LEMMA PeekWork ==
  ASSUME ThreadsInv, Calls, NEW w \in Workers, AtWork(w), scene' = scene, Peek(w)
  PROVE  Worked(w)
<1>1. /\ UNCHANGED <<queue, phase, handle, revoked, stopped, entry>> /\ At(w, "peek") /\ Gentle
      /\ task[w].pc \in Plainly
  BY SameGentle DEF Peek, Plainly, Handles, Handing, Steps
<1>2. CASE Resume(w)
  BY <1>1, <1>2, PlainWork
<1>3. CASE /\ queue[task[w].sess] # <<>>
           /\ task' = [task EXCEPT ![w].pc = "lookup", ![w].req = Head(queue[task[w].sess])]
  <2>1. /\ task'[w].pc = "lookup" /\ task'[w].req = Head(queue[task[w].sess]) /\ Rest(w)
    BY <1>3 DEF Rest, ThreadsInv, ThreadOK
  <2>2. HeadAt(w)' /\ DequeueAt(w)' /\ ResetAt(w)'
    BY <1>1, <1>3, <2>1 DEF HeadAt, DequeueAt, ResetAt, Rest
  <2>3. AimAt(w)'
    BY <2>1, SceneSame DEF AimAt, AtWork, WorkerAt, Rest, Handing
  <2>4. TodoMoves(w) /\ task[w].pc \notin Handles
    BY <1>1, <2>1 DEF TodoMoves, Rest, Handles, Handing
  <2> QED
    BY <1>1, <2>2, <2>3, <2>4, GentleStays, GentleHolds DEF Worked, AtWork, WorkerAt
<1> QED
  BY <1>2, <1>3 DEF Peek

LEMMA LookupWork ==
  ASSUME ThreadsInv, Calls, NEW w \in Workers, AtWork(w), scene' = scene, Lookup(w)
  PROVE  Worked(w)
<1>1. /\ UNCHANGED <<handle, revoked, stopped, entry>> /\ At(w, "lookup")
      /\ task[w].pc \in Plainly /\ task[w].sess \in Sessions
  BY CallFacts DEF Lookup, Plainly, Handles, Handing, Steps, ThreadOK, Nowhere
<1>2. CASE Goto(w, "reuse") /\ queue' = queue /\ phase' = phase
  <2>1. Goes(w, "reuse") /\ "reuse" \in Plainly /\ task[w].pc \in Serving
    BY <1>1, <1>2, GotoWalks DEF Walks, Plainly, Handles, Handing, Steps, Serving
  <2> QED
    BY <1>1, <1>2, <2>1, SameGentle, PlainWork
<1>3. CASE Fail(ToSet(queue[task[w].sess])) /\ Resume(w)
  <2>1. \A r \in ToSet(queue[task[w].sess]) : phase[r] = "waiting"
    BY <1>1 DEF Calls, QueueOK, ToSet
  <2>2. Gentle
    BY <1>1, <1>3, <2>1, FailGentle DEF Given
  <2> QED
    BY <1>1, <1>3, <2>2, PlainWork
<1>4. CASE Resume(w) /\ phase' = phase
  BY <1>1, <1>4, SameGentle, PlainWork
<1> QED
  BY <1>2, <1>3, <1>4 DEF Lookup

LEMMA RefuseWork ==
  ASSUME ThreadsInv, Calls, NEW w \in Workers, AtWork(w), scene' = scene, Refuse(w)
  PROVE  Worked(w)
<1>1. /\ UNCHANGED <<handle, revoked, stopped, entry>> /\ At(w, "refuse")
      /\ task[w].pc \in Plainly /\ Fail({task[w].owed}) /\ Resume(w)
      /\ phase[task[w].owed] = "served"
  BY CallFacts DEF Refuse, Plainly, Handles, Handing, Steps, OwedOK
<1> QED
  BY <1>1, FailGentle, PlainWork DEF Given

LEMMA CancelPluginWork ==
  ASSUME ThreadsInv, Calls, NEW w \in Workers, AtWork(w), scene' = scene, CancelPlugin(w)
  PROVE  Worked(w)
<1> DEFINE R == {r \in task[w].aim : phase[r] = "waiting"}
<1>1. /\ UNCHANGED <<handle, revoked, stopped, entry>>
      /\ task[w].pc \in Plainly /\ Fail(R) /\ Resume(w)
  BY DEF CancelPlugin, Plainly, Handles, Handing, Steps
<1>2. Gentle
  BY <1>1, FailGentle DEF Given
<1> QED
  BY <1>1, <1>2, PlainWork

LEMMA LaterWork ==
  ASSUME ThreadsInv, Calls, NEW w \in Workers, AtWork(w), scene' = scene, Later(w)
  PROVE  Worked(w)
BY SameGentle, PlainWork DEF Later

LEMMA ReportWork ==
  ASSUME ThreadsInv, Calls, NEW w \in Workers, AtWork(w), scene' = scene, Report(w)
  PROVE  Worked(w)
<1>1. UNCHANGED <<queue, phase, handle, revoked, stopped, entry>> /\ At(w, "report") /\ Goto(w, "peek")
  BY DEF Report
<1>2. Goes(w, "peek") /\ "peek" \in Plainly /\ "peek" \notin Serving /\ task[w].pc \in Plainly
  BY <1>1, GotoWalks DEF Walks, Plainly, Handles, Handing, Steps, Serving, Renewing
<1> QED
  BY <1>1, <1>2, SameGentle, PlainWork

LEMMA DestroyerWork ==
  ASSUME ThreadsInv, Calls, NEW w \in Workers, AtWork(w), scene' = scene, Destroyer(w)
  PROVE  Worked(w)
<1>1. UNCHANGED <<queue, phase, handle, revoked, stopped, entry>> /\ At(w, "destroyer") /\ Goto(w, "destroyed")
  BY DEF Destroyer
<1>2. Goes(w, "destroyed") /\ "destroyed" \in Plainly /\ "destroyed" \notin Serving /\ task[w].pc \in Plainly
  BY <1>1, GotoWalks DEF Walks, Plainly, Handles, Handing, Steps, Serving, Renewing
<1> QED
  BY <1>1, <1>2, SameGentle, PlainWork

\* t turns to the waiters of its session.
LEMMA NotifyAt ==
  ASSUME ThreadsInv, scene' = scene, NEW w \in Workers, WorkerAt(w), NEW s, NotifyChanged(w, s)
  PROVE  WorkerAt(w)' /\ TodoMoves(w)
<1>1. task'[w].pc = "report" /\ task'[w].aim = task[w].aim /\ task'[w].todo = task[w].todo
  BY DEF ThreadsInv, ThreadOK, NotifyChanged
<1>2. HeadAt(w)' /\ DequeueAt(w)' /\ ResetAt(w)'
  BY <1>1 DEF HeadAt, DequeueAt, ResetAt, Serving, Renewing
<1>3. AimAt(w)'
  BY <1>1, SceneSame DEF AimAt, WorkerAt, Handing
<1> QED
  BY <1>1, <1>2, <1>3 DEF WorkerAt, TodoMoves

LEMMA DestroyedWork ==
  ASSUME ThreadsInv, Calls, NEW w \in Workers, AtWork(w), scene' = scene, Destroyed(w)
  PROVE  Worked(w)
<1> DEFINE b == task[w].br
<1>1. /\ UNCHANGED <<queue, phase, handle, revoked, stopped>> /\ At(w, "destroyed") /\ b \in Browsers
      /\ entry' = [entry EXCEPT ![b] = IF @.status = "destroying" THEN NoEntry ELSE @]
      /\ NotifyChanged(w, home[b]) /\ DOMAIN entry = Browsers
  BY CallFacts DEF Destroyed, ThreadOK, Named, ThreadsInv
<1>2. \A c \in Browsers : entry'[c] = entry[c] \/ (Status(c) = "destroying" /\ entry'[c] = NoEntry)
  BY <1>1 DEF Status
<1>3. Gentle
  BY <1>1, <1>2 DEF Gentle, Ready, Status, NoEntry
<1>4. WorkerAt(w)' /\ TodoMoves(w)
  BY <1>1, NotifyAt DEF AtWork
<1>5. task[w].pc \notin Handles
  BY <1>1 DEF Handles, Handing
<1> QED
  BY <1>1, <1>3, <1>4, <1>5, GentleStays, GentleHolds DEF Worked, AtWork

\* A browser that is handled goes from one step to the next.
LEMMA HandleStays ==
  ASSUME ThreadsInv, NEW w \in Workers, AtWork(w), scene' = scene, Gentle,
         ~At(w, "destroy"), task'[w].pc \in Handles, task'[w].br = task[w].br,
         task'[w].todo = task[w].todo, WorkerAt(w)'
  PROVE  Worked(w)
<1>1. TodoMoves(w) /\ \A b \in Browsers : task[w].br = b => Handling(w, b)'
  BY DEF TodoMoves, Handling
<1> QED
  BY <1>1, GentleStays, GentleHolds DEF Worked, AtWork

LEMMA TakeWork ==
  ASSUME ThreadsInv, Calls, NEW w \in Workers, AtWork(w), scene' = scene, Take(w)
  PROVE  Worked(w)
<1> DEFINE s == task[w].sess
<1>1. /\ At(w, "take") /\ UNCHANGED <<entry, handle, stopped, revoked>>
      /\ s \in Sessions /\ QueueOK /\ task[w].br \in Browsers
  BY CallFacts DEF Take, ThreadOK, Nowhere, Calls, Named
<1>2. /\ task'[w].pc \in {"check", "return"} /\ task'[w].br = task[w].br /\ task'[w].todo = task[w].todo
      /\ task'[w].aim = task[w].aim
      /\ \A r \in Requests : phase'[r] = phase[r] \/ (phase[r] = "waiting" /\ phase'[r] = "served")
  <2>1. CASE queue[s] = <<>>
    <3>1. Plots(w, "return", AfterReturn) /\ phase' = phase
      BY <2>1, PlotsWalk DEF Take
    <3> QED
      BY <3>1 DEF Plots
  <2>2. CASE queue[s] # <<>>
    <3>1. Head(queue[s]) \in Requests /\ phase[Head(queue[s])] = "waiting"
      BY <1>1, <2>2, QueueHead
    <3> QED
      BY <2>2, <3>1 DEF Take, ThreadsInv, ThreadOK
  <2> QED
    BY <2>1, <2>2
<1>3. Gentle
  BY <1>1, <1>2 DEF Gentle, Ready, Status, Given
<1>4. HeadAt(w)' /\ DequeueAt(w)' /\ ResetAt(w)'
  BY <1>2 DEF HeadAt, DequeueAt, ResetAt, Serving, Renewing
<1>5. AimAt(w)'
  BY <1>1, <1>2, SceneSame DEF AimAt, AtWork, WorkerAt, Held
<1>6. task'[w].pc \in Handles /\ ~At(w, "destroy")
  BY <1>1, <1>2 DEF Handles, Handing
<1> QED
  BY <1>2, <1>3, <1>4, <1>5, <1>6, HandleStays DEF WorkerAt

LEMMA CheckWork ==
  ASSUME ThreadsInv, Calls, NEW w \in Workers, AtWork(w), scene' = scene, Check(w)
  PROVE  Worked(w)
<1>1. /\ At(w, "check") /\ UNCHANGED <<entry, handle, stopped, revoked, phase, queue>> /\ Gentle
      /\ w \in Threads
  BY SameGentle DEF Check
<1>2. CASE \/ \E p \in {"clean", "hand"} : Goto(w, p)
           \/ task' = [task EXCEPT ![w].pc = "return", ![w].then = <<"refuse">>]
  <2>1. /\ task'[w].pc \in {"clean", "hand", "return"} /\ task'[w].br = task[w].br
        /\ task'[w].todo = task[w].todo /\ task'[w].aim = task[w].aim
    BY <1>1, <1>2, PlotsWalk, GotoWalks DEF Plots, Walks, Goes, Rest
  <2>2. HeadAt(w)' /\ DequeueAt(w)' /\ ResetAt(w)'
    BY <2>1 DEF HeadAt, DequeueAt, ResetAt, Serving, Renewing
  <2>3. AimAt(w)'
    BY <1>1, <2>1, SceneSame DEF AimAt, AtWork, WorkerAt, Held, Handing
  <2>4. task'[w].pc \in Handles /\ ~At(w, "destroy")
    BY <1>1, <2>1 DEF Handles, Handing
  <2> QED
    BY <1>1, <2>1, <2>2, <2>3, <2>4, HandleStays DEF WorkerAt
<1>3. CASE "lookup" \in Hazards /\ Resume(w)
  <2>1. WorkerAt(w)' /\ TodoMoves(w)
    BY <1>3, ResumeAt DEF AtWork, WorkerAt
  <2> QED
    BY <1>1, <1>3, <2>1, GentleStays, GentleHolds DEF Worked, AtWork, Sure
<1> QED
  BY <1>2, <1>3 DEF Check

LEMMA CleanWork ==
  ASSUME ThreadsInv, Calls, NEW w \in Workers, AtWork(w), scene' = scene, Clean(w)
  PROVE  Worked(w)
<1>1. /\ At(w, "clean") /\ UNCHANGED <<entry, handle, stopped, revoked, phase, queue>> /\ Gentle
      /\ w \in Threads
  BY SameGentle DEF Clean
<1>2. /\ task'[w].pc \in {"hand", "destroy"} /\ task'[w].br = task[w].br
      /\ task'[w].todo = task[w].todo /\ task'[w].aim = task[w].aim
  BY <1>1, PlotsWalk, GotoWalks DEF Plots, Walks, Goes, Rest, Clean
<1>3. HeadAt(w)' /\ DequeueAt(w)' /\ ResetAt(w)'
  BY <1>2 DEF HeadAt, DequeueAt, ResetAt, Serving, Renewing
<1>4. AimAt(w)'
  BY <1>1, <1>2, SceneSame DEF AimAt, AtWork, WorkerAt, Held, Handing
<1>5. task'[w].pc \in Handles /\ ~At(w, "destroy")
  BY <1>1, <1>2 DEF Handles, Handing
<1> QED
  BY <1>1, <1>2, <1>3, <1>4, <1>5, HandleStays DEF WorkerAt

LEMMA ResetWork ==
  ASSUME ThreadsInv, Calls, NEW w \in Workers, AtWork(w), scene' = scene, Reset(w)
  PROVE  Worked(w)
<1>1. /\ At(w, "reset") /\ UNCHANGED <<entry, handle, stopped, revoked, phase, queue>> /\ Gentle
      /\ w \in Threads
  BY SameGentle DEF Reset
<1>2. /\ task'[w].pc \in {"settle", "destroy"} /\ task'[w].br = task[w].br
      /\ task'[w].todo = task[w].todo /\ task'[w].aim = task[w].aim
  BY <1>1, GotoWalks DEF Walks, Goes, Rest, Reset
<1>3. ResetAt(w)' /\ entry'[task'[w].br] = InReset(task'[w].br)
  BY <1>1, <1>2 DEF ResetAt, AtWork, WorkerAt, InReset
<1>4. HeadAt(w)' /\ DequeueAt(w)'
  BY <1>2 DEF HeadAt, DequeueAt, Serving, Renewing
<1>5. AimAt(w)'
  BY <1>1, <1>2, <1>3, SceneSame DEF AimAt, AtWork, WorkerAt, Handing
<1>6. task'[w].pc \in Handles /\ ~At(w, "destroy")
  BY <1>1, <1>2 DEF Handles, Handing
<1> QED
  BY <1>1, <1>2, <1>3, <1>4, <1>5, <1>6, HandleStays DEF WorkerAt

\* The steps that lend a browser, take it back, or end it.
LEMMA LockWork ==
  ASSUME ThreadsInv, Calls, NEW w \in Workers, AtWork(w), scene' = scene, Lock(w)
  PROVE  Worked(w)
<1> DEFINE b == task[w].br
<1>1. /\ task[w].pc \in {"lock", "lockNew"} /\ queue' = queue /\ revoked' = revoked /\ stopped' = stopped
      /\ b \in Browsers /\ task[w].req \in Requests /\ w \notin Requests /\ w \in Threads
      /\ CallOK(w) /\ OwedOK(w) /\ task[w].pc \notin Handles /\ DOMAIN entry = Browsers
  BY SceneFacts, CallFacts DEF Lock, ThreadOK, Named, CallOK, Serving, Renewing, Handles, Handing, ThreadsInv
<1>2. CASE /\ Lockable(b) /\ Becomes(b, LockedBy(task[w].req)) /\ Obtained(w, b)
  <2>1. /\ entry'[b] = LockedBy(task[w].req) /\ Status(b) = "idle"
        /\ \A c \in Browsers \ {b} : entry'[c] = entry[c]
    BY <1>1, <1>2 DEF Becomes, Lockable, Status, LockedBy
  <2>2. CASE Owing(w)
    <3>1. /\ Resolve(task[w].owed, b) /\ Resume(w) /\ task[w].req = task[w].owed
          /\ phase[task[w].owed] = "served" /\ task[w].owed \in Requests
      BY <1>1, <1>2, <2>2 DEF Obtained, Own, Owing, OwedOK
    <3>2. /\ phase'[task[w].req] = "resolved" /\ handle'[task[w].req] = b
          /\ \A r \in Requests \ {task[w].req} : phase'[r] = phase[r] /\ handle'[r] = handle[r]
      BY <3>1, ResolveMoves
    <3>3. WorkerAt(w)' /\ TodoMoves(w)
      BY <3>1, ResumeAt DEF AtWork, WorkerAt
    <3>4. HoldsInv'
      <4> SUFFICES ASSUME Mine, NEW r \in Requests, phase'[r] \in Given, r \notin revoked'
                   PROVE  entry'[handle'[r]] = LockedBy(r)
        BY SceneSame DEF HoldsInv
      <4>1. CASE r = task[w].req
        BY <2>1, <3>2, <4>1
      <4>2. CASE r # task[w].req
        <5>1. phase[r] \in Given /\ handle'[r] = handle[r] /\ handle[r] \in Browsers
          BY <3>2, <4>2 DEF ThreadsInv, Given
        <5>2. entry[handle[r]] = LockedBy(r)
          BY <1>1, <5>1 DEF AtWork, HoldsInv
        <5> QED
          BY <2>1, <5>1, <5>2 DEF Status, LockedBy
      <4> QED
        BY <4>1, <4>2
    <3>5. ASSUME Sure, NEW c \in Browsers, Status(c)' = "locked" PROVE Settled(c)' \/ Handling(w, c)'
      <4>1. CASE c = b
        BY <1>1, <2>1, <3>2, <4>1 DEF Settled, Given, LockedBy
      <4>2. CASE c # b
        <5>1. entry'[c] = entry[c] /\ Status(c) = "locked"
          BY <2>1, <3>5, <4>2 DEF Status
        <5>2. \A r \in Requests : phase[r] \in Given => phase'[r] = phase[r] /\ handle'[r] = handle[r]
          BY <3>1, <3>2 DEF Given
        <5>3. Settled(c) \/ c \in task[w].todo
          BY <1>1, <3>5, <5>1 DEF AtWork, LockAt, Handling
        <5> QED
          BY <3>3, <5>1, <5>2, <5>3, SettledStays DEF TodoMoves, Handling, Handles
      <4> QED
        BY <4>1, <4>2
    <3>6. StopAt(w)'
      BY <1>1, <2>1, <3>3 DEF StopAt, AtWork, TodoMoves, Ready, Status, Handles
    <3> QED
      BY <3>3, <3>4, <3>5, <3>6, SceneSame DEF Worked, LockAt
  <2>3. CASE ~Owing(w)
    <3>1. Goto(w, "dequeue") /\ phase' = phase /\ handle' = handle
      BY <1>1, <1>2, <2>3 DEF Obtained, Own
    <3>2. /\ task'[w].pc = "dequeue" /\ Rest(w) /\ task'[w].br = b /\ task'[w].req = task[w].req
      BY <1>1, <3>1, GotoWalks DEF Walks, Goes
    <3>3. HeadAt(w)' /\ ResetAt(w)' /\ DequeueAt(w)'
      BY <1>1, <2>1, <2>3, <3>2, SceneSame DEF HeadAt, ResetAt, DequeueAt, AtWork, WorkerAt, Rest, Owing,
         Serving, Renewing
    <3>4. AimAt(w)'
      BY <3>2, SceneSame DEF AimAt, AtWork, WorkerAt, Rest, Handing
    <3>5. HoldsInv'
      <4> SUFFICES ASSUME Mine, NEW r \in Requests, phase[r] \in Given, r \notin revoked
                   PROVE  entry'[handle[r]] = LockedBy(r)
        BY <1>1, <3>1, SceneSame DEF HoldsInv
      <4>1. entry[handle[r]] = LockedBy(r) /\ handle[r] \in Browsers
        BY DEF AtWork, HoldsInv, ThreadsInv, Given
      <4> QED
        BY <2>1, <4>1 DEF Status, LockedBy
    <3>6. ASSUME Sure, NEW c \in Browsers, Status(c)' = "locked" PROVE Settled(c)' \/ Handling(w, c)'
      <4>1. CASE c = b
        BY <3>2, <4>1 DEF Handling, Handles
      <4>2. CASE c # b
        <5>1. entry'[c] = entry[c] /\ Status(c) = "locked"
          BY <2>1, <3>6, <4>2 DEF Status
        <5>2. Settled(c) \/ c \in task[w].todo
          BY <1>1, <3>6, <5>1 DEF AtWork, LockAt, Handling
        <5> QED
          BY <3>1, <3>2, <5>1, <5>2, SettledStays DEF Rest, Handling, Handles
      <4> QED
        BY <4>1, <4>2
    <3>7. StopAt(w)'
      BY <1>1, <2>1, <3>2 DEF StopAt, AtWork, Rest, Ready, Status, Handles
    <3> QED
      BY <3>3, <3>4, <3>5, <3>6, <3>7, SceneSame DEF Worked, LockAt, WorkerAt
  <2> QED
    BY <2>2, <2>3
<1>3. CASE At(w, "lock") /\ Goto(w, "create") /\ UNCHANGED <<phase, entry, handle>>
  <2>1. Goes(w, "create") /\ "create" \in Plainly /\ task[w].pc \in Plainly /\ task[w].pc \in Serving
    BY <1>1, <1>3, GotoWalks DEF Walks, Plainly, Handles, Handing, Steps, Serving
  <2> QED
    BY <1>1, <1>3, <2>1, SameGentle, PlainWork
<1>4. CASE At(w, "lockNew") /\ Unobtained(w) /\ UNCHANGED <<entry, handle>>
  BY <1>1, <1>4, UnobtainedWork
<1> QED
  BY <1>1, <1>2, <1>3, <1>4 DEF Lock

LEMMA DequeueWork ==
  ASSUME ThreadsInv, Calls, NEW w \in Workers, AtWork(w), scene' = scene, Dequeue(w)
  PROVE  Worked(w)
<1> DEFINE b == task[w].br
           s == task[w].sess
           h == Head(queue[s])
<1>1. /\ At(w, "dequeue") /\ UNCHANGED <<entry, revoked, stopped>> /\ b \in Browsers
      /\ task[w].req \in Requests /\ w \in Threads /\ CallOK(w) /\ OwedOK(w) /\ s \in Sessions
      /\ NextPass(w) /\ QueueOK
  BY CallFacts DEF Dequeue, ThreadOK, Named, CallOK, Serving, Calls, Nowhere
<1>2. /\ task'[w].pc = "peek" /\ Rest(w)
  BY <1>1, PassWalks DEF Walks, Goes
<1>3. WorkerAt(w)'
  <2>1. HeadAt(w)' /\ ResetAt(w)' /\ DequeueAt(w)'
    BY <1>2 DEF HeadAt, ResetAt, DequeueAt, Serving, Renewing
  <2>2. AimAt(w)'
    BY <1>2, SceneSame DEF AimAt, AtWork, WorkerAt, Rest, Handing
  <2> QED
    BY <2>1, <2>2 DEF WorkerAt
<1>4. Orderly => queue[s] # <<>> /\ h = task[w].req /\ entry[b] = LockedBy(h)
  <2>1. ~Owing(w) /\ task[w].pc \in Serving
    BY <1>1 DEF Owing, OwedOK, Handing, Renewing, Winding, Serving
  <2> QED
    BY <1>1, <2>1 DEF AtWork, WorkerAt, HeadAt, DequeueAt
<1>5. queue[s] # <<>> =>
        /\ phase[h] = "waiting" /\ phase'[h] = "resolved" /\ handle'[h] = b /\ h \in Requests
        /\ \A r \in Requests \ {h} : phase'[r] = phase[r] /\ handle'[r] = handle[r]
  <2> HAVE queue[s] # <<>>
  <2>1. h \in Requests /\ phase[h] = "waiting"
    BY <1>1, QueueHead
  <2>2. Resolve(h, b)
    BY DEF Dequeue
  <2> HIDE DEF h, b
  <2> QED
    BY <2>1, <2>2, ResolveMoves
<1> HIDE DEF h
<1>6. HoldsInv'
  <2> SUFFICES ASSUME Mine, NEW r \in Requests, phase'[r] \in Given, r \notin revoked
               PROVE  entry[handle'[r]] = LockedBy(r)
    BY <1>1, SceneSame DEF HoldsInv
  <2>1. Orderly
    BY DEF Mine
  <2>2. CASE r = h
    BY <1>4, <1>5, <2>1, <2>2
  <2>3. CASE r # h
    BY <1>4, <1>5, <2>1, <2>3 DEF AtWork, HoldsInv
  <2> QED
    BY <2>2, <2>3
<1>7. ASSUME Sure, NEW c \in Browsers, Status(c)' = "locked" PROVE Settled(c)' \/ Handling(w, c)'
  <2>1. Orderly /\ entry'[c] = entry[c] /\ Status(c) = "locked"
    BY <1>1, <1>7 DEF Sure, Status
  <2>2. CASE c = b
    BY <1>4, <1>5, <2>1, <2>2 DEF Settled, Given, LockedBy
  <2>3. CASE c # b
    <3>1. Settled(c) \/ c \in task[w].todo
      BY <1>7, <2>1, <2>3 DEF AtWork, LockAt, Handling
    <3>2. \A r \in Requests : phase[r] \in Given => phase'[r] = phase[r] /\ handle'[r] = handle[r]
      BY <1>4, <1>5, <2>1 DEF Given
    <3> QED
      BY <1>2, <2>1, <3>1, <3>2, SettledStays DEF Rest, Handling
  <2> QED
    BY <2>2, <2>3
<1>8. StopAt(w)'
  BY <1>1, <1>2 DEF StopAt, AtWork, Rest, Ready, Status
<1> QED
  BY <1>3, <1>6, <1>7, <1>8, SceneSame DEF Worked, LockAt

\* t clears the lock of its browser, having aimed at the holder: nobody who counts
\* on a handle loses the lock.
LEMMA ClearHolds ==
  ASSUME ThreadsInv, Calls, NEW t \in Threads, scene' = scene, HoldsInv, NEW b \in Browsers, task[t].br = b,
         Reclaim(t, b), \A c \in Browsers \ {b} : entry'[c] = entry[c],
         \/ task[t].aim = Requests
         \/ Held(t)
         \/ entry[b] = InReset(b)
         \/ Status(b) # "locked",
         \A r \in Requests : phase'[r] \in Given =>
           \/ phase[r] \in Given /\ handle'[r] = handle[r]
           \/ entry'[handle'[r]] = LockedBy(r)
  PROVE  HoldsInv'
<1> SUFFICES ASSUME Mine, NEW r \in Requests, phase'[r] \in Given, r \notin revoked',
                    phase[r] \in Given, handle'[r] = handle[r]
             PROVE  entry'[handle[r]] = LockedBy(r)
  BY SceneSame DEF HoldsInv
<1>1. handle[r] \in Browsers /\ r \notin revoked
  BY DEF ThreadsInv, Given, Reclaim
<1>2. entry[handle[r]] = LockedBy(r)
  BY <1>1 DEF HoldsInv
<1>3. handle[r] # b
  <2> SUFFICES ASSUME handle[r] = b PROVE FALSE
    OBVIOUS
  <2>1. entry[b].holder = r /\ Status(b) = "locked" /\ r # None
    BY <1>2, PoolAssumption DEF LockedBy, Status
  <2>2. r \notin task[t].aim
    BY <2>1 DEF Reclaim
  <2> QED
    BY <2>1, <2>2 DEF Held, InReset, LockedBy
<1> QED
  BY <1>1, <1>2, <1>3

LEMMA ClearStays ==
  ASSUME scene' = scene, NEW w \in Workers, LockAt(w), StopAt(w), TodoMoves(w), stopped' = stopped,
         NEW b \in Browsers, task[w].br = b, \A c \in Browsers \ {b} : entry'[c] = entry[c],
         \A r \in Requests : phase[r] \in Given => phase'[r] = phase[r] /\ handle'[r] = handle[r],
         Sure /\ Status(b)' = "locked" => Settled(b)' \/ Handling(w, b)',
         Ready(b)' => Ready(b) /\ ~At(w, "destroy")
  PROVE  LockAt(w)' /\ StopAt(w)'
<1>1. ASSUME Sure, NEW c \in Browsers, Status(c)' = "locked" PROVE Settled(c)' \/ Handling(w, c)'
  <2>1. CASE c # b
    <3>1. entry'[c] = entry[c] /\ Status(c) = "locked"
      BY <1>1, <2>1 DEF Status
    <3>2. Settled(c) \/ c \in task[w].todo
      BY <1>1, <2>1, <3>1 DEF LockAt, Handling
    <3> QED
      BY <3>1, <3>2, SettledStays DEF TodoMoves, Handling, Handles
  <2> QED
    BY <1>1, <2>1
<1>2. ASSUME stopped', NEW c \in Browsers, Ready(c)'
      PROVE  c \in task'[w].todo \/ (task'[w].pc = "destroy" /\ task'[w].br = c)
  <2>1. Ready(c) /\ (c = b => ~At(w, "destroy"))
    BY <1>2 DEF Ready, Status
  <2> QED
    BY <1>2, <2>1 DEF StopAt, TodoMoves
<1> QED
  BY <1>1, <1>2, SceneSame DEF LockAt, StopAt

LEMMA HandWork ==
  ASSUME ThreadsInv, Calls, NEW w \in Workers, AtWork(w), scene' = scene, Hand(w)
  PROVE  Worked(w)
<1>1. PICK b \in Browsers : b = task[w].br
  BY CallFacts DEF Hand, ThreadOK, Named
<1>2. /\ At(w, "hand") /\ queue' = queue /\ stopped' = stopped /\ w \in Threads /\ OwedOK(w)
      /\ task[w].owed \in Requests /\ phase[task[w].owed] = "served" /\ DOMAIN entry = Browsers
  BY CallFacts, PoolAssumption DEF Hand, CallOK, OwedOK, Handing, ThreadsInv
<1>3. CASE Ready(b)
  <2>1. /\ Becomes(b, LockedBy(task[w].owed)) /\ Reclaim(w, b) /\ Resolve(task[w].owed, b) /\ Resume(w)
    BY <1>1, <1>3 DEF Hand
  <2>2. /\ phase'[task[w].owed] = "resolved" /\ handle'[task[w].owed] = b
        /\ \A r \in Requests \ {task[w].owed} : phase'[r] = phase[r] /\ handle'[r] = handle[r]
    BY <1>2, <2>1, ResolveMoves
  <2>3. entry'[b] = LockedBy(task[w].owed) /\ \A c \in Browsers \ {b} : entry'[c] = entry[c]
    BY <1>2, <2>1 DEF Becomes
  <2>4. WorkerAt(w)' /\ TodoMoves(w)
    BY <2>1, ResumeAt DEF AtWork, WorkerAt
  <2>5. Mine => Held(w)
    BY <1>2 DEF AtWork, WorkerAt, AimAt, Handing
  <2>6. HoldsInv'
    <3>1. \A r \in Requests : phase'[r] \in Given =>
            \/ phase[r] \in Given /\ handle'[r] = handle[r]
            \/ entry'[handle'[r]] = LockedBy(r)
      BY <2>2, <2>3
    <3>2. CASE Mine
      BY <1>1, <2>1, <2>3, <2>5, <3>1, <3>2, ClearHolds DEF AtWork
    <3> QED
      BY <3>2, SceneSame DEF HoldsInv
  <2>7. Settled(b)'
    BY <1>2, <2>2, <2>3 DEF Settled, Given
  <2>8. \A r \in Requests : phase[r] \in Given => phase'[r] = phase[r] /\ handle'[r] = handle[r]
    BY <1>2, <2>2 DEF Given
  <2>9. Ready(b)' => Ready(b) /\ ~At(w, "destroy")
    BY <1>2, <1>3
  <2> QED
    BY <1>1, <1>2, <2>3, <2>4, <2>6, <2>7, <2>8, <2>9, ClearStays DEF Worked, AtWork
<1>4. CASE ~Ready(b)
  <2>1. /\ task' = [task EXCEPT ![w].pc = "return", ![w].then = <<"refuse">>]
        /\ UNCHANGED <<entry, phase, handle, revoked>>
    BY <1>1, <1>4 DEF Hand
  <2>2. Plots(w, "return", <<"refuse">>) /\ Gentle
    BY <1>2, <2>1, PlotsWalk, SameGentle
  <2>3. HeadAt(w)' /\ DequeueAt(w)' /\ ResetAt(w)'
    BY <2>2 DEF Plots, HeadAt, DequeueAt, ResetAt, Serving, Renewing
  <2>4. AimAt(w)'
    BY <1>2, <2>1, <2>2, SceneSame DEF Plots, AimAt, AtWork, WorkerAt, Held, Handing
  <2>5. task'[w].pc \in Handles /\ ~At(w, "destroy")
    BY <1>2, <2>2 DEF Handles, Plots
  <2> QED
    BY <2>2, <2>3, <2>4, <2>5, HandleStays DEF WorkerAt, Plots
<1> QED
  BY <1>3, <1>4

LEMMA ReturnWork ==
  ASSUME ThreadsInv, Calls, NEW w \in Workers, AtWork(w), scene' = scene, Return(w)
  PROVE  Worked(w)
<1>1. PICK b \in Browsers : b = task[w].br
  BY CallFacts DEF Return, ThreadOK, Named
<1>2. /\ At(w, "return") /\ UNCHANGED <<queue, stopped, phase, handle>> /\ w \in Threads
      /\ DOMAIN entry = Browsers
  BY DEF Return, ThreadsInv
<1>3. CASE Ready(b)
  <2>1. Becomes(b, InReset(b)) /\ Reclaim(w, b) /\ Goto(w, "reset")
    BY <1>1, <1>3 DEF Return
  <2>2. entry'[b] = InReset(b) /\ \A c \in Browsers \ {b} : entry'[c] = entry[c]
    BY <1>2, <2>1 DEF Becomes
  <2>3. task'[w].pc = "reset" /\ Rest(w) /\ task'[w].br = b
    BY <1>1, <1>2, <2>1, GotoWalks DEF Walks, Goes
  <2>4. WorkerAt(w)' /\ TodoMoves(w)
    <3>1. HeadAt(w)' /\ DequeueAt(w)' /\ ResetAt(w)'
      BY <2>2, <2>3 DEF HeadAt, DequeueAt, ResetAt, Serving, Renewing, InReset
    <3>2. AimAt(w)'
      BY <2>3, SceneSame DEF AimAt, AtWork, WorkerAt, Rest, Handing
    <3> QED
      BY <2>3, <3>1, <3>2 DEF WorkerAt, TodoMoves, Rest
  <2>5. HoldsInv'
    <3>1. CASE Mine
      <4>1. Held(w)
        BY <1>2, <3>1 DEF AtWork, WorkerAt, AimAt
      <4> QED
        BY <1>1, <1>2, <2>1, <2>2, <4>1, ClearHolds DEF AtWork
    <3> QED
      BY <3>1, SceneSame DEF HoldsInv
  <2>6. Handling(w, b)' /\ (Ready(b)' => Ready(b) /\ ~At(w, "destroy"))
    BY <1>2, <1>3, <2>3 DEF Handling, Handles
  <2> QED
    BY <1>1, <1>2, <2>2, <2>4, <2>5, <2>6, ClearStays DEF Worked, AtWork
<1>4. CASE ~Ready(b)
  <2>1. Resume(w) /\ entry' = entry /\ revoked' = revoked
    BY <1>1, <1>4 DEF Return
  <2>2. WorkerAt(w)' /\ TodoMoves(w) /\ Gentle
    BY <1>2, <2>1, ResumeAt, SameGentle DEF AtWork, WorkerAt
  <2>3. Status(b) # "locked"
    BY <1>4 DEF Ready
  <2> QED
    BY <1>1, <1>2, <2>2, <2>3, GentleStays, GentleHolds DEF Worked, AtWork
<1> QED
  BY <1>3, <1>4

LEMMA SettleWork ==
  ASSUME ThreadsInv, Calls, NEW w \in Workers, AtWork(w), scene' = scene, Settle(w)
  PROVE  Worked(w)
<1>1. PICK b \in Browsers : b = task[w].br
  BY CallFacts DEF Settle, ThreadOK, Named
<1>2. /\ At(w, "settle") /\ UNCHANGED <<queue, stopped, phase, handle, revoked>> /\ Resume(w)
      /\ entry' = [entry EXCEPT ![b] = IF @ = InReset(b) THEN Idle ELSE @] /\ DOMAIN entry = Browsers
  BY <1>1 DEF Settle, ThreadsInv
<1>3. entry[b] = InReset(b)
  BY <1>1, <1>2 DEF AtWork, WorkerAt, ResetAt
<1>4. entry'[b] = Idle /\ \A c \in Browsers \ {b} : entry'[c] = entry[c]
  BY <1>2, <1>3
<1>5. WorkerAt(w)' /\ TodoMoves(w)
  BY <1>2, ResumeAt DEF AtWork, WorkerAt
<1>6. HoldsInv'
  <2> SUFFICES ASSUME Mine, NEW r \in Requests, phase[r] \in Given, r \notin revoked
               PROVE  entry'[handle[r]] = LockedBy(r)
    BY <1>2, SceneSame DEF HoldsInv
  <2>1. entry[handle[r]] = LockedBy(r) /\ handle[r] \in Browsers
    BY DEF AtWork, HoldsInv, ThreadsInv, Given
  <2>2. handle[r] # b
    BY <1>3, <2>1, PoolAssumption DEF InReset, LockedBy
  <2> QED
    BY <1>4, <2>1, <2>2
<1>7. /\ Status(b)' # "locked" /\ (Ready(b)' => Ready(b) /\ ~At(w, "destroy"))
  BY <1>2, <1>3, <1>4 DEF Status, Ready, Idle, InReset, LockedBy
<1> QED
  BY <1>1, <1>2, <1>4, <1>5, <1>6, <1>7, ClearStays DEF Worked, AtWork

LEMMA DestroyWork ==
  ASSUME ThreadsInv, Calls, NEW w \in Workers, AtWork(w), scene' = scene, Destroy(w)
  PROVE  Worked(w)
<1>1. PICK b \in Browsers : b = task[w].br
  BY CallFacts DEF Destroy, ThreadOK, Named
<1>2. /\ At(w, "destroy") /\ UNCHANGED <<queue, stopped, phase, handle>> /\ w \in Threads
      /\ DOMAIN entry = Browsers
  BY DEF Destroy, ThreadsInv
<1>3. CASE Status(b) = "none"
  <2>1. Resume(w) /\ entry' = entry /\ revoked' = revoked
    BY <1>1, <1>3 DEF Destroy
  <2>2. WorkerAt(w)' /\ TodoMoves(w) /\ Gentle
    BY <1>2, <2>1, ResumeAt, SameGentle DEF AtWork, WorkerAt
  <2>3. ~Ready(b)'
    BY <1>3, <2>1 DEF Ready, Status
  <2> QED
    BY <1>1, <1>2, <1>3, <2>2, <2>3, GentleStays, GentleHolds DEF Worked, AtWork
<1>4. CASE Status(b) = "creating"
  <2>1. Becomes(b, NoEntry) /\ NotifyChanged(w, home[b]) /\ revoked' = revoked
    BY <1>1, <1>4 DEF Destroy
  <2>2. entry'[b] = NoEntry /\ \A c \in Browsers \ {b} : entry'[c] = entry[c]
    BY <1>2, <2>1 DEF Becomes
  <2>3. WorkerAt(w)' /\ TodoMoves(w)
    BY <2>1, NotifyAt DEF AtWork
  <2>4. Status(b)' # "locked" /\ ~Ready(b)'
    BY <2>2 DEF Status, Ready, NoEntry
  <2>5. HoldsInv'
    <3> SUFFICES ASSUME Mine, NEW r \in Requests, phase[r] \in Given, r \notin revoked
                 PROVE  entry'[handle[r]] = LockedBy(r)
      BY <1>2, <2>1, SceneSame DEF HoldsInv
    <3>1. entry[handle[r]] = LockedBy(r) /\ handle[r] \in Browsers
      BY DEF AtWork, HoldsInv, ThreadsInv, Given
    <3> QED
      BY <1>4, <2>2, <3>1 DEF LockedBy, Status
  <2> QED
    BY <1>1, <1>2, <2>2, <2>3, <2>4, <2>5, ClearStays DEF Worked, AtWork
<1>5. CASE Status(b) \in {"idle", "locked", "destroying"}
  <2>1. Becomes(b, [status |-> "destroying", holder |-> None]) /\ Reclaim(w, b) /\ Goto(w, "destroyer")
    BY <1>1, <1>5 DEF Destroy
  <2>2. entry'[b] = [status |-> "destroying", holder |-> None] /\ \A c \in Browsers \ {b} : entry'[c] = entry[c]
    BY <1>2, <2>1 DEF Becomes
  <2>3. task'[w].pc = "destroyer" /\ Rest(w)
    BY <1>1, <1>2, <2>1, GotoWalks DEF Walks, Goes
  <2>4. WorkerAt(w)' /\ TodoMoves(w)
    <3>1. HeadAt(w)' /\ DequeueAt(w)' /\ ResetAt(w)'
      BY <2>3 DEF HeadAt, DequeueAt, ResetAt, Serving, Renewing
    <3>2. AimAt(w)'
      BY <2>3, SceneSame DEF AimAt, AtWork, WorkerAt, Rest, Handing
    <3> QED
      BY <2>3, <3>1, <3>2 DEF WorkerAt, TodoMoves, Rest
  <2>5. HoldsInv'
    <3>1. CASE Mine
      <4>1. \/ task[w].aim = Requests
            \/ Held(w)
            \/ entry[b] = InReset(b)
            \/ Status(b) # "locked"
        BY <1>1, <1>2, <3>1 DEF AtWork, WorkerAt, AimAt
      <4> QED
        BY <1>1, <1>2, <2>1, <2>2, <4>1, ClearHolds DEF AtWork
    <3> QED
      BY <3>1, SceneSame DEF HoldsInv
  <2>6. Status(b)' # "locked" /\ ~Ready(b)'
    BY <2>2 DEF Status, Ready
  <2> QED
    BY <1>1, <1>2, <2>2, <2>4, <2>5, <2>6, ClearStays DEF Worked, AtWork
<1> QED
  BY <1>1, <1>3, <1>4, <1>5 DEF Destroy

\* A step of the only job.
LEMMA AdvanceWork ==
  ASSUME Inv, Calls, NEW w \in Workers, AtWork(w), scene' = scene, Advance(w)
  PROVE  Worked(w)
<1>0. ThreadsInv
  BY DEF Inv
<1>1. CASE Reuse(w) \/ Lock(w) \/ Create(w) \/ GetPermit(w) \/ Place(w)
  BY <1>0, <1>1, ReuseWork, LockWork, CreateWork, GetPermitWork, PlaceWork
<1>2. CASE AwaitFactory(w) \/ Finish(w) \/ Discard(w) \/ Abandon(w)
  BY <1>0, <1>2, AwaitFactoryWork, FinishWork, DiscardWork, AbandonWork
<1>3. CASE Peek(w) \/ Lookup(w) \/ Dequeue(w) \/ Take(w) \/ Check(w) \/ Clean(w)
  BY <1>0, <1>3, PeekWork, LookupWork, DequeueWork, TakeWork, CheckWork, CleanWork
<1>4. CASE Hand(w) \/ Refuse(w) \/ Return(w) \/ Reset(w) \/ Settle(w)
  BY <1>0, <1>4, HandWork, RefuseWork, ReturnWork, ResetWork, SettleWork
<1>5. CASE Destroy(w) \/ Destroyer(w) \/ Destroyed(w) \/ Report(w) \/ CancelPlugin(w) \/ Later(w)
  BY <1>0, <1>5, DestroyWork, DestroyerWork, DestroyedWork, ReportWork, CancelPluginWork, LaterWork
<1> QED
  BY <1>1, <1>2, <1>3, <1>4, <1>5 DEF Advance

\* Who takes a step has something to do at once, or it is the outside's turn.
LEMMA AdvancePrompt ==
  ASSUME NEW t \in Threads, Advance(t)
  PROVE  (Prompt(t) \/ Turn) /\ ~At(t, "idle") /\ ~At(t, "seize")
<1>1. CASE Reuse(t) \/ Lock(t) \/ Create(t) \/ GetPermit(t) \/ Place(t) \/ Finish(t) \/ Abandon(t)
  BY <1>1 DEF Reuse, Lock, Create, GetPermit, Place, Finish, Abandon, Prompt, Outside
<1>2. CASE AwaitFactory(t)
  BY <1>2 DEF AwaitFactory, Prompt
<1>3. CASE Peek(t) \/ Dequeue(t) \/ Take(t) \/ Hand(t) \/ Refuse(t) \/ Return(t) \/ Settle(t)
  BY <1>3 DEF Peek, Dequeue, Take, Hand, Refuse, Return, Settle, Prompt, Outside
<1>4. CASE Destroy(t) \/ Destroyed(t) \/ CancelPlugin(t)
  BY <1>4 DEF Destroy, Destroyed, CancelPlugin, Prompt, Outside
<1>5. CASE Discard(t) \/ Lookup(t) \/ Check(t) \/ Clean(t) \/ Reset(t) \/ Destroyer(t) \/ Report(t) \/ Later(t)
  BY <1>5 DEF Discard, Lookup, Check, Clean, Reset, Destroyer, Report, Later
<1> QED
  BY <1>1, <1>2, <1>3, <1>4, <1>5 DEF Advance

\* Nothing comes before the step of a thread that alone has something to do.
LEMMA AloneFirst ==
  ASSUME NEW t \in Threads, Alone(t), Prompt(t), Next
  PROVE  Advance(t) \/ (t \in Requests /\ (Seize(t) \/ Enqueue(t)))
<1>1. ~Turn /\ \A r \in Requests : phase[r] # "resolved"
  BY DEF Turn, Alone
<1>2. ASSUME NEW u \in Threads, Prompt(u) PROVE u = t
  BY <1>2 DEF Alone
<1>3. ASSUME NEW r \in Requests, Caller(r) PROVE r = t /\ (Seize(r) \/ Enqueue(r))
  <2>1. Seize(r) \/ Enqueue(r)
    BY <1>1, <1>3 DEF Caller, Acquire, Takeover, GiveUp, BuildHandle
  <2>2. Prompt(r)
    BY <2>1 DEF Seize, Enqueue, Prompt, Outside
  <2> QED
    BY <1>2, <2>1, <2>2
<1>4. ASSUME NEW u \in Threads, Advance(u) PROVE u = t
  BY <1>1, <1>2, <1>4, AdvancePrompt
<1>5. /\ \A u \in Workers : ~StartJob(u) /\ \A r \in Requests : ~Release(u, r)
      /\ \A b \in Browsers : ~Launch(b) /\ ~ReapCreated(b)
  BY <1>1 DEF StartJob, Release, Launch, ReapCreated
<1> QED
  BY <1>3, <1>4, <1>5 DEF Next

\* A request that seizes a browser is alone, and it is its step.
LEMMA SeizeFirst ==
  ASSUME SeizeInv, NEW r \in Requests, At(r, "seize"), Next
  PROVE  Seize(r) /\ Alone(r)
<1>1. Alone(r) /\ Prompt(r) /\ r \in Threads
  BY DEF SeizeInv, Prompt, Outside
<1> QED
  BY <1>1, AloneFirst, AdvancePrompt DEF Enqueue

\* What a request, or the outside, does beside a job: no lock goes, and a new one is
\* answered at once.
Answered ==
  /\ \A r \in Requests : phase'[r] \in Given =>
       \/ phase[r] \in Given /\ handle'[r] = handle[r]
       \/ entry'[handle'[r]] = LockedBy(r)
  /\ \A r \in Requests : phase[r] \in Given /\ Ready(handle[r]) =>
       phase'[r] \in Given /\ handle'[r] = handle[r]
Elsewhere ==
  /\ \A w \in Workers : task'[w] = task[w]
  /\ stopped' = stopped /\ revoked' = revoked
  /\ Orderly => \A s \in Sessions : queue[s] # <<>> =>
       queue'[s] # <<>> /\ Head(queue'[s]) = Head(queue[s])
  /\ \A b \in Browsers :
       \/ entry'[b] = entry[b]
       \/ Status(b) # "locked" /\ (Status(b)' = "locked" => Settled(b)')
  /\ stopped => \A b \in Browsers : Ready(b)' => Ready(b)
  /\ Answered
  /\ \A r \in Requests : At(r, "seize")' => At(r, "seize")

LEMMA AsideWorkers ==
  ASSUME ThreadsInv, Calls, scene' = scene, Elsewhere, NEW w \in Workers, WorkerAt(w),
         Alone(w) => ~At(w, "destroy")
  PROVE  WorkerAt(w)'
<1>1. task'[w] = task[w] /\ w \in Threads /\ ThreadOK(w) /\ CallOK(w)
  BY CallFacts DEF Elsewhere
<1>2. task[w].pc \in Serving => task[w].sess \in Sessions
  BY <1>1 DEF ThreadOK, Nowhere, Serving, Renewing
<1>3. \A b \in Browsers : Status(b) = "locked" => entry'[b] = entry[b]
  BY DEF Elsewhere
<1>4. task[w].pc \in Named => task[w].br \in Browsers
  BY <1>1 DEF ThreadOK
<1>5. HeadAt(w)'
  <2>1. Owing(w)' = Owing(w)
    BY <1>1 DEF Owing
  <2> QED
    BY <1>1, <1>2, <2>1, SceneSame DEF HeadAt, WorkerAt, Elsewhere
<1>6. DequeueAt(w)'
  <2> SUFFICES ASSUME Orderly, At(w, "dequeue") PROVE entry'[task[w].br] = LockedBy(task[w].req)
    BY <1>1, SceneSame DEF DequeueAt
  <2>1. entry[task[w].br] = LockedBy(task[w].req) /\ task[w].br \in Browsers
    BY <1>4 DEF DequeueAt, WorkerAt, Named
  <2> QED
    BY <1>3, <2>1 DEF LockedBy, Status
<1>7. ResetAt(w)'
  <2> SUFFICES ASSUME task[w].pc \in {"reset", "settle"} PROVE entry'[task[w].br] = InReset(task[w].br)
    BY <1>1 DEF ResetAt, InReset
  <2>1. entry[task[w].br] = InReset(task[w].br) /\ task[w].br \in Browsers
    BY <1>4 DEF ResetAt, WorkerAt, Named
  <2> QED
    BY <1>3, <2>1 DEF InReset, LockedBy, Status
<1>8. AimAt(w)'
  <2> SUFFICES ASSUME Mine
               PROVE  /\ ~At(w, "later")
                      /\ task[w].todo # {} => task[w].aim = Requests
                      /\ task[w].pc \in Handing \cup {"take", "return"} => Held(w)'
                      /\ At(w, "destroy") => \/ task[w].aim = Requests
                                             \/ Held(w)'
                                             \/ entry'[task[w].br] = InReset(task[w].br)
    BY <1>1, SceneSame DEF AimAt, InReset
  <2>1. AimAt(w)
    BY DEF WorkerAt
  <2>2. task[w].br \in Browsers /\ Held(w) => Held(w)'
    BY <1>1, <1>3 DEF Held, Status
  <2>3. task[w].pc \in Handing \cup {"take", "return", "destroy"} => task[w].br \in Browsers
    BY <1>4 DEF Named, Handing
  <2>4. At(w, "destroy") /\ entry[task[w].br] = InReset(task[w].br)
          => entry'[task[w].br] = InReset(task[w].br)
    BY <1>3, <2>3 DEF InReset, LockedBy, Status
  <2> QED
    BY <2>1, <2>2, <2>3, <2>4 DEF AimAt
<1> QED
  BY <1>5, <1>6, <1>7, <1>8 DEF WorkerAt

LEMMA AsideHolds ==
  ASSUME ThreadsInv, scene' = scene, Elsewhere, HoldsInv
  PROVE  HoldsInv'
<1> SUFFICES ASSUME Mine, NEW r \in Requests, phase'[r] \in Given, r \notin revoked
             PROVE  entry'[handle'[r]] = LockedBy(r)
  BY SceneSame DEF HoldsInv, Elsewhere
<1>1. CASE phase[r] \in Given /\ handle'[r] = handle[r]
  <2>1. entry[handle[r]] = LockedBy(r) /\ handle[r] \in Browsers
    BY <1>1 DEF HoldsInv, ThreadsInv, Given
  <2> QED
    BY <1>1, <2>1 DEF Elsewhere, LockedBy, Status
<1> QED
  BY <1>1 DEF Elsewhere, Answered

LEMMA SettledAside ==
  ASSUME Answered, NEW b \in Browsers, entry'[b] = entry[b], Settled(b)
  PROVE  Settled(b)'
<1>1. PICK r \in Requests : entry[b] = LockedBy(r) /\ handle[r] = b /\ phase[r] \in Given
  BY DEF Settled
<1>2. Ready(handle[r])
  BY <1>1 DEF Ready, Status, LockedBy
<1> QED
  BY <1>1, <1>2 DEF Answered, Settled, LockedBy

LEMMA AsideLocks ==
  ASSUME scene' = scene, Elsewhere, LocksInv, StopInv
  PROVE  LocksInv' /\ StopInv'
<1>1. ASSUME Sure, NEW b \in Browsers, Status(b)' = "locked"
      PROVE  Settled(b)' \/ \E w \in Workers : Handling(w, b)'
  <2>1. CASE entry'[b] # entry[b]
    BY <1>1, <2>1 DEF Elsewhere
  <2>2. CASE entry'[b] = entry[b]
    <3>1. Settled(b) \/ \E w \in Workers : Handling(w, b)
      BY <1>1, <2>2 DEF LocksInv, Status
    <3> QED
      BY <2>2, <3>1, SettledAside DEF Elsewhere, Handling
  <2> QED
    BY <2>1, <2>2
<1>2. StopInv'
  BY DEF StopInv, Elsewhere
<1> QED
  BY <1>1, <1>2, SceneSame DEF LocksInv

\* One job at a time: requests and the outside leave the rest of Locks as it is.
LEMMA AsideStep ==
  ASSUME ThreadsInv, Calls, scene' = scene, Locks, Elsewhere,
         \A r \in Requests : ~At(r, "seize"),
         \A w \in Workers : Alone(w) => ~At(w, "destroy")
  PROVE  Locks'
<1>1. SeizeInv' /\ WorkInv'
  BY DEF SeizeInv, WorkInv, Elsewhere, Locks
<1>2. \A w \in Workers : WorkerAt(w)'
  BY AsideWorkers DEF Locks
<1> QED
  BY <1>1, <1>2, AsideHolds, AsideLocks DEF Locks

LEMMA GentleAside ==
  ASSUME Calls, Gentle,
         \A w \in Workers : task'[w] = task[w],
         \A r \in Requests : At(r, "seize")' => At(r, "seize"),
         Orderly => \A s \in Sessions : queue[s] # <<>> =>
           queue'[s] # <<>> /\ Head(queue'[s]) = Head(queue[s])
  PROVE  Elsewhere
<1>1. \A b \in Browsers : entry'[b] = entry[b] \/ (Status(b) # "locked" /\ Status(b)' # "locked")
  BY DEF Gentle
<1> QED
  BY <1>1 DEF Gentle, Elsewhere, Answered

LEMMA OwnAside ==
  ASSUME ThreadsInv, Calls, Gentle, NEW t \in Requests, NEW p, Goes(t, p), p # "seize", queue' = queue
  PROVE  Elsewhere
<1>1. \A w \in Workers : task'[w] = task[w]
  BY SceneFacts DEF Goes, Others
<1>2. \A r \in Requests : At(r, "seize")' => At(r, "seize")
  BY DEF Goes, Others
<1> QED
  BY <1>1, <1>2, GentleAside

LEMMA OwnEnds ==
  ASSUME ThreadsInv, NEW t \in Requests, task' = [task EXCEPT ![t] = NoTask]
  PROVE  /\ \A w \in Workers : task'[w] = task[w]
         /\ \A r \in Requests : At(r, "seize")' => At(r, "seize")
<1>1. Others(t) /\ task'[t] = NoTask
  BY EndWalks
<1> QED
  BY <1>1, NoTaskCall, SceneFacts DEF Others

LEMMA UnobtainedAside ==
  ASSUME ThreadsInv, Calls, NEW t \in Requests, Unobtained(t), queue' = queue, handle' = handle,
         revoked' = revoked, stopped' = stopped,
         \A b \in Browsers : entry'[b] = entry[b] \/ (~Ready(b) /\ ~Ready(b)')
  PROVE  Elsewhere
<1>1. Goto(t, "enqueue") /\ phase' = phase
  BY DEF Unobtained, Own
<1>2. Goes(t, "enqueue")
  BY <1>1, GotoWalks DEF Walks
<1>3. Gentle
  BY <1>1 DEF Gentle, Ready, Status
<1> QED
  BY <1>2, <1>3, OwnAside

LEMMA LockAside ==
  ASSUME ThreadsInv, Calls, NEW t \in Requests, Lock(t)
  PROVE  Elsewhere
<1>1. PICK b \in Browsers : b = task[t].br
  BY CallFacts DEF Lock, ThreadOK, Named
<1>2. /\ task[t].pc \in {"lock", "lockNew"} /\ queue' = queue /\ revoked' = revoked /\ stopped' = stopped
      /\ task[t].req = t /\ phase[t] = "calling" /\ DOMAIN entry = Browsers
  BY CallFacts DEF Lock, OwnOK, ThreadsInv
<1>3. CASE Lockable(b) /\ Becomes(b, LockedBy(task[t].req)) /\ Obtained(t, b)
  <2>1. /\ entry'[b] = LockedBy(t) /\ Status(b) = "idle" /\ \A c \in Browsers \ {b} : entry'[c] = entry[c]
    BY <1>2, <1>3 DEF Becomes, Lockable
  <2>2. Resolve(t, b) /\ task' = [task EXCEPT ![t] = NoTask]
    BY <1>3 DEF Obtained, Own
  <2>3. /\ phase'[t] = "resolved" /\ handle'[t] = b
        /\ \A r \in Requests \ {t} : phase'[r] = phase[r] /\ handle'[r] = handle[r]
    BY <2>2, ResolveMoves
  <2>4. Answered
    BY <1>2, <2>1, <2>3 DEF Answered, Given
  <2>5. Settled(b)'
    BY <2>1, <2>3 DEF Settled, Given, LockedBy
  <2>6. \A c \in Browsers : Ready(c)' => Ready(c)
    BY <2>1 DEF Ready, Status
  <2> QED
    BY <1>2, <2>1, <2>2, <2>4, <2>5, <2>6, OwnEnds DEF Elsewhere
<1>4. CASE At(t, "lock") /\ Goto(t, "create") /\ UNCHANGED <<phase, entry, handle>>
  BY <1>2, <1>4, GotoWalks, SameGentle, OwnAside DEF Walks
<1>5. CASE Unobtained(t) /\ UNCHANGED <<entry, handle>>
  BY <1>2, <1>5, UnobtainedAside
<1> QED
  BY <1>1, <1>2, <1>3, <1>4, <1>5 DEF Lock

LEMMA AdvanceAside ==
  ASSUME Inv, Calls, scene' = scene, NEW t \in Requests, Advance(t)
  PROVE  Elsewhere
<1>0. ThreadsInv /\ t \in Threads
  BY DEF Inv
<1>1. task[t].pc \in OwnSteps /\ task[t].then = <<>> /\ task[t].todo = {} /\ OwnOK(t)
  BY <1>0, CallFacts DEF OwnOK
<1>2. CASE Reuse(t)
  <2>1. PICK p \in {"lock", "create"} : Goes(t, p)
    BY <1>0, <1>2, GotoWalks, GotoWithWalks DEF Reuse, Walks
  <2> QED
    BY <1>0, <1>2, <2>1, SameGentle, OwnAside DEF Reuse
<1>3. CASE Lock(t)
  BY <1>0, <1>3, LockAside
<1>4. CASE Create(t)
  <2>1. UNCHANGED <<entry, queue, handle, revoked, stopped>>
    BY <1>4 DEF Create
  <2>2. CASE Unobtained(t)
    BY <1>0, <2>1, <2>2, UnobtainedAside
  <2>3. CASE Goto(t, "permit") /\ phase' = phase
    BY <1>0, <2>1, <2>3, GotoWalks, SameGentle, OwnAside DEF Walks
  <2> QED
    BY <1>4, <2>2, <2>3 DEF Create
<1>5. CASE GetPermit(t)
  BY <1>0, <1>5, GotoWalks, SameGentle, OwnAside DEF Walks, GetPermit
<1>6. CASE Place(t)
  <2>1. UNCHANGED <<queue, phase, handle, revoked, stopped>>
    BY <1>6 DEF Place
  <2>2. CASE GotoWith(t, "abandon", None) /\ entry' = entry
    BY <1>0, <2>1, <2>2, GotoWithWalks, SameGentle, OwnAside
  <2>3. ASSUME NEW b \in Browsers, Fresh(b), Becomes(b, [status |-> "creating", holder |-> None]),
               GotoWith(t, "starting", b)
        PROVE  Elsewhere
    <3>1. /\ entry'[b] = [status |-> "creating", holder |-> None] /\ Status(b) = "none"
          /\ \A c \in Browsers \ {b} : entry'[c] = entry[c]
      BY <1>0, <2>3 DEF Becomes, Fresh, ThreadsInv
    <3>2. Gentle
      BY <2>1, <3>1 DEF Gentle, Ready, Status
    <3> QED
      BY <1>0, <2>1, <2>3, <3>2, GotoWithWalks, OwnAside
  <2> QED
    BY <1>6, <2>2, <2>3 DEF Place
<1>7. CASE AwaitFactory(t)
  <2>1. PICK p \in {"finish", "abandon", "abort"} : Goes(t, p)
    BY <1>0, <1>7, GotoWalks DEF AwaitFactory, Walks
  <2> QED
    BY <1>0, <1>7, <2>1, SameGentle, OwnAside DEF AwaitFactory
<1>8. CASE Finish(t)
  <2>1. PICK p \in {"lockNew", "abandon", "discard"} : Goes(t, p)
    BY <1>0, <1>8, GotoWalks DEF Finish, Walks
  <2>2. UNCHANGED <<queue, phase, handle, revoked, stopped>>
    BY <1>8 DEF Finish
  <2>3. \A b \in Browsers :
           \/ entry'[b] = entry[b]
           \/ /\ Status(b) \in {"creating", "none"} /\ Status(b)' # "locked"
              /\ stopped => ~Ready(b)'
    BY <1>0, <1>8, FinishEntry
  <2>4. Gentle
    BY <2>2, <2>3 DEF Gentle, Ready, Status
  <2> QED
    BY <1>0, <2>1, <2>2, <2>4, OwnAside
<1>9. CASE Discard(t)
  BY <1>0, <1>9, GotoWalks, SameGentle, OwnAside DEF Walks, Discard
<1>10. CASE Abandon(t)
  <2>1. UNCHANGED <<queue, handle, revoked, stopped>>
    BY <1>10 DEF Abandon
  <2>2. \A b \in Browsers : entry'[b] = entry[b] \/ (~Ready(b) /\ ~Ready(b)')
    BY <1>0, <1>10, AbandonEntry
  <2>3. CASE Unobtained(t)
    BY <1>0, <2>1, <2>2, <2>3, UnobtainedAside
  <2>4. CASE Fail({t}) /\ Resume(t)
    <3>1. \A r \in Requests : phase'[r] = IF r = t THEN "failed" ELSE phase[r]
      BY <2>4, FailMoves
    <3>2. phase[t] = "calling"
      BY <1>1, <1>10 DEF Abandon, OwnOK
    <3>3. Gentle
      BY <2>1, <2>2, <3>1, <3>2 DEF Gentle, Ready, Status, Given
    <3>4. task' = [task EXCEPT ![t] = NoTask]
      BY <1>1, <2>4 DEF Resume
    <3> QED
      BY <1>0, <2>1, <3>3, <3>4, OwnEnds, GentleAside
  <2> QED
    BY <1>10, <2>3, <2>4 DEF Abandon
<1>11. CASE \/ Peek(t) \/ Lookup(t) \/ Dequeue(t) \/ Take(t) \/ Check(t) \/ Clean(t) \/ Hand(t)
            \/ Refuse(t) \/ Return(t) \/ Reset(t) \/ Settle(t)
  BY <1>1, <1>11 DEF OwnSteps, Peek, Lookup, Dequeue, Take, Check, Clean, Hand, Refuse, Return, Reset, Settle
<1>12. CASE Destroy(t) \/ Destroyer(t) \/ Destroyed(t) \/ Report(t) \/ CancelPlugin(t) \/ Later(t)
  BY <1>1, <1>12 DEF OwnSteps, Destroy, Destroyer, Destroyed, Report, CancelPlugin, Later
<1> QED
  BY <1>2, <1>3, <1>4, <1>5, <1>6, <1>7, <1>8, <1>9, <1>10, <1>11, <1>12 DEF Advance

LEMMA AcquireAside ==
  ASSUME ThreadsInv, Calls, NEW r \in Requests, Acquire(r)
  PROVE  Elsewhere
<1> DEFINE k == [NoTask EXCEPT !.pc = "reuse", !.req = r, !.sess = Session[r]]
<1>1. k.pc = "reuse" /\ task' = [task EXCEPT ![r] = k]
  BY DEF Acquire, NoTask
<1> HIDE DEF k
<1>2. /\ \A w \in Workers : task'[w] = task[w]
      /\ \A q \in Requests : At(q, "seize")' => At(q, "seize")
  BY <1>1, SceneFacts DEF ThreadsInv
<1>3. Gentle /\ queue' = queue
  BY DEF Acquire, Gentle, Ready, Status, Given, ThreadsInv
<1> QED
  BY <1>2, <1>3, GentleAside

\* With equal priorities, newcomers go to the end of the queue.
LEMMA EnqueueAside ==
  ASSUME ThreadsInv, Calls, NEW r \in Requests, Enqueue(r)
  PROVE  Elsewhere
<1>1. /\ At(r, "enqueue") /\ task' = [task EXCEPT ![r] = NoTask] /\ phase[r] = "calling"
      /\ UNCHANGED <<entry, revoked, handle, stopped>> /\ Session[r] \in Sessions
  BY CallFacts, SceneFacts DEF Enqueue, OwnOK
<1>2. \A q \in Requests : phase'[q] = phase[q] \/ (q = r /\ phase'[q] \in {"waiting", "failed"})
  BY FailMoves DEF Enqueue, ThreadsInv
<1>3. Gentle
  BY <1>1, <1>2 DEF Gentle, Ready, Status, Given
<1>4. ASSUME Orderly, NEW s \in Sessions, queue[s] # <<>>
      PROVE  queue'[s] # <<>> /\ Head(queue'[s]) = Head(queue[s])
  <2>1. CASE queue' = queue \/ s # Session[r]
    BY <1>1, <1>4, <2>1 DEF Enqueue, Calls, QueueOK
  <2>2. CASE queue' # queue /\ s = Session[r]
    <3>1. PICK i \in Places(queue[s], r) : queue' = [queue EXCEPT ![s] = InsertAt(queue[s], i, r)]
      BY <2>2 DEF Enqueue
    <3>2. /\ queue[s] \in Seq(Requests) /\ Len(queue[s]) \in Nat /\ 1 \in DOMAIN queue[s]
          /\ i \in 1..Len(queue[s]) + 1 /\ 1 \in 1..Len(queue[s]) + 1
      BY <1>4 DEF Calls, QueueOK, Places
    <3>3. Prio[queue[s][1]] = Prio[r]
      BY <1>4, <2>2, <3>2 DEF Orderly, Calls, QueueOK
    <3>4. i # 1
      <4> SUFFICES ASSUME i = 1 PROVE FALSE
        OBVIOUS
      <4>1. Prio[queue[s][1]] < Prio[r]
        BY <3>1, <3>2 DEF Places
      <4>2. Prio[r] \in Nat
        BY PoolAssumption DEF ThreadsInv, Prio
      <4> QED
        BY <3>3, <4>1, <4>2
    <3>5. /\ InsertAt(queue[s], i, r) \in Seq(Requests) /\ Len(InsertAt(queue[s], i, r)) = Len(queue[s]) + 1
          /\ InsertAt(queue[s], i, r)[1] = queue[s][1]
      <4>1. /\ InsertAt(queue[s], i, r) \in Seq(Requests)
            /\ Len(InsertAt(queue[s], i, r)) = Len(queue[s]) + 1
            /\ \A j \in 1..Len(queue[s]) + 1 : InsertAt(queue[s], i, r)[j] =
                 IF j < i THEN queue[s][j] ELSE IF j = i THEN r ELSE queue[s][j - 1]
        BY <3>2, InsertAtOK
      <4>2. 1 < i
        BY <3>2, <3>4
      <4> QED
        BY <3>2, <4>1, <4>2
    <3>6. queue'[s] = InsertAt(queue[s], i, r)
      BY <3>1 DEF Calls, QueueOK
    <3> HIDE DEF Calls
    <3> QED
      BY <3>2, <3>5, <3>6
  <2> QED
    BY <2>1, <2>2
<1> QED
  BY <1>1, <1>3, <1>4, OwnEnds, GentleAside

LEMMA BuildHandleAside ==
  ASSUME ThreadsInv, Calls, NEW r \in Requests, BuildHandle(r)
  PROVE  Elsewhere
<1>1. /\ phase[r] = "resolved" /\ UNCHANGED <<entry, revoked, task, queue, handle, stopped>>
      /\ phase' = [phase EXCEPT ![r] = IF Ready(handle[r]) THEN "granted" ELSE "failed"]
  BY DEF BuildHandle
<1>2. /\ \A q \in Requests \ {r} : phase'[q] = phase[q]
      /\ phase'[r] = IF Ready(handle[r]) THEN "granted" ELSE "failed"
  BY <1>1 DEF ThreadsInv
<1>3. Answered
  BY <1>1, <1>2 DEF Answered, Given
<1> QED
  BY <1>1, <1>3 DEF Elsewhere, Ready, Status

LEMMA OutsideAside ==
  ASSUME Calls, UNCHANGED <<entry, revoked, task, queue, handle, phase, stopped>>
  PROVE  Elsewhere
BY SameGentle, GentleAside

LEMMA TakeoverLocks ==
  ASSUME ThreadsInv, Calls, scene' = scene, Locks, NEW r \in Requests, Takeover(r)
  PROVE  Locks'
<1>1. PICK b \in Of(Session[r]) :
        /\ entry[b].holder # None
        /\ task' = [task EXCEPT ![r] = [Job({entry[b].holder}, b, "seize") EXCEPT !.req = r]]
  BY DEF Takeover
<1> DEFINE j == Job({entry[b].holder}, b, "seize")
           k == [j EXCEPT !.req = r]
<1>2. DOMAIN j = Fields /\ j.pc = "seize" /\ j.br = b
  BY DEF Job, NoTask
<1>3. task' = [task EXCEPT ![r] = k]
  BY <1>1
<1> HIDE DEF j
<1>4. k.pc = "seize" /\ k.br = b
  BY <1>2
<1> HIDE DEF k
<1>5. Others(r) /\ task'[r] = k
  BY <1>3 DEF ThreadsInv, Others
<1>6. /\ UNCHANGED <<entry, queue, stopped, handle, revoked, life, permits, line>> /\ Turn
      /\ \A q \in Requests : phase'[q] = phase[q] \/ (phase[q] = "new" /\ phase'[q] = "calling")
      /\ r \in Takers
  BY DEF Takeover, ThreadsInv
<1>7. \A u \in Threads \ {r} : ~Prompt(u)'
  BY <1>5, <1>6 DEF Turn, Prompt, Others
<1>8. Alone(r)'
  BY <1>6, <1>7 DEF Alone, Turn
<1>9. \A q \in Requests : At(q, "seize")' => q = r
  BY <1>7 DEF Prompt, Outside
<1>10. SeizeInv'
  <2>1. SUFFICES ASSUME NEW q \in Requests, At(q, "seize")'
                 PROVE  /\ Alone(q)' /\ q \in Takers'
                        /\ task'[q].br \in Browsers /\ entry'[task'[q].br].holder # None
    BY DEF SeizeInv
  <2>2. q = r /\ task'[r].br = b /\ b \in Browsers
    BY <1>4, <1>5, <1>9, <2>1 DEF Of, Present
  <2> QED
    BY <1>1, <1>6, <1>8, <2>2, SceneSame
<1>11. \A w \in Workers : task'[w] = task[w] /\ ~Prompt(w)
  BY <1>5, <1>6, SceneFacts DEF Others, Turn
<1>12. \A w \in Workers : WorkerAt(w)'
  <2> SUFFICES ASSUME NEW w \in Workers PROVE WorkerAt(w)'
    OBVIOUS
  <2>1. WorkerAt(w) /\ task'[w] = task[w] /\ ~At(w, "destroy")
    BY <1>11 DEF Locks, Prompt, Outside
  <2>2. HeadAt(w)' /\ DequeueAt(w)' /\ ResetAt(w)'
    BY <1>6, <2>1, SceneSame DEF WorkerAt, HeadAt, DequeueAt, ResetAt, Owing, InReset
  <2>3. AimAt(w)'
    BY <1>6, <2>1, SceneSame DEF WorkerAt, AimAt, Held
  <2> QED
    BY <2>2, <2>3 DEF WorkerAt
<1>13. HoldsInv'
  BY <1>6, SceneSame DEF HoldsInv, Given, Locks
<1>14. LocksInv'
  <2> SUFFICES ASSUME Sure, NEW b1 \in Browsers, Status(b1) = "locked"
               PROVE  Settled(b1)' \/ \E w \in Workers : Handling(w, b1)'
    BY <1>6, SceneSame DEF LocksInv, Status
  <2>1. Settled(b1) => Settled(b1)'
    BY <1>6 DEF Settled, Given
  <2>2. \A w \in Workers : Handling(w, b1) => Handling(w, b1)'
    BY <1>11 DEF Handling
  <2> QED
    BY <2>1, <2>2 DEF LocksInv, Locks
<1>15. StopInv' /\ WorkInv'
  BY <1>6, <1>11 DEF StopInv, WorkInv, Locks, Ready, Status
<1> QED
  BY <1>10, <1>12, <1>13, <1>14, <1>15 DEF Locks

LEMMA AdvanceOthers ==
  ASSUME ThreadsInv, NEW t \in Threads, Advance(t)
  PROVE  Others(t)
<1>1. ASSUME NEW p, Goto(t, p) PROVE Others(t)
  BY <1>1, GotoWalks DEF Walks, Goes
<1>2. ASSUME NEW p, NEW b, GotoWith(t, p, b) PROVE Others(t)
  BY <1>2, GotoWithWalks DEF Goes
<1>3. ASSUME Resume(t) PROVE Others(t)
  BY <1>3, ResumeWalks DEF Resumes
<1>4. ASSUME NextPass(t) PROVE Others(t)
  BY <1>4, PassWalks DEF Walks, Goes
<1>5. ASSUME NEW s, NotifyChanged(t, s) PROVE Others(t)
  BY <1>5 DEF NotifyChanged, ThreadsInv, Others
<1>6. ASSUME NEW p, NEW q, task' = [task EXCEPT ![t].pc = p, ![t].then = q] PROVE Others(t)
  BY <1>6 DEF ThreadsInv, Others
<1>7. ASSUME NEW b, Obtained(t, b) PROVE Others(t)
  BY <1>1, <1>3, <1>7, EndWalks DEF Obtained
<1>8. ASSUME Unobtained(t) PROVE Others(t)
  BY <1>1, <1>3, <1>4, <1>8 DEF Unobtained
<1>9. CASE Reuse(t) \/ Lock(t) \/ Create(t) \/ GetPermit(t) \/ Place(t) \/ AwaitFactory(t)
  BY <1>1, <1>2, <1>7, <1>8, <1>9 DEF Reuse, Lock, Create, GetPermit, Place, AwaitFactory
<1>10. CASE Finish(t) \/ Discard(t) \/ Abandon(t)
  BY <1>1, <1>3, <1>8, <1>10 DEF Finish, Discard, Abandon
<1>11. CASE Peek(t)
  <2>1. ASSUME NEW h, task' = [task EXCEPT ![t].pc = "lookup", ![t].req = h] PROVE Others(t)
    BY <2>1 DEF ThreadsInv, Others
  <2> QED
    BY <1>3, <1>11, <2>1 DEF Peek
<1>12. CASE Take(t)
  <2>1. ASSUME NEW h, task' = [task EXCEPT ![t].pc = "check", ![t].owed = h] PROVE Others(t)
    BY <2>1 DEF ThreadsInv, Others
  <2> QED
    BY <1>6, <1>12, <2>1 DEF Take
<1>13. CASE Lookup(t) \/ Dequeue(t) \/ Check(t) \/ Clean(t) \/ Hand(t) \/ Refuse(t)
  BY <1>1, <1>3, <1>4, <1>6, <1>13 DEF Lookup, Dequeue, Check, Clean, Hand, Refuse
<1>14. CASE Return(t) \/ Reset(t) \/ Settle(t) \/ Report(t) \/ CancelPlugin(t) \/ Later(t)
  BY <1>1, <1>3, <1>14 DEF Return, Reset, Settle, Report, CancelPlugin, Later
<1>15. CASE Destroy(t) \/ Destroyer(t) \/ Destroyed(t)
  BY <1>1, <1>3, <1>5, <1>15 DEF Destroy, Destroyer, Destroyed
<1> QED
  BY <1>9, <1>10, <1>11, <1>12, <1>13, <1>14, <1>15 DEF Advance

LEMMA GiveUpAside ==
  ASSUME ThreadsInv, Calls, NEW r \in Requests, GiveUp(r)
  PROVE  Elsewhere
<1>1. /\ phase[r] = "waiting" /\ r \in Impatient /\ Fail({r})
      /\ UNCHANGED <<entry, revoked, task, handle, stopped>>
  BY DEF GiveUp
<1>2. \A q \in Requests : phase'[q] = IF q = r THEN "failed" ELSE phase[q]
  BY <1>1, FailMoves
<1>3. Gentle
  BY <1>1, <1>2 DEF Gentle, Ready, Status, Given
<1>4. ~Orderly
  BY <1>1 DEF Orderly
<1> QED
  BY <1>1, <1>3, <1>4, GentleAside

LEMMA SeizeLocks ==
  ASSUME ThreadsInv, Calls, scene' = scene, Locks, NEW r \in Requests, Seize(r)
  PROVE  Locks'
<1>1. PICK b \in Browsers : b = task[r].br /\ entry[b].holder # None
  BY DEF Seize, Locks, SeizeInv
<1>2. /\ At(r, "seize") /\ Alone(r) /\ r \in Takers /\ phase[r] = "calling" /\ r \in Threads
      /\ UNCHANGED <<queue, stopped>> /\ task' = [task EXCEPT ![r] = NoTask] /\ DOMAIN entry = Browsers
  BY CallFacts DEF Seize, Locks, SeizeInv, OwnOK, ThreadsInv
<1>3. \A w \in Workers : task'[w] = task[w] /\ ~Prompt(w)
  BY <1>2, SceneFacts DEF Alone, ThreadsInv
<1>4. \A q \in Requests \ {r} : task'[q] = task[q] /\ ~Prompt(q)
  BY <1>2 DEF Alone, ThreadsInv
<1>5. task'[r].pc # "seize"
  BY <1>2, NoTaskCall DEF ThreadsInv
<1>6. SeizeInv' /\ WorkInv'
  <2>1. \A q \in Requests : ~At(q, "seize")'
    BY <1>4, <1>5 DEF Prompt, Outside
  <2>2. SeizeInv'
    BY <2>1 DEF SeizeInv
  <2>3. WorkInv'
    BY <1>3 DEF WorkInv, Locks
  <2> QED
    BY <2>2, <2>3
<1>7. ~Mine /\ ~Mine'
  BY <1>2, SceneSame DEF Mine
<1>8. \/ /\ entry'[b] = LockedBy(r) /\ Ready(b) /\ phase'[r] = "resolved" /\ handle'[r] = b
      \/ entry'[b] = entry[b]
  BY <1>1, <1>2, ResolveMoves DEF Seize, Becomes
<1>9. /\ \A c \in Browsers \ {b} : entry'[c] = entry[c]
      /\ \A q \in Requests \ {r} : phase'[q] = phase[q] /\ handle'[q] = handle[q]
  BY <1>1, <1>2, ResolveMoves, FailMoves DEF Seize, Becomes
<1>10. ASSUME NEW w \in Workers PROVE WorkerAt(w)'
  <2>1. task'[w] = task[w] /\ task[w].pc \notin {"dequeue", "settle"} /\ WorkerAt(w)
    BY <1>3 DEF Prompt, Outside, Locks
  <2>2. HeadAt(w)' /\ DequeueAt(w)'
    BY <1>2, <2>1, SceneSame DEF WorkerAt, HeadAt, DequeueAt, Owing
  <2>3. ResetAt(w)'
    <3> SUFFICES ASSUME At(w, "reset") PROVE entry'[task[w].br] = InReset(task[w].br)
      BY <2>1 DEF ResetAt, InReset
    <3>1. entry[task[w].br] = InReset(task[w].br) /\ task[w].br \in Browsers
      BY CallFacts DEF Locks, WorkerAt, ResetAt, ThreadOK, Named
    <3>2. task[w].br # b
      BY <1>1, <3>1 DEF InReset, LockedBy
    <3> QED
      BY <1>9, <3>1, <3>2
  <2>4. AimAt(w)'
    BY <1>7 DEF AimAt
  <2> QED
    BY <2>2, <2>3, <2>4 DEF WorkerAt
<1>11. HoldsInv'
  BY <1>7 DEF HoldsInv
<1>12. ASSUME Sure, NEW c \in Browsers, Status(c)' = "locked"
       PROVE  Settled(c)' \/ \E w \in Workers : Handling(w, c)'
  <2>1. CASE entry'[c] = entry[c]
    <3>1. Settled(c) \/ \E w \in Workers : Handling(w, c)
      BY <1>12, <2>1 DEF Locks, LocksInv, Status
    <3>2. Settled(c) => Settled(c)'
      BY <1>2, <1>9, <2>1 DEF Settled, Given, LockedBy
    <3> QED
      BY <1>3, <3>1, <3>2 DEF Handling
  <2>2. CASE entry'[c] # entry[c]
    BY <1>8, <1>9, <2>2 DEF Settled, Given, LockedBy
  <2> QED
    BY <2>1, <2>2
<1>13. LocksInv'
  BY <1>12, SceneSame DEF LocksInv
<1>14. StopInv'
  <2>1. \A c \in Browsers : Ready(c)' => Ready(c)
    BY <1>8, <1>9 DEF Ready, Status
  <2> QED
    BY <1>2, <1>3, <2>1 DEF StopInv, Locks
<1> QED
  BY <1>6, <1>10, <1>11, <1>13, <1>14 DEF Locks

\* A step of the only job keeps Locks.
LEMMA WorkerLocks ==
  ASSUME Inv, Calls, scene' = scene, Locks, NEW w \in Workers, Advance(w),
         \A r \in Requests : ~At(r, "seize")
  PROVE  Locks'
<1>0. ThreadsInv /\ w \in Threads
  BY DEF Inv
<1>1. ~At(w, "idle")
  BY <1>0, AdvancePrompt
<1>2. \A u \in Workers \ {w} : At(u, "idle") /\ task[u] = NoTask
  BY <1>0, <1>1, CallFacts DEF Locks, WorkInv, CallOK
<1>3. \A u \in Workers \ {w}, b \in Browsers : ~Handling(u, b) /\ b \notin task[u].todo /\ ~At(u, "destroy")
  BY <1>2, NoTaskCall DEF Handling, Handles, Handing
<1>4. AtWork(w)
  <2>1. LockAt(w)
    BY <1>3 DEF LockAt, Locks, LocksInv
  <2>2. StopAt(w)
    BY <1>3 DEF StopAt, Locks, StopInv
  <2> QED
    BY <2>1, <2>2 DEF AtWork, Locks
<1>5. Worked(w)
  BY <1>4, AdvanceWork
<1>6. Others(w)
  BY <1>0, AdvanceOthers
<1>7. \A u \in Workers \ {w} : task'[u] = NoTask
  BY <1>2, <1>6 DEF Others
<1>8. SeizeInv' /\ WorkInv'
  <2>1. \A r \in Requests : ~At(r, "seize")'
    BY <1>0, <1>6, SceneFacts DEF Others
  <2>2. SeizeInv'
    BY <2>1 DEF SeizeInv
  <2>3. WorkInv'
    BY <1>7, NoTaskCall DEF WorkInv
  <2> QED
    BY <2>2, <2>3
<1>9. ASSUME NEW u \in Workers PROVE WorkerAt(u)'
  BY <1>5, <1>7, NoTaskCall DEF Worked, WorkerAt, HeadAt, DequeueAt, ResetAt, AimAt, Serving, Renewing, Handing
<1>10. LocksInv'
  BY <1>5 DEF Worked, LockAt, LocksInv
<1>11. StopInv'
  BY <1>5 DEF Worked, StopAt, StopInv
<1> QED
  BY <1>5, <1>8, <1>9, <1>10, <1>11 DEF Locks, Worked

\* Nobody is at work when a job or a release starts, and the outside has its turn.
LEMMA NobodyAtWork ==
  ASSUME ThreadsInv, Calls, Locks, AtOnce = 1, FewAtWork
  PROVE  \A w \in Workers : At(w, "idle") /\ task[w] = NoTask
<1> DEFINE Working == {t \in Workers : ~At(t, "idle")}
<1>1. SUFFICES ASSUME NEW w \in Working PROVE FALSE
  BY CallFacts DEF CallOK
<1>2. Working = {w}
  BY DEF Locks, WorkInv
<1>3. Cardinality(Working) = 1
  BY <1>2, FS_Singleton
<1> QED
  BY <1>3 DEF FewAtWork

\* How a job begins, when all was quiet before.
LEMMA BeginAt ==
  ASSUME scene' = scene, entry' = entry, permits' = permits, line' = line, life' = life,
         \A r \in Requests : phase'[r] # "resolved", Turn,
         NEW t \in Workers, NEW a, NEW b, NEW q, NEW T,
         NEW p \in {"destroy", "return", "later", "cancelPlugin", "take"}, Starts(t, p, a, b, q, T),
         p = "later" => "batch" \in Hazards,
         T # {} => a = Requests,
         p \in {"return", "take"} => entry[b].holder \in a /\ Status(b) = "locked",
         p = "destroy" => \/ a = Requests
                          \/ Status(b) = "idle"
                          \/ entry[b].holder \in a /\ Status(b) = "locked"
  PROVE  WorkerAt(t)' /\ Others(t)
<1>1. /\ Others(t) /\ task'[t].pc = p /\ task'[t].aim = a /\ task'[t].br = b /\ task'[t].todo = T
  BY DEF Starts
<1>2. HeadAt(t)' /\ DequeueAt(t)' /\ ResetAt(t)'
  BY <1>1 DEF HeadAt, DequeueAt, ResetAt, Serving, Renewing
<1>3. \A u \in Threads \ {t} : ~Prompt(u)'
  BY <1>1 DEF Turn, Prompt, Others
<1>4. Alone(t)'
  BY <1>3 DEF Alone
<1>5. AimAt(t)'
  <2> SUFFICES ASSUME Mine
               PROVE  /\ ~At(t, "later")'
                      /\ T # {} => a = Requests
                      /\ p \in Handing \cup {"take", "return"} => Held(t)'
                      /\ p = "destroy" => a = Requests \/ Held(t)' \/ Status(b) = "idle"
    BY <1>1, <1>4, SceneSame DEF AimAt, Status
  <2>1. entry[b].holder \in a /\ Status(b) = "locked" => Held(t)'
    BY <1>1 DEF Held, Status
  <2>2. p # "later"
    BY DEF Mine
  <2> QED
    BY <1>1, <2>1, <2>2 DEF Handing
<1> QED
  BY <1>1, <1>2, <1>5 DEF WorkerAt

LEMMA BeginWorker ==
  ASSUME ThreadsInv, Calls, scene' = scene, entry' = entry, permits' = permits, line' = line, life' = life,
         \A r \in Requests : phase'[r] # "resolved",
         NEW t \in Workers, Turn,
         \/ Job1(t) \/ Job2(t) \/ Job3(t) \/ Job4(t)
         \/ \E B \in SUBSET Browsers : Job5(t, B)
         \/ \E r \in Requests : Job6(t, r)
  PROVE  WorkerAt(t)' /\ Others(t)
<1>1. CASE Job1(t)
  BY <1>1, BeginAt DEF Job1
<1>2. CASE Job2(t)
  BY <1>2, BeginAt DEF Job2
<1>3. CASE Job3(t)
  BY <1>3, BeginAt DEF Job3
<1>4. CASE Job4(t)
  <2>1. PICK mine \in SUBSET Requests :
          \/ \E b \in Present :
               /\ entry[b].holder \in mine
               /\ \/ Starts(t, "return", mine, b, <<"cancelPlugin", "peek">>, {})
                  \/ /\ "batch" \in Hazards
                     /\ Starts(t, "later", mine, b, <<"return", "cancelPlugin", "peek">>, {})
          \/ Starts(t, "cancelPlugin", mine, None, <<>>, {})
    BY <1>4 DEF Job4
  <2>2. ASSUME NEW b \in Present, entry[b].holder \in mine PROVE Status(b) = "locked"
    BY <2>2, SceneFacts DEF Present, Calls, EntryOK
  <2> QED
    BY <2>1, <2>2, BeginAt
<1>5. ASSUME NEW B \in SUBSET Browsers, Job5(t, B) PROVE WorkerAt(t)' /\ Others(t)
  BY <1>5, BeginAt DEF Job5
<1>6. ASSUME NEW r \in Requests, Job6(t, r) PROVE WorkerAt(t)' /\ Others(t)
  <2>1. entry[handle[r]].holder \in {r} /\ Status(handle[r]) = "locked"
    BY <1>6 DEF Job6, HoldsLock, LockedBy, Status
  <2> QED
    BY <1>6, <2>1, BeginAt DEF Job6
<1> QED
  BY <1>1, <1>2, <1>3, <1>4, <1>5, <1>6

LEMMA BeginLocks ==
  ASSUME ThreadsInv, Calls, Locks, AtOnce = 1, FewAtWork, Turn,
         UNCHANGED <<scene, entry, handle, revoked, permits, line, life>>,
         NEW t \in Workers,
         \/ task' = task
         \/ Job1(t) \/ Job2(t) \/ Job3(t) \/ Job4(t)
         \/ \E B \in SUBSET Browsers : Job5(t, B)
         \/ \E r \in Requests : Job6(t, r),
         \A r \in Requests : phase'[r] \in Given => phase[r] = phase'[r],
         \A r \in Requests : phase[r] \in Given =>
           phase'[r] = phase[r] \/ (HoldsLock(r) => Handling(t, handle[r])'),
         stopped' => \A b \in Browsers : Ready(b) =>
                       b \in task'[t].todo \/ (At(t, "destroy")' /\ task'[t].br = b)
  PROVE  Locks'
<1>1. \A w \in Workers : At(w, "idle") /\ task[w] = NoTask
  BY NobodyAtWork
<1>2. /\ \A r \in Requests : phase'[r] # "resolved"
      /\ \A u \in Threads : ~Prompt(u)
  BY DEF Turn, Given
<1>3. WorkerAt(t)' /\ Others(t)
  <2>1. CASE task' = task
    BY <1>1, <2>1, NoTaskCall DEF WorkerAt, HeadAt, DequeueAt, ResetAt, AimAt, Serving, Renewing, Handing,
       Others, ThreadsInv
  <2>2. CASE task' # task
    BY <1>2, <2>2, BeginWorker
  <2> QED
    BY <2>1, <2>2
<1>4. \A w \in Workers \ {t} : task'[w] = NoTask
  BY <1>1, <1>3 DEF Others
<1>5. ASSUME NEW w \in Workers PROVE WorkerAt(w)'
  BY <1>3, <1>4, NoTaskCall DEF WorkerAt, HeadAt, DequeueAt, ResetAt, AimAt, Serving, Renewing, Handing
<1>6. WorkInv'
  BY <1>4, NoTaskCall DEF WorkInv
<1>7. SeizeInv'
  <2>1. \A r \in Requests : task'[r] = task[r] /\ ~At(r, "seize")
    BY <1>2, <1>3, SceneFacts DEF Others, Prompt, Outside
  <2> QED
    BY <2>1 DEF SeizeInv
<1>8. HoldsInv'
  BY SceneSame DEF HoldsInv, Locks
<1>9. LocksInv'
  <2> SUFFICES ASSUME Sure, NEW b \in Browsers, Status(b) = "locked"
               PROVE  Settled(b)' \/ \E w \in Workers : Handling(w, b)'
    BY SceneSame DEF LocksInv, Status
  <2>1. Settled(b)
    BY <1>1, NoTaskCall DEF Locks, LocksInv, Handling, Handles, Handing
  <2>2. PICK r \in Requests : entry[b] = LockedBy(r) /\ handle[r] = b /\ phase[r] \in Given
    BY <2>1 DEF Settled
  <2>3. HoldsLock(r)
    BY <2>2 DEF HoldsLock
  <2> QED
    BY <2>2, <2>3 DEF Settled, LockedBy
<1>10. StopInv'
  BY DEF StopInv, Ready, Status
<1> QED
  BY <1>5, <1>6, <1>7, <1>8, <1>9, <1>10 DEF Locks

\* Requests that wait have no handle.
LEMMA FailWaiting ==
  ASSUME Calls, NEW R, Fail(R),
         \A r \in R : \E s \in Sessions : r \in ToSet(queue[s])
  PROVE  \A r \in Requests : phase'[r] = phase[r] \/ (phase[r] = "waiting" /\ phase'[r] = "failed")
<1>1. \A s \in Sessions : \A r \in ToSet(queue[s]) : phase[r] = "waiting"
  BY DEF Calls, QueueOK, ToSet
<1> QED
  BY <1>1, FailMoves

LEMMA StartJobLocks ==
  ASSUME ThreadsInv, Calls, Locks, AtOnce = 1, FewAtWork, scene' = scene, NEW t \in Workers, StartJob(t)
  PROVE  Locks'
<1>1. /\ Turn /\ ~stopped /\ UNCHANGED <<entry, handle, revoked, permits, line, life>>
  BY DEF StartJob
<1>2. CASE (Job1(t) \/ Job2(t) \/ Job3(t) \/ Job4(t)) /\ UNCHANGED <<queue, stopped, phase>>
  BY <1>1, <1>2, BeginLocks
<1>3. ASSUME NEW s \in Sessions, Fail(ToSet(queue[s])), stopped' = stopped, task' = task \/ Job5(t, Of(s))
      PROVE  Locks'
  <2>1. \A r \in Requests : phase'[r] = phase[r] \/ (phase[r] = "waiting" /\ phase'[r] = "failed")
    BY <1>3, FailWaiting
  <2>2. Of(s) \in SUBSET Browsers
    BY DEF Of, Present
  <2>3. task' = task \/ \E B \in SUBSET Browsers : Job5(t, B)
    BY <1>3, <2>2
  <2> HIDE DEF Job5
  <2> QED
    BY <1>1, <1>3, <2>1, <2>3, BeginLocks DEF Given
<1>4. ASSUME Fail(UNION {ToSet(queue[s]) : s \in Sessions}),
             (task' = task /\ Present = {}) \/ Job5(t, Present)
      PROVE  Locks'
  <2>1. \A r \in Requests : phase'[r] = phase[r] \/ (phase[r] = "waiting" /\ phase'[r] = "failed")
    BY <1>4, FailWaiting
  <2>2. Present \in SUBSET Browsers /\ \A b \in Browsers : Ready(b) => b \in Present
    BY DEF Present, Ready
  <2>3. \A b \in Browsers : Ready(b) =>
                       b \in task'[t].todo \/ (At(t, "destroy")' /\ task'[t].br = b)
    BY <1>4, <2>2 DEF Job5, Starts
  <2>4. task' = task \/ \E B \in SUBSET Browsers : Job5(t, B)
    BY <1>4, <2>2
  <2> QED
    BY <1>1, <2>1, <2>3, <2>4, BeginLocks DEF Given
<1> QED
  BY <1>2, <1>3, <1>4, StartJobStarts

LEMMA ReleaseLocks ==
  ASSUME ThreadsInv, Calls, Locks, AtOnce = 1, FewAtWork, scene' = scene, NEW t \in Workers,
         NEW r \in Requests, Release(t, r)
  PROVE  Locks'
<1>1. /\ Turn /\ UNCHANGED <<entry, handle, revoked, permits, line, life, stopped>>
      /\ phase[r] \in {"granted", "released"} /\ phase' = [phase EXCEPT ![r] = "released"]
  BY DEF Release
<1>2. \A q \in Requests : phase'[q] = IF q = r THEN "released" ELSE phase[q]
  BY <1>1 DEF ThreadsInv
<1>3. \A w \in Workers : task[w] = NoTask
  BY NobodyAtWork
<1>4. stopped => \A b \in Browsers : ~Ready(b)
  BY <1>3, NoTaskCall DEF Locks, StopInv
<1>5. CASE task' = task /\ (stopped \/ ~HoldsLock(r))
  <2>1. ~HoldsLock(r)
    BY <1>1, <1>4, <1>5 DEF HoldsLock, LockedBy, Ready, Status, ThreadsInv
  <2> QED
    BY <1>1, <1>2, <1>4, <1>5, <2>1, BeginLocks DEF Given
<1>6. CASE Job6(t, r)
  <2>1. Handling(t, handle[r])'
    BY <1>1, <1>6 DEF Job6, Starts, Handling, Handles
  <2> QED
    BY <1>1, <1>2, <1>4, <1>6, <2>1, BeginLocks DEF Given
<1> QED
  BY <1>5, <1>6, ReleaseStarts

LEMMA SameLocks ==
  ASSUME Locks, UNCHANGED vars
  PROVE  Locks'
<1>1. /\ UNCHANGED <<scene, entry, queue, stopped, phase, handle, task, revoked, permits, line, life>>
      /\ Mine' = Mine /\ Sure' = Sure /\ Orderly' = Orderly /\ Takers' = Takers
  BY SceneSame DEF vars
<1>2. \A t : Prompt(t)' = Prompt(t)
  BY <1>1 DEF Prompt
<1>3. SeizeInv' /\ WorkInv'
  BY <1>1, <1>2 DEF Locks, SeizeInv, WorkInv, Alone
<1>4. ASSUME NEW w \in Workers PROVE WorkerAt(w)'
  <2>1. HeadAt(w)' /\ DequeueAt(w)' /\ ResetAt(w)'
    BY <1>1 DEF Locks, WorkerAt, HeadAt, DequeueAt, ResetAt, Owing
  <2>2. AimAt(w)'
    BY <1>1, <1>2 DEF Locks, WorkerAt, AimAt, Held, Alone, Status
  <2> QED
    BY <2>1, <2>2 DEF WorkerAt
<1>5. HoldsInv' /\ LocksInv' /\ StopInv'
  BY <1>1 DEF Locks, HoldsInv, LocksInv, StopInv, Settled, Handling, Status, Ready
<1> QED
  BY <1>3, <1>4, <1>5 DEF Locks

LEMMA StepLocks == Inv /\ Calls /\ AtOnce = 1 /\ Locks /\ [Next]_vars => Locks'
<1> SUFFICES ASSUME Inv, Calls, AtOnce = 1, Locks, Next PROVE Locks'
  BY SameLocks
<1>0. ThreadsInv /\ scene' = scene
  BY DEF Inv, Next
<1>1. ASSUME NEW r \in Requests, At(r, "seize") PROVE Locks'
  BY <1>0, <1>1, SeizeFirst, SeizeLocks DEF Locks
<1>2. CASE \A r \in Requests : ~At(r, "seize")
  <2>1. ASSUME NEW w \in Workers, Advance(w) PROVE Locks'
    BY <1>0, <1>2, <2>1, WorkerLocks
  <2>2. ASSUME NEW w \in Workers, Alone(w), At(w, "destroy") PROVE Locks'
    <3>1. Prompt(w) /\ w \in Threads /\ w \notin Requests
      BY <1>0, <2>2, SceneFacts DEF Prompt, Outside
    <3> QED
      BY <2>1, <2>2, <3>1, AloneFirst
  <2>3. CASE Elsewhere /\ \A w \in Workers : Alone(w) => ~At(w, "destroy")
    BY <1>0, <1>2, <2>3, AsideStep
  <2>4. ASSUME NEW r \in Requests, Caller(r)
        PROVE  Elsewhere \/ Locks'
    <3>1. ~Seize(r)
      BY <1>2 DEF Seize
    <3> QED
      BY <1>0, <2>4, <3>1, AcquireAside, EnqueueAside, GiveUpAside, BuildHandleAside, TakeoverLocks DEF Caller
  <2>5. ASSUME NEW t \in Requests, Advance(t) PROVE Elsewhere
    BY <1>0, <2>5, AdvanceAside
  <2>6. ASSUME FewAtWork, NEW t \in Workers, StartJob(t) \/ \E r \in Requests : Release(t, r) PROVE Locks'
    BY <1>0, <2>6, StartJobLocks, ReleaseLocks
  <2>7. ASSUME NEW b \in Browsers, Launch(b) \/ ReapCreated(b) PROVE Elsewhere
    BY <2>7, OutsideAside DEF Launch, ReapCreated
  <2> QED
    BY <2>1, <2>2, <2>3, <2>4, <2>5, <2>6, <2>7 DEF Next
<1> QED
  BY <1>1, <1>2

LEMMA InitLocks == Init => Locks
<1> SUFFICES ASSUME Init PROVE Locks
  OBVIOUS
<1>1. \A t \in Threads : task[t] = NoTask
  BY DEF Init
<1>2. \A b \in Browsers : Status(b) = "none"
  BY DEF Init, Status, NoEntry
<1>3. \A r \in Requests : phase[r] = "new"
  BY DEF Init
<1>4. SeizeInv /\ WorkInv
  BY <1>1, NoTaskCall DEF SeizeInv, WorkInv
<1>5. \A w \in Workers : WorkerAt(w)
  BY <1>1, NoTaskCall DEF WorkerAt, HeadAt, DequeueAt, ResetAt, AimAt, Serving, Renewing, Handing
<1>6. HoldsInv
  BY <1>3 DEF HoldsInv, Given
<1>7. LocksInv /\ StopInv
  BY <1>2 DEF LocksInv, StopInv, Ready
<1> QED
  BY <1>4, <1>5, <1>6, <1>7 DEF Locks

\* Order is kept.
LEMMA StepOrder == Inv /\ Order /\ [Next]_vars => Order'
<1>1. [Next]_vars => AtOnce' = AtOnce
  BY SceneSame DEF Next, vars
<1> QED
  BY <1>1, StepCalls, StepLocks DEF Order

LEMMA OrderAgrees == Inv /\ Order => LocksMatchHandles
<1> SUFFICES ASSUME Inv, Order PROVE LocksMatchHandles
  OBVIOUS
<1>0. ThreadsInv /\ Calls
  BY DEF Inv, Order
<1>1. ASSUME AtOnce = 1, NEW t \in Threads, At(t, "reset") PROVE entry[task[t].br].holder = None
  <2>1. t \notin Requests
    BY <1>0, <1>1, CallFacts DEF OwnOK, OwnSteps
  <2>2. entry[task[t].br] = InReset(task[t].br)
    BY <1>1, <2>1 DEF Order, Locks, WorkerAt, ResetAt
  <2> QED
    BY <2>2 DEF InReset, LockedBy
<1>2. ASSUME Mine PROVE HandleHoldsLock
  BY <1>2 DEF Mine, Orderly, Order, Locks, HoldsInv, HandleHoldsLock, Given
<1>3. ASSUME Sure, Quiet PROVE LocksHaveHandles
  <2>1. \A w \in Workers, b \in Browsers : ~Handling(w, b)
    <3>1. \A w \in Workers : task[w] = NoTask
      BY <1>0, <1>3, CallFacts DEF Quiet, CallOK
    <3> QED
      BY <3>1, NoTaskCall DEF Handling, Handles, Handing
  <2> QED
    BY <1>3, <2>1 DEF Sure, Orderly, Order, Locks, LocksInv, Settled, LocksHaveHandles, Given
<1> QED
  BY <1>1, <1>2, <1>3 DEF LocksMatchHandles, ResetUndisturbed, Mine, Sure

\* Handles and locks agree.  One job at a time leaves a reset alone.  Requests that
\* are served in their turn keep their locks, unless somebody takes a browser over
\* while it is on its way to a waiter, or a job comes to a browser late; and no lock
\* is left without a handle when nothing is going on, unless a lookup throws on the
\* way to a waiter (lockBrowser, handoffLock, releaseBrowser, process, evictIdleTimeout).
THEOREM HandlesAndLocksAgree == Spec => []LocksMatchHandles
<1>1. Init => Inv /\ Order
  BY InitInv, InitCalls, InitLocks DEF Order
<1>2. Inv /\ Order /\ [Next]_vars => Inv' /\ Order'
  BY StepInv, StepOrder
<1>3. Inv /\ Order => LocksMatchHandles
  BY OrderAgrees
<1> QED
  BY <1>1, <1>2, <1>3, PTL DEF Spec
-----------------------------------------------------------------------------
(* Types.  The semaphore's line holds everybody who waits for a permit.    *)

LineInv ==
  /\ line \in Seq(Threads) /\ stopped \in BOOLEAN
  /\ \A t \in Threads : At(t, "permit") => \E i \in DOMAIN line : line[i] = t

\* Nobody joins the line, and nobody leaves it.
LineKept ==
  /\ line' = line /\ (stopped' = stopped \/ stopped' = TRUE)
  /\ \A t \in Threads : At(t, "permit")' => At(t, "permit")
Clear(t) == Others(t) /\ task'[t].pc # "permit"

LEMMA KeptLine == LineInv /\ LineKept => LineInv'
BY DEF LineInv, LineKept

LEMMA ClearKept ==
  ASSUME NEW t \in Threads, Clear(t), line' = line, stopped' = stopped \/ stopped' = TRUE
  PROVE  LineKept
BY DEF Clear, Others, LineKept

LEMMA ClearMoves ==
  ASSUME ThreadsInv, NEW t \in Threads
  PROVE  /\ \A p : p # "permit" /\ Goto(t, p) => Clear(t)
         /\ \A p, b : p # "permit" /\ GotoWith(t, p, b) => Clear(t)
         /\ \A k : k.pc # "permit" /\ task' = [task EXCEPT ![t] = k] => Clear(t)
         /\ Resume(t) /\ ~At(t, "idle") => Clear(t)
         /\ NextPass(t) => Clear(t)
         /\ \A s : NotifyChanged(t, s) => Clear(t)
<1>1. \A p : p # "permit" /\ Goto(t, p) => Clear(t)
  BY GotoWalks DEF Clear, Walks, Goes
<1>2. \A p, b : p # "permit" /\ GotoWith(t, p, b) => Clear(t)
  BY GotoWithWalks DEF Clear, Goes
<1>3. \A k : k.pc # "permit" /\ task' = [task EXCEPT ![t] = k] => Clear(t)
  BY EndWalks DEF Clear
<1>4. Resume(t) /\ ~At(t, "idle") => Clear(t)
  BY ResumeOK DEF Clear, Follow
<1>5. NextPass(t) => Clear(t)
  BY PassWalks DEF Clear, Walks, Goes
<1>6. ASSUME NEW s, NotifyChanged(t, s) PROVE Clear(t)
  BY <1>6 DEF NotifyChanged, ThreadsInv, ThreadOK, Clear, Others, Fields
<1> QED
  BY <1>1, <1>2, <1>3, <1>4, <1>5, <1>6

LEMMA ClearAnswers ==
  ASSUME ThreadsInv, NEW t \in Threads, ~At(t, "idle")
  PROVE  /\ \A b : Obtained(t, b) => Clear(t)
         /\ Unobtained(t) => Clear(t)
BY ClearMoves, NoTaskCall DEF Obtained, Unobtained

LEMMA CreateLine ==
  ASSUME ThreadsInv, LineInv, NEW t \in Threads, Create(t)
  PROVE  LineInv'
<1>1. stopped' = stopped /\ ~At(t, "idle")
  BY DEF Create
<1>2. CASE Unobtained(t) /\ line' = line
  BY <1>1, <1>2, ClearAnswers, ClearKept, KeptLine
<1>3. CASE Goto(t, "permit") /\ line' = Append(line, t)
  <2>1. Others(t) /\ line \in Seq(Threads)
    BY <1>3, GotoWalks DEF Walks, Goes, LineInv
  <2>2. /\ line' \in Seq(Threads) /\ line'[Len(line) + 1] = t /\ Len(line) + 1 \in DOMAIN line'
        /\ \A i \in DOMAIN line : i \in DOMAIN line' /\ line'[i] = line[i]
    BY <1>3, <2>1
  <2>3. ASSUME NEW u \in Threads, At(u, "permit")' PROVE \E i \in DOMAIN line' : line'[i] = u
    BY <2>1, <2>2, <2>3 DEF Others, LineInv
  <2> QED
    BY <1>1, <2>2, <2>3 DEF LineInv
<1> QED
  BY <1>2, <1>3 DEF Create

LEMMA GetPermitLine ==
  ASSUME ThreadsInv, LineInv, NEW t \in Threads, GetPermit(t)
  PROVE  LineInv'
<1>1. /\ Others(t) /\ task'[t].pc = "place" /\ line \in Seq(Threads)
      /\ stopped' = stopped /\ line' = Tail(line) /\ Head(line) = t /\ At(t, "permit")
  BY GotoWalks DEF GetPermit, Walks, Goes, LineInv
<1>2. line # <<>>
  BY <1>1 DEF LineInv
<1>3. line' \in Seq(Threads) /\ DOMAIN line = 1..Len(line) /\ DOMAIN line' = 1..(Len(line) - 1)
  BY <1>1, <1>2
<1>4. ASSUME NEW u \in Threads, At(u, "permit")' PROVE \E i \in DOMAIN line' : line'[i] = u
  <2>1. u # t /\ At(u, "permit")
    BY <1>1, <1>4 DEF Others
  <2>2. PICK i \in DOMAIN line : line[i] = u
    BY <2>1 DEF LineInv
  <2>3. i # 1
    BY <1>1, <1>2, <2>1, <2>2
  <2>4. i - 1 \in DOMAIN line' /\ line'[i - 1] = line[i]
    BY <1>1, <1>2, <1>3, <2>3
  <2> QED
    BY <2>2, <2>4
<1> QED
  BY <1>1, <1>3, <1>4 DEF LineInv

LEMMA AdvanceLine ==
  ASSUME ThreadsInv, LineInv, NEW t \in Threads, Advance(t)
  PROVE  LineInv'
<1>1. CASE Create(t)
  BY <1>1, CreateLine
<1>2. CASE GetPermit(t)
  BY <1>2, GetPermitLine
<1>3. CASE Reuse(t) \/ Place(t) \/ Discard(t) \/ Destroyer(t) \/ Report(t) \/ Reset(t)
  <2>1. Clear(t)
    BY <1>3, ClearMoves DEF Reuse, Place, Discard, Destroyer, Report, Reset
  <2> QED
    BY <1>3, <2>1, ClearKept, KeptLine DEF Reuse, Place, Discard, Destroyer, Report, Reset
<1>4. CASE Lock(t) \/ Abandon(t)
  <2>1. Clear(t)
    BY <1>4, ClearMoves, ClearAnswers DEF Lock, Abandon
  <2> QED
    BY <1>4, <2>1, ClearKept, KeptLine DEF Lock, Abandon
<1>5. CASE AwaitFactory(t) \/ Finish(t)
  <2>1. Clear(t)
    BY <1>5, ClearMoves DEF AwaitFactory, Finish
  <2> QED
    BY <1>5, <2>1, ClearKept, KeptLine DEF AwaitFactory, Finish
<1>6. CASE Lookup(t) \/ Dequeue(t) \/ Refuse(t) \/ Return(t) \/ Settle(t) \/ CancelPlugin(t) \/ Later(t)
  <2>1. Clear(t)
    BY <1>6, ClearMoves DEF Lookup, Dequeue, Refuse, Return, Settle, CancelPlugin, Later
  <2> QED
    BY <1>6, <2>1, ClearKept, KeptLine
       DEF Lookup, Dequeue, Refuse, Return, Settle, CancelPlugin, Later
<1>7. CASE Peek(t) \/ Take(t) \/ Check(t) \/ Clean(t) \/ Hand(t)
  <2>1. /\ ~At(t, "idle")
        /\ \/ task'[t].pc # "permit" /\ Others(t)
           \/ Resume(t)
    <3>0. DOMAIN task = Threads /\ DOMAIN task[t] = Fields /\ "pc" \in Fields
      BY DEF ThreadsInv, ThreadOK, Fields
    <3>1. CASE Peek(t)
      BY <3>0, <3>1 DEF Peek, Others
    <3>2. CASE Take(t)
      BY <3>0, <3>2 DEF Take, Others
    <3>3. CASE Check(t)
      BY <3>0, <3>3 DEF Check, Others
    <3>4. CASE Clean(t)
      BY <3>0, <3>4 DEF Clean, Others
    <3>5. CASE Hand(t)
      BY <3>0, <3>5 DEF Hand, Others
    <3> QED
      BY <1>7, <3>1, <3>2, <3>3, <3>4, <3>5
  <2>2. Clear(t)
    BY <2>1, ClearMoves DEF Clear
  <2> QED
    BY <1>7, <2>2, ClearKept, KeptLine DEF Peek, Take, Check, Clean, Hand
<1>8. CASE Destroy(t) \/ Destroyed(t)
  <2>1. Clear(t)
    BY <1>8, ClearMoves DEF Destroy, Destroyed
  <2> QED
    BY <1>8, <2>1, ClearKept, KeptLine DEF Destroy, Destroyed
<1> QED
  BY <1>1, <1>2, <1>3, <1>4, <1>5, <1>6, <1>7, <1>8 DEF Advance

LEMMA CallerLine ==
  ASSUME ThreadsInv, LineInv, NEW r \in Requests, Caller(r)
  PROVE  LineInv'
<1>0. r \in Threads
  BY DEF Threads
<1>1. CASE Acquire(r) \/ Takeover(r) \/ Seize(r) \/ Enqueue(r)
  <2>1. Clear(r)
    BY <1>0, <1>1, ClearMoves DEF Acquire, Takeover, Seize, Enqueue, NoTask, Job
  <2> QED
    BY <1>0, <1>1, <2>1, ClearKept, KeptLine DEF Acquire, Takeover, Seize, Enqueue
<1>2. CASE GiveUp(r) \/ BuildHandle(r)
  BY <1>2, KeptLine DEF GiveUp, BuildHandle, LineKept
<1> QED
  BY <1>1, <1>2 DEF Caller

LEMMA JobLine ==
  ASSUME ThreadsInv, LineInv, NEW t \in Threads,
         StartJob(t) \/ \E r \in Requests : Release(t, r)
  PROVE  LineInv'
<1>0. ASSUME task' = task, line' = line, stopped' = stopped \/ stopped' = TRUE PROVE LineInv'
  BY <1>0, KeptLine DEF LineKept
<1>2. ASSUME NEW r \in Requests, Release(t, r) PROVE LineInv'
  <2>1. line' = line /\ stopped' = stopped
    BY <1>2 DEF Release
  <2>2. task' = task \/ Clear(t)
    BY <1>2, ClearMoves DEF Release, Job, NoTask
  <2> QED
    BY <1>0, <2>1, <2>2, ClearKept, KeptLine
<1>3. ASSUME StartJob(t) PROVE LineInv'
  <2>0. \A aim, b, p : DOMAIN Job(aim, b, p) = Fields
    BY DEF Job, NoTask, Fields
  <2>1. line' = line /\ (stopped' = stopped \/ stopped' = TRUE)
    BY <1>3 DEF StartJob, StartDestroy, Sweep, Evict, StopPlugin, DestroyProfile, Stop
  <2>2. \A B : DestroyAll(t, B) => task' = task \/ Clear(t)
    BY ClearMoves DEF DestroyAll, Job, NoTask
  <2>3. \A b : StartDestroy(t, b) => Clear(t)
    BY ClearMoves DEF StartDestroy, Job, NoTask
  <2>4. \A k : DOMAIN k = Fields =>
               /\ Run(t, k, <<"return", "peek">>) => Clear(t)
               /\ Run(t, k, <<"destroy">>) => Clear(t)
               /\ Run(t, k, <<"return", "cancelPlugin", "peek">>) => Clear(t)
    <3>1. /\ Head(<<"return", "peek">>) = "return" /\ Head(<<"destroy">>) = "destroy"
          /\ Head(<<"return", "cancelPlugin", "peek">>) = "return"
      OBVIOUS
    <3>2. ASSUME NEW k, NEW calls, Run(t, k, calls), Head(calls) \in {"return", "destroy"},
                 DOMAIN k = Fields
          PROVE  Clear(t)
      BY <3>2, ClearMoves DEF Run, Fields
    <3> QED
      BY <3>1, <3>2
  <2>5. \A b : Sweep(t, b) \/ Evict(t, b) => Clear(t)
    BY <2>0, <2>4 DEF Sweep, Evict
  <2>6. \A r : StopPlugin(t, r) => Clear(t)
    BY <2>0, <2>4, ClearMoves DEF StopPlugin, NoTask
  <2>7. task' = task \/ Clear(t)
    BY <1>3, <2>2, <2>3, <2>5, <2>6 DEF StartJob, DestroyProfile, Stop
  <2> QED
    BY <1>0, <2>1, <2>7, ClearKept, KeptLine
<1> QED
  BY <1>2, <1>3

LEMMA StepLine == Inv /\ LineInv /\ [Next]_vars => LineInv'
<1> SUFFICES ASSUME Inv, LineInv, [Next]_vars PROVE LineInv'
  OBVIOUS
<1>0. ThreadsInv
  BY DEF Inv
<1>1. CASE UNCHANGED vars
  BY <1>1, KeptLine DEF vars, LineKept
<1>2. ASSUME NEW b \in Browsers, Launch(b) \/ ReapCreated(b) PROVE LineInv'
  BY <1>2, KeptLine DEF Launch, ReapCreated, LineKept
<1>3. CASE Next
  BY <1>0, <1>2, <1>3, AdvanceLine, CallerLine, JobLine DEF Next, Threads
<1> QED
  BY <1>1, <1>3

\* Every variable has its type; a thread at a step has what the step works on.
\* (The maps of GlobalPool and WaitQueue, and the locals of the async calls.)
THEOREM PoolTypes == Spec => []TypeOK
<1>1. Init => Inv /\ Calls /\ LineInv
  <2>1. ASSUME Init PROVE LineInv
    <3>1. \A t \in Threads : ~At(t, "permit")
      BY <2>1, NoTaskCall DEF Init
    <3>2. line = <<>> /\ stopped = FALSE
      BY <2>1 DEF Init
    <3>3. line \in Seq(Threads)
      BY <3>2
    <3> QED
      BY <3>1, <3>2, <3>3, Zenon DEF LineInv
  <2> QED
    BY <2>1, InitInv, InitCalls
<1>2. Inv /\ Calls /\ LineInv /\ [Next]_vars => Inv' /\ Calls' /\ LineInv'
  BY StepInv, StepCalls, StepLine
<1>3. Inv /\ Calls /\ LineInv => TypeOK
  <2> SUFFICES ASSUME Inv, Calls, LineInv PROVE TypeOK
    OBVIOUS
  <2>1. permits \in 0..MaxCreating
    <3>1. Cardinality(Holders) \in Nat
      BY FS_CardinalityType DEF Inv, Books
    <3> QED
      BY <3>1, PoolAssumption DEF Inv, Books
  <2>2. \A t \in Threads : /\ task[t].pc \in Steps
                           /\ task[t].br \in Browsers \cup {None}
                           /\ task[t].req \in Requests \cup {None}
                           /\ task[t].owed \in Requests \cup {None}
                           /\ task[t].aim \subseteq Requests
    BY DEF Inv, ThreadsInv, ThreadOK, Calls, CallOK
  <2>3. cancelled \subseteq Browsers
    BY DEF Inv, LivesInv
  <2> QED
    BY <2>1, <2>2, <2>3 DEF TypeOK, Inv, ThreadsInv, LivesInv, Books, Calls, QueueOK, EntryOK,
                            LineInv, Statuses
<1> QED
  BY <1>1, <1>2, <1>3, PTL DEF Spec
==============================================================================
