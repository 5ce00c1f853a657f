------------------------ MODULE ResourceCoordinator ------------------------
(***************************************************************************)
(* The in-process resource coordinator: named resources (a browser         *)
(* profile, say) owned by one owner token at a time, a FIFO queue of       *)
(* waiters per resource, acquires of several keys in sorted order, and the *)
(* request / approve / pause / complete protocol that hands a resource to  *)
(* another owner.  src/src/core/resource-coordinator.ts.                   *)
(*                                                                         *)
(* Every section the code runs under its async mutex is one action; what   *)
(* runs between two sections of one call is in that call's phase.          *)
(***************************************************************************)
EXTENDS Naturals, Sequences, FiniteSets, SequencesExt

CONSTANTS
  Keys,       \* resource keys, numbered in the order normalizeKeys sorts them
  Calls,      \* callers of acquire() (and of the low-level handoff())
  Requests,   \* callers of requestHandoff()
  Tokens,     \* owner tokens
  Token,      \* the token each caller presents
  Kind,       \* how a token's owner may be interrupted
  Parent,     \* the call whose lease context a nested call runs in, or None
  Timed,      \* calls whose wait timer may fire in this instance
  Signalled,  \* calls that carry an abort signal
  Takeovers,  \* calls that may replace an owner with the low-level handoff()
  MayClear,   \* whether clear() may be called
  None

Ops == Calls \cup Requests
Kinds == {"human", "fixed", "soft"}

ASSUME CoordinatorAssumption ==
  /\ Keys \subseteq Nat
  /\ IsFiniteSet(Calls) /\ IsFiniteSet(Requests)
  /\ Calls \cap Requests = {}
  /\ None \notin Tokens \cup Ops
  /\ Token \in [Ops -> Tokens]
  /\ Kind \in [Tokens -> Kinds]
  /\ Parent \in [Calls -> Calls \cup {None}]
  /\ \A c \in Calls : Parent[c] # None => Token[c] = Token[Parent[c]]
  /\ MayClear \in BOOLEAN

VARIABLES
  owner,    \* key -> the token that owns it, or None
  refs,     \* key -> how often the owner entered it
  queue,    \* key -> the calls waiting for it, oldest first
  phase,    \* op -> where its call stands
  want,     \* op -> the keys it asked for
  got,      \* op -> the keys its lease (or its unfinished acquire) covers
  aborted,  \* calls whose signal has fired
  request,  \* request -> its record in handoffRequests
  lost,     \* history: op -> keys of its lease that were given to another owner
  orphan    \* history: op -> keys granted to a call that had already given up

locks == <<owner, refs, queue>>
vars == <<owner, refs, queue, phase, want, got, aborted, request, lost, orphan>>

Phases == {"idle", "try", "waiting", "withdrawing", "orphaned", "rollback",
           "held", "releasing", "done", "failed"}
PendingStatuses == {"requested", "approved", "paused"}
Statuses == PendingStatuses \cup {"none", "completed", "canceled", "expired"}

\* status, the owner it was addressed to, what justified the approval, whether
\* expiresAt has passed.
HandoffRecord ==
  [status : Statuses, owner : Tokens \cup {None},
   grounds : {"none", "available", "interruptible", "owner", "host"},
   deadline : {"never", "ahead", "past"}]

NoRequest == [status |-> "none", owner |-> None, grounds |-> "none",
              deadline |-> "never"]

Init ==
  /\ owner = [k \in Keys |-> None]
  /\ refs = [k \in Keys |-> 0]
  /\ queue = [k \in Keys |-> <<>>]
  /\ phase = [o \in Ops |-> "idle"]
  /\ want = [o \in Ops |-> {}]
  /\ got = [o \in Ops |-> {}]
  /\ aborted = {}
  /\ request = [r \in Requests |-> NoRequest]
  /\ lost = [o \in Ops |-> {}]
  /\ orphan = [o \in Ops |-> {}]

-----------------------------------------------------------------------------
(* Acquiring: keys are taken one at a time, smallest first.                *)

IsAny(k, S) == k \in S  \* mutant: keys are taken in no particular order
IsFirst(k, S) == k \in S /\ \A j \in S : k <= j
IsLast(k, S) == k \in S /\ \A j \in S : j <= k

MayEnterUnqueued(k, t) == owner[k] = t \/ queue[k] = <<>>  \* mutant
MayEnter(k, t) == owner[k] \in {None, t}

AfterGrant(c, k) == IF want[c] = got[c] \cup {k} THEN "held" ELSE "try"

AfterFailure(c) == IF got[c] = {} THEN "failed" ELSE "rollback"

\* A nested call runs inside its parent's runExclusive body.
InContext(c) == Parent[c] \in {None} \cup {p \in Calls : phase[p] = "held"}

BeginAcquire(c) ==
  /\ phase[c] = "idle"
  /\ InContext(c)
  /\ \E K \in SUBSET Keys \ {{}} : want' = [want EXCEPT ![c] = K]
  /\ phase' = [phase EXCEPT ![c] = "try"]
  /\ UNCHANGED <<locks, got, aborted, request, lost, orphan>>

Enter(c, k) ==
  /\ MayEnter(k, Token[c])
  /\ owner' = [owner EXCEPT ![k] = Token[c]]
  /\ refs' = [refs EXCEPT ![k] = @ + 1]
  /\ got' = [got EXCEPT ![c] = @ \cup {k}]
  /\ phase' = [phase EXCEPT ![c] = AfterGrant(c, k)]
  /\ UNCHANGED queue

\* The signal is looked at once the waiter is queued; a signal that has already
\* fired leaves the waiter queued, without a listener, until Withdraw.
Enqueue(c, k) ==
  /\ ~MayEnter(k, Token[c])
  /\ queue' = [queue EXCEPT ![k] = Append(@, c)]
  /\ phase' = [phase EXCEPT ![c] =
                 IF c \in aborted THEN "withdrawing" ELSE "waiting"]
  /\ UNCHANGED <<owner, refs, got>>

TryAcquire(c, k) ==
  /\ phase[c] = "try"
  /\ IsFirst(k, want[c] \ got[c])
  /\ Enter(c, k) \/ Enqueue(c, k)
  /\ UNCHANGED <<want, aborted, request, lost, orphan>>

Abort(c) ==
  /\ c \in Signalled \ aborted
  /\ phase[c] \notin {"done", "failed"}
  /\ aborted' = aborted \cup {c}
  /\ UNCHANGED <<locks, phase, want, got, request, lost, orphan>>

\* cancelWaiter of a waiter nobody has granted yet.
CancelWaiter(c, k) ==
  /\ \E i \in DOMAIN queue[k] :
       /\ queue[k][i] = c
       /\ queue' = [queue EXCEPT ![k] = RemoveAt(@, i)]
  /\ phase' = [phase EXCEPT ![c] = AfterFailure(c)]
  /\ UNCHANGED <<owner, refs, want, got, aborted, request, lost, orphan>>

\* The wait timer or the abort listener wins against a grant.
GiveUp(c, k) ==
  /\ phase[c] = "waiting"
  /\ c \in Timed \cup aborted
  /\ CancelWaiter(c, k)

Withdraw(c, k) ==
  /\ phase[c] = "withdrawing"
  /\ CancelWaiter(c, k)

\* cancelWaiter finds the waiter resolved and returns; acquireOne throws anyway.
WithdrawTooLate(c) ==
  /\ phase[c] = "orphaned"
  /\ phase' = [phase EXCEPT ![c] = AfterFailure(c)]
  /\ UNCHANGED <<locks, want, got, aborted, request, lost, orphan>>

-----------------------------------------------------------------------------
(* Pending handoff requests.                                               *)

Pending(r) == request[r].status \in PendingStatuses
Overdue(r) == Pending(r) /\ request[r].deadline = "past"

Mark(rec, s) == [rec EXCEPT !.status = s]

\* mutant: only requests whose keys all lie in K expire.
ExpireInside(K, spared) ==
  [r \in Requests |->
     IF r \notin spared /\ Pending(r) /\ want[r] \subseteq K
     THEN Mark(request[r], "expired") ELSE request[r]]

\* Every pending request on a key of K expires, except those spared.
ExpireOver(K, spared) ==
  [r \in Requests |->
     IF r \notin spared /\ Pending(r) /\ want[r] \cap K # {}
     THEN Mark(request[r], "expired") ELSE request[r]]

-----------------------------------------------------------------------------
(* Releasing: keys are given back one at a time, largest first, both by a  *)
(* lease's release() and by an acquire that failed half way.               *)

BusyChild(o) == \E c \in Calls : /\ Parent[c] = o
                                 /\ phase[c] \notin {"idle", "done", "failed"}

BeginRelease(o) ==
  /\ phase[o] = "held"
  /\ ~BusyChild(o)
  /\ phase' = [phase EXCEPT ![o] = "releasing"]
  /\ UNCHANGED <<locks, want, got, aborted, request, lost, orphan>>

\* The phase of o once it has given k back.
AfterRelease(o, k) ==
  IF got[o] # {k} THEN phase[o]
  ELSE IF phase[o] = "rollback" THEN "failed" ELSE "done"

OwnedByAnyone(o, k) == TRUE  \* mutant: a stale release counts
OwnedBy(o, k) == owner[k] = Token[o]

LastEntry(k) == refs[k] <= 1

NobodyElseWaits(k) == Len(queue[k]) <= 1  \* mutant: off by one
NobodyWaits(k) == queue[k] = <<>>

NewestWaiter(k) == queue[k][Len(queue[k])]  \* mutant
NextWaiter(k) == Head(queue[k])

GiveBack(o, k) ==
  /\ got' = [got EXCEPT ![o] = @ \ {k}]
  /\ phase' = [phase EXCEPT ![o] = AfterRelease(o, k)]
  /\ UNCHANGED orphan

\* Another owner holds k, or nobody: a stale release changes nothing.
ReleaseIgnored(o, k) ==
  /\ ~OwnedBy(o, k)
  /\ GiveBack(o, k)
  /\ UNCHANGED <<locks, request>>

ReleaseCounted(o, k) ==
  /\ OwnedBy(o, k)
  /\ ~LastEntry(k)
  /\ refs' = [refs EXCEPT ![k] = @ - 1]
  /\ GiveBack(o, k)
  /\ UNCHANGED <<owner, queue, request>>

ReleaseFrees(o, k) ==
  /\ OwnedBy(o, k)
  /\ LastEntry(k)
  /\ NobodyWaits(k)
  /\ owner' = [owner EXCEPT ![k] = None]
  /\ refs' = [refs EXCEPT ![k] = 0]
  /\ request' = ExpireOver({k}, {})
  /\ GiveBack(o, k)
  /\ UNCHANGED queue

\* The oldest waiter becomes the owner.  A waiter that is withdrawing is
\* granted the key all the same; nobody will give it back.
ReleaseGrants(o, k) ==
  /\ OwnedBy(o, k)
  /\ LastEntry(k)
  /\ ~NobodyWaits(k)
  /\ LET w == NextWaiter(k)
         late == phase[w] = "withdrawing"
     IN /\ owner' = [owner EXCEPT ![k] = Token[w]]
        /\ queue' = [queue EXCEPT ![k] = Tail(@)]
        /\ got' = [got EXCEPT ![o] = @ \ {k}, ![w] = IF late THEN @ ELSE @ \cup {k}]
        /\ orphan' = [orphan EXCEPT ![w] = IF late THEN @ \cup {k} ELSE @]
        /\ phase' = [phase EXCEPT ![o] = AfterRelease(o, k),
                                  ![w] = IF late THEN "orphaned" ELSE AfterGrant(w, k)]
  /\ refs' = [refs EXCEPT ![k] = 1]
  /\ request' = ExpireOver({k}, {})

ReleaseOne(o, k) ==
  /\ phase[o] \in {"releasing", "rollback"}
  /\ IsLast(k, got[o])
  /\ \/ ReleaseIgnored(o, k)
     \/ ReleaseCounted(o, k)
     \/ ReleaseFrees(o, k)
     \/ ReleaseGrants(o, k)
  /\ lost' = [lost EXCEPT ![o] = @ \ {k}]
  /\ UNCHANGED <<want, aborted>>

-----------------------------------------------------------------------------
(* Replacing owners.  The waiters of the keys stay queued.                 *)

Displaced(o, K) ==
  [p \in Ops |-> IF Token[p] = Token[o] THEN lost[p]
                 ELSE lost[p] \cup (K \cap got[p])]

Seize(o, K) ==
  /\ owner' = [k \in Keys |-> IF k \in K THEN Token[o] ELSE owner[k]]
  /\ refs' = [k \in Keys |-> IF k \notin K THEN refs[k]
                             ELSE IF OwnedBy(o, k) THEN refs[k] + 1 ELSE 1]
  /\ got' = [got EXCEPT ![o] = K]
  /\ phase' = [phase EXCEPT ![o] = "held"]
  /\ lost' = Displaced(o, K)
  /\ UNCHANGED <<queue, orphan>>

\* The low-level handoff(): whoever owns the keys, the caller owns them now.
Takeover(c) ==
  /\ c \in Takeovers
  /\ phase[c] = "idle"
  /\ InContext(c)
  /\ \E K \in SUBSET Keys \ {{}} :
       /\ Seize(c, K)
       /\ want' = [want EXCEPT ![c] = K]
       /\ request' = ExpireOver(K, {})
  /\ UNCHANGED aborted

Owners(K) == {owner[k] : k \in K} \ {None}

\* A free resource is granted at once; an interruptible owner may be paused on
\* the requester's word; everybody else has to agree.
Verdict(o, auto) ==
  IF o = None THEN <<"approved", "available">>
  ELSE IF auto /\ Kind[o] = "soft" THEN <<"paused", "interruptible">>
  ELSE <<"requested", "none">>

RequestHandoff(r) ==
  /\ phase[r] = "idle"
  /\ request[r].status = "none"
  /\ \E K \in SUBSET Keys \ {{}}, auto \in BOOLEAN, d \in {"never", "ahead"} :
     \E o \in Tokens \cup {None} :
       /\ Owners(K) \subseteq {o}
       /\ o # None => o \in Owners(K)
       /\ want' = [want EXCEPT ![r] = K]
       /\ request' = [request EXCEPT ![r] =
            [status |-> Verdict(o, auto)[1], owner |-> o,
             grounds |-> Verdict(o, auto)[2], deadline |-> d]]
  /\ UNCHANGED <<locks, phase, got, aborted, lost, orphan>>

\* Who may manage a request: whoever presents the owner's token, and the host
\* (the user interface) for a human owner.
MayManage(r, g) ==
  \/ g = "owner"
  \/ g = "host" /\ request[r].owner # None /\ Kind[request[r].owner] = "human"

ApproveHandoff(r) ==
  /\ ~Overdue(r)
  /\ request[r].status = "requested"
  /\ \E g \in {"owner", "host"}, s \in {"approved", "paused"} :
       /\ MayManage(r, g)
       /\ request' = [request EXCEPT ![r] = [Mark(request[r], s) EXCEPT !.grounds = g]]
  /\ UNCHANGED <<locks, phase, want, got, aborted, lost, orphan>>

\* An approved request keeps the grounds of its approval.
PauseHandoff(r) ==
  /\ ~Overdue(r)
  /\ request[r].status \in {"requested", "approved"}
  /\ \E g \in {"owner", "host"} :
       /\ MayManage(r, g)
       /\ request' = [request EXCEPT ![r] =
            [Mark(request[r], "paused") EXCEPT
               !.grounds = IF request[r].status = "requested" THEN g
                           ELSE request[r].grounds]]
  /\ UNCHANGED <<locks, phase, want, got, aborted, lost, orphan>>

OwnerUnchecked(r) == TRUE  \* mutant
OwnerStillCurrent(r) ==
  \A k \in want[r] : owner[k] \in {Token[r], request[r].owner}

CompleteHandoff(r) ==
  /\ ~Overdue(r)
  /\ request[r].status \in {"approved", "paused"}
  /\ OwnerStillCurrent(r)
  /\ Seize(r, want[r])
  /\ request' = [ExpireOver(want[r], {r}) EXCEPT ![r] = Mark(request[r], "completed")]
  /\ UNCHANGED <<want, aborted>>

CancelHandoff(r) ==
  /\ Pending(r)
  /\ request' = [request EXCEPT ![r] = Mark(request[r], "canceled")]
  /\ UNCHANGED <<locks, phase, want, got, aborted, lost, orphan>>

DeadlinePasses(r) ==
  /\ Pending(r)
  /\ request[r].deadline = "ahead"
  /\ request' = [request EXCEPT ![r].deadline = "past"]
  /\ UNCHANGED <<locks, phase, want, got, aborted, lost, orphan>>

ExpireHandoffRequests ==
  /\ \E r \in Requests : Overdue(r)
  /\ request' = [r \in Requests |-> IF Overdue(r) THEN Mark(request[r], "expired")
                                                  ELSE request[r]]
  /\ UNCHANGED <<locks, phase, want, got, aborted, lost, orphan>>

\* approve, pause or complete of an overdue request marks it expired and throws
\* before the event is sent.
UseOverdue(r) ==
  /\ Overdue(r)
  /\ request' = [request EXCEPT ![r].status = "expired"]
  /\ UNCHANGED <<locks, phase, want, got, aborted, lost, orphan>>

-----------------------------------------------------------------------------

\* clear(): every waiter is rejected, every owner and request forgotten; the
\* leases handed out so far stay in their holders' hands.
Clear ==
  /\ MayClear
  /\ owner' = [k \in Keys |-> None]
  /\ refs' = [k \in Keys |-> 0]
  /\ queue' = [k \in Keys |-> <<>>]
  /\ phase' = [o \in Ops |-> CASE phase[o] = "waiting" -> AfterFailure(o)
                               [] phase[o] = "withdrawing" -> "orphaned"
                               [] OTHER -> phase[o]]
  /\ request' = [r \in Requests |-> NoRequest]
  /\ lost' = got
  /\ orphan' = [o \in Ops |-> {}]
  /\ UNCHANGED <<want, got, aborted>>

\* The caller's promise has settled: it may call again.  A call that left a key
\* behind does not, for its token is never presented again.
Settled(o) ==
  \/ phase[o] \in {"done", "failed"}
  \/ /\ o \in Requests
     /\ phase[o] = "idle"
     /\ request[o].status \in {"canceled", "expired"}

Again(o) ==
  /\ Settled(o)
  /\ orphan[o] = {}
  /\ phase' = [phase EXCEPT ![o] = "idle"]
  /\ want' = [want EXCEPT ![o] = {}]
  /\ aborted' = aborted \ {o}
  /\ request' = IF o \in Requests THEN [request EXCEPT ![o] = NoRequest] ELSE request
  /\ UNCHANGED <<locks, got, lost, orphan>>

CallStep(c) ==
  \/ BeginAcquire(c)
  \/ \E k \in Keys : TryAcquire(c, k) \/ GiveUp(c, k) \/ Withdraw(c, k)
  \/ Abort(c)
  \/ WithdrawTooLate(c)
  \/ Takeover(c)

RequestStep(r) ==
  \/ RequestHandoff(r)
  \/ ApproveHandoff(r)
  \/ PauseHandoff(r)
  \/ CompleteHandoff(r)
  \/ CancelHandoff(r)
  \/ DeadlinePasses(r)
  \/ UseOverdue(r)

LeaseStep(o) ==
  \/ BeginRelease(o)
  \/ \E k \in Keys : ReleaseOne(o, k)
  \/ Again(o)

Next ==
  \/ \E c \in Calls : CallStep(c)
  \/ \E r \in Requests : RequestStep(r)
  \/ \E o \in Ops : LeaseStep(o)
  \/ ExpireHandoffRequests
  \/ Clear

Spec == Init /\ [][Next]_vars

\* Sections of the mutex finish, promises settle, timers and abort listeners
\* fire, and holders release in a finally block.  Nobody has to call anything.
Fairness ==
  /\ \A c \in Calls :
       /\ WF_vars(\E k \in Keys : TryAcquire(c, k))
       /\ WF_vars(\E k \in Keys : GiveUp(c, k) \/ Withdraw(c, k))
       /\ WF_vars(WithdrawTooLate(c))
  /\ \A o \in Ops :
       /\ WF_vars(BeginRelease(o))
       /\ WF_vars(\E k \in Keys : ReleaseOne(o, k))

FairSpec == Spec /\ Fairness

-----------------------------------------------------------------------------
(* Properties.                                                             *)

\* Every variable has its type.  (The state kept in `resources` and
\* `handoffRequests`, and the local state of acquire, release and the leases.)
TypeOK ==
  /\ owner \in [Keys -> Tokens \cup {None}]
  /\ refs \in [Keys -> Nat]
  /\ queue \in [Keys -> Seq(Calls)]
  /\ phase \in [Ops -> Phases]
  /\ want \in [Ops -> SUBSET Keys]
  /\ got \in [Ops -> SUBSET Keys]
  /\ aborted \subseteq Calls
  /\ request \in [Requests -> HandoffRecord]
  /\ lost \in [Ops -> SUBSET Keys]
  /\ orphan \in [Ops -> SUBSET Keys]

\* A resource somebody waits for has an owner whose release will wake them: no
\* interleaving of releases, timeouts, aborts, takeovers and clear() leaves a
\* waiter queued on a free resource (releaseOne, cancelWaiter, handoffOneLocked).
NoIdleWithWaiters ==
  \A k \in Keys : queue[k] # <<>> => owner[k] # None

\* A waiting call is queued once, on the key it needs next, and nobody else is
\* queued: a timed-out or granted waiter never lingers (cancelWaiter, releaseOne).
QueueMatchesWaiters ==
  /\ \A k \in Keys : \A i \in DOMAIN queue[k] :
       /\ phase[queue[k][i]] \in {"waiting", "withdrawing"}
       /\ IsFirst(k, want[queue[k][i]] \ got[queue[k][i]])
       /\ \A j \in DOMAIN queue[k] : queue[k][i] = queue[k][j] => i = j
  /\ \A c \in Calls : phase[c] \in {"waiting", "withdrawing"} =>
       \E k \in Keys : \E i \in DOMAIN queue[k] : queue[k][i] = c

\* The ops that will (or, for an orphan, should) give k back under token t.
Live(o) == phase[o] \notin {"idle", "done", "failed"}
Claims(o, k) == k \in orphan[o] \/ (Live(o) /\ k \in got[o])
Claimants(k, t) == {o \in Ops : Token[o] = t /\ Claims(o, k)}

\* Every entry counted in refCount belongs to a lease or an unfinished acquire
\* of the owner's token, so ownership never outlives the leases that justify it
\* (tryAcquireImmediately, releaseOne, handoffOneLocked).
OwnershipBacked ==
  \A k \in Keys : /\ owner[k] = None <=> refs[k] = 0
                  /\ refs[k] <= Cardinality(Claimants(k, owner[k]))

\* What a call that is not running can hold: nothing, but for an orphaned grant.
LockShape ==
  /\ \A o \in Ops : phase[o] \in {"idle", "done", "failed"} => got[o] = {}
  /\ \A o \in Ops : orphan[o] # {} => phase[o] \in {"orphaned", "rollback", "failed"}
  /\ \A r \in Requests : Pending(r) => phase[r] = "idle"

\* The inductive invariant behind the three properties above: the queues, the
\* owners, the entry counts and the phases of the calls agree with each other.
LockInv ==
  /\ TypeOK
  /\ LockShape
  /\ QueueMatchesWaiters
  /\ NoIdleWithWaiters
  /\ OwnershipBacked

\* A lease owns each of its keys until it is released or displaced by a handoff:
\* two live leases of different owners never share a key, and the late release of
\* a displaced one does not disturb its successor (acquire, releaseKeys).
LeaseIsOwned ==
  \A o \in Ops : \A k \in got[o] \ lost[o] : owner[k] = Token[o]

\* While a request is pending, the owner it was addressed to still owns a
\* resource it asks for; releasing or replacing that owner expires the request
\* (expirePendingHandoffsForKeys in releaseOne, handoff, completeHandoff).
PendingOwnerCurrent ==
  \A r \in Requests :
    Pending(r) /\ request[r].owner # None =>
      \E k \in want[r] : owner[k] = request[r].owner

\* A key with waiters that changes hands goes to the oldest of them, who leaves
\* the queue, unless a handoff replaces the owner or clear() drops everything:
\* nobody overtakes and nobody barges in (tryAcquireImmediately, releaseOne).
Cleared == MayClear /\ \A k \in Keys : owner[k] = None /\ queue[k] = <<>>
Seized(k) == \E o \in Ops : phase[o] = "idle" /\ phase'[o] = "held" /\ k \in want'[o]
FifoGrants ==
  [][\A k \in Keys :
       queue[k] # <<>> /\ owner'[k] # owner[k] =>
         \/ Seized(k)
         \/ Cleared'
         \/ /\ owner'[k] = Token[Head(queue[k])]
            /\ queue'[k] = Tail(queue[k])]_vars

\* A key owned by a human changes hands only when one of the human's leases gives
\* it back, or by completing a request that this owner, or the user interface on
\* its behalf, approved (canAutoApproveHandoff, assertHandoffOwnerStillCurrent), or
\* by clear().
GivesBack(o, k) == k \in got[o] \ got'[o]
Completes(r) == request[r].status # "completed" /\ request'[r].status = "completed"
HumanKeepsControl ==
  [][\A k \in Keys :
       /\ owner[k] # None /\ Kind[owner[k]] = "human"
       /\ owner'[k] # owner[k]
       => \/ \E o \in Ops : Token[o] = owner[k] /\ GivesBack(o, k)
          \/ \E r \in Requests :
               /\ Completes(r)
               /\ k \in want[r]
               /\ request[r].owner = owner[k]
               /\ request[r].grounds \in {"owner", "host"}
          \/ Cleared']_vars

\* A call that has failed owns nothing: an acquire that throws has returned
\* every key it took and every key it was granted meanwhile (acquire, acquireOne).
FailedOwnsNothing ==
  \A c \in Calls : phase[c] = "failed" => orphan[c] = {}

\* Acquires of several keys never block each other for good: one without a
\* timer or a signal gets its lease.  The sorted order of the keys rules out a
\* cycle (normalizeKeys), and whoever gives up leaves the keys it had, but for a key
\* granted after the abort, which the run of FailedOwnsNothing shows.
AcquireSucceeds ==
  \A c \in Calls \ (Timed \cup Signalled) :
    phase[c] = "try" ~>
      phase[c] = "held" \/ Cleared \/ \E o \in Ops : orphan[o] # {}

-----------------------------------------------------------------------------
(* The abstract specification: a key's holder is its owner, the parties that *)
(* want it are the calls in its queue.                                       *)

Lease == INSTANCE ResourceLease WITH
           Parties <- Calls,
           Heirs <- {Token[r] : r \in Requests},
           holder <- owner,
           wanted <- [k \in Keys |-> ToSet(queue[k])]

\* Acquires, releases, timeouts, aborts, product-level handoffs and clear() implement
\* the abstract lease: nobody enters a resource another party holds, no resource
\* somebody wants is idle, only a completed request replaces a holder, and never
\* two of them at once (tryAcquireImmediately, resolveSharedOwner, completeHandoff).
ImplementsLease == Lease!LeaseSpec

=============================================================================
