--------------------- MODULE ResourceCoordinatorProofs ---------------------
(***************************************************************************)
(* Proofs about ResourceCoordinator for every set of keys, calls and       *)
(* requests.                                                               *)
(*                                                                         *)
(* Its locks: the types; the inductive invariant LockInv, and from it that *)
(* no waiter is left on a free resource, that the queues hold exactly the  *)
(* waiting calls, and that every counted entry has a lease behind it.      *)
(*                                                                         *)
(* Who controls a resource, and by what right: nobody overtakes the        *)
(* waiters, a person keeps what a person owns, a pending request is        *)
(* addressed to a current owner, and a lease owns its keys until they are  *)
(* released or taken over.                                                 *)
(*                                                                         *)
(* And that the coordinator implements ResourceLease: an owner is a        *)
(* holder, the calls in a queue are the parties that want the resource,    *)
(* and every step of the coordinator is a step of the lease or leaves both *)
(* alone.                                                                  *)
(***************************************************************************)
EXTENDS ResourceCoordinator, TLAPS, FiniteSetTheorems, SequenceTheorems

LEMMA RemoveAtType ==
  ASSUME NEW S, NEW s \in Seq(S), NEW i \in DOMAIN s
  PROVE  RemoveAt(s, i) \in Seq(S)
  <1>1. /\ i \in 1..Len(s) /\ Len(s) \in Nat
        /\ \A j \in 1..Len(s) : s[j] \in S
    BY LenProperties, ElementOfSeq
  <1>2. SubSeq(s, 1, i-1) \in Seq(S) /\ SubSeq(s, i+1, Len(s)) \in Seq(S)
    BY <1>1
  <1>3. QED
    BY <1>2, ConcatProperties DEF RemoveAt

\* Marking keeps a handoff record a handoff record.
LEMMA MarkType ==
  ASSUME NEW rec \in HandoffRecord, NEW s \in Statuses
  PROVE  Mark(rec, s) \in HandoffRecord
  BY DEF Mark, HandoffRecord

LEMMA SeizeType ==
  ASSUME TypeOK, NEW o \in Ops, NEW K \in SUBSET Keys, Seize(o, K)
  PROVE  /\ owner' \in [Keys -> Tokens \cup {None}]
         /\ refs' \in [Keys -> Nat]
         /\ phase' \in [Ops -> Phases]
         /\ got' \in [Ops -> SUBSET Keys]
         /\ lost' \in [Ops -> SUBSET Keys]
  <1>1. owner' \in [Keys -> Tokens \cup {None}]
    BY CoordinatorAssumption DEF TypeOK, Seize
  <1>0. refs' \in [Keys -> Nat]
    <2>1. \A k \in Keys : (IF k \notin K THEN refs[k]
                           ELSE IF OwnedBy(o, k) THEN refs[k] + 1 ELSE 1) \in Nat
      BY DEF TypeOK
    <2>. QED
      BY <2>1 DEF Seize
  <1>2. phase' \in [Ops -> Phases] /\ got' \in [Ops -> SUBSET Keys]
    BY DEF TypeOK, Seize, Phases
  <1>3. lost' \in [Ops -> SUBSET Keys]
    <2>1. lost' = Displaced(o, K)
      BY DEF Seize
    <2>2. \A p \in Ops : lost[p] \cup (K \cap got[p]) \in SUBSET Keys /\ lost[p] \in SUBSET Keys
      BY DEF TypeOK
    <2>. QED
      BY <2>1, <2>2 DEF Displaced
  <1>. QED
    BY <1>0, <1>1, <1>2, <1>3

LEMMA ExpireOverType ==
  ASSUME TypeOK, NEW K, NEW spared
  PROVE  ExpireOver(K, spared) \in [Requests -> HandoffRecord]
  BY MarkType DEF TypeOK, ExpireOver, Statuses

-----------------------------------------------------------------------------

\* Every step of a lease keeps the types.
LEMMA LeaseStepType ==
  ASSUME TypeOK, NEW o \in Ops, LeaseStep(o)
  PROVE  TypeOK'
  <1>. USE CoordinatorAssumption
  <1>1. CASE BeginRelease(o)
    BY <1>1 DEF BeginRelease, TypeOK, Phases, locks
  <1>2. ASSUME NEW k \in Keys, ReleaseOne(o, k) PROVE TypeOK'
    <2>. /\ AfterRelease(o, k) \in Phases
         /\ \A w \in Calls : AfterGrant(w, k) \in Phases
         /\ Calls \subseteq Ops
      BY DEF AfterRelease, AfterGrant, Phases, TypeOK, Ops
    <2>1. CASE ReleaseIgnored(o, k)
      BY <1>2, <2>1 DEF ReleaseOne, ReleaseIgnored, GiveBack, TypeOK, locks
    <2>2. CASE ReleaseCounted(o, k)
      BY <1>2, <2>2 DEF ReleaseOne, ReleaseCounted, GiveBack, TypeOK, LastEntry
    <2>3. CASE ReleaseFrees(o, k)
      BY <1>2, <2>3, ExpireOverType DEF ReleaseOne, ReleaseFrees, GiveBack, TypeOK
    <2>4. CASE ReleaseGrants(o, k)
      <3>1. queue[k] \in Seq(Calls) /\ queue[k] # <<>>
        BY <2>4 DEF ReleaseGrants, NobodyWaits, TypeOK
      <3>2. Head(queue[k]) \in Calls /\ Tail(queue[k]) \in Seq(Calls)
        BY <3>1, HeadTailProperties
      <3>. DEFINE w == Head(queue[k])
                  late == phase[w] = "withdrawing"
      <3>3. /\ w \in Ops
            /\ owner' = [owner EXCEPT ![k] = Token[w]]
            /\ queue' = [queue EXCEPT ![k] = Tail(@)]
            /\ got' = [got EXCEPT ![o] = @ \ {k}, ![w] = IF late THEN @ ELSE @ \cup {k}]
            /\ orphan' = [orphan EXCEPT ![w] = IF late THEN @ \cup {k} ELSE @]
            /\ phase' = [phase EXCEPT ![o] = AfterRelease(o, k),
                              ![w] = IF late THEN "orphaned" ELSE AfterGrant(w, k)]
            /\ refs' = [refs EXCEPT ![k] = 1]
            /\ request' = ExpireOver({k}, {})
            /\ lost' = [lost EXCEPT ![o] = @ \ {k}]
            /\ UNCHANGED <<want, aborted>>
        BY <1>2, <2>4, <3>2 DEF ReleaseOne, ReleaseGrants, NextWaiter
      <3>. HIDE DEF w
      <3>4. owner' \in [Keys -> Tokens \cup {None}] /\ queue' \in [Keys -> Seq(Calls)]
        BY <3>2, <3>3 DEF TypeOK, w
      <3>5. got' \in [Ops -> SUBSET Keys] /\ orphan' \in [Ops -> SUBSET Keys]
        BY <3>3 DEF TypeOK
      <3>6. phase' \in [Ops -> Phases]
        BY <3>2, <3>3 DEF TypeOK, Phases, w
      <3>. QED
        BY <3>3, <3>4, <3>5, <3>6, ExpireOverType DEF TypeOK
    <2>. QED
      BY <1>2, <2>1, <2>2, <2>3, <2>4 DEF ReleaseOne
  <1>3. CASE Again(o)
    BY <1>3 DEF Again, TypeOK, Phases, locks, NoRequest, HandoffRecord, Statuses
  <1>. QED
    BY <1>1, <1>2, <1>3 DEF LeaseStep

\* Every step of an acquire keeps the types.
LEMMA CallStepType ==
  ASSUME TypeOK, NEW c \in Calls, CallStep(c)
  PROVE  TypeOK'
  <1>. USE CoordinatorAssumption
  <1>. /\ c \in Ops
       /\ \A k : AfterGrant(c, k) \in Phases
       /\ AfterFailure(c) \in Phases
    BY DEF AfterGrant, AfterFailure, Phases, Ops
  <1>1. CASE BeginAcquire(c)
    BY <1>1 DEF BeginAcquire, TypeOK, Phases, locks
  <1>2. ASSUME NEW k \in Keys, TryAcquire(c, k) PROVE TypeOK'
    <2>1. CASE Enter(c, k)
      BY <1>2, <2>1 DEF TryAcquire, Enter, TypeOK, Ops
    <2>2. CASE Enqueue(c, k)
      <3>1. queue' \in [Keys -> Seq(Calls)]
        BY <2>2 DEF Enqueue, TypeOK
      <3>. QED
        BY <1>2, <2>2, <3>1 DEF TryAcquire, Enqueue, TypeOK, Phases
    <2>. QED
      BY <1>2, <2>1, <2>2 DEF TryAcquire
  <1>3. ASSUME NEW k \in Keys, CancelWaiter(c, k) PROVE TypeOK'
    <2>1. queue' \in [Keys -> Seq(Calls)]
      <3>1. PICK i \in DOMAIN queue[k] : queue' = [queue EXCEPT ![k] = RemoveAt(@, i)]
        BY <1>3 DEF CancelWaiter
      <3>2. RemoveAt(queue[k], i) \in Seq(Calls)
        BY RemoveAtType DEF TypeOK
      <3>. QED
        BY <3>1, <3>2 DEF TypeOK
    <2>. QED
      BY <1>3, <2>1 DEF CancelWaiter, TypeOK
  <1>4. CASE Abort(c)
    BY <1>4 DEF Abort, TypeOK, locks
  <1>5. CASE WithdrawTooLate(c)
    BY <1>5 DEF WithdrawTooLate, TypeOK, locks
  <1>6. CASE Takeover(c)
    <2>1. PICK K \in SUBSET Keys \ {{}} :
            /\ Seize(c, K)
            /\ want' = [want EXCEPT ![c] = K]
            /\ request' = ExpireOver(K, {})
      BY <1>6 DEF Takeover
    <2>2. UNCHANGED aborted
      BY <1>6 DEF Takeover
    <2>. QED
      BY <2>1, <2>2, SeizeType, ExpireOverType DEF TypeOK, Seize
  <1>. QED
    BY <1>1, <1>2, <1>3, <1>4, <1>5, <1>6 DEF CallStep, GiveUp, Withdraw

\* Every step of a handoff request keeps the types.
LEMMA RequestStepType ==
  ASSUME TypeOK, NEW r \in Requests, RequestStep(r)
  PROVE  TypeOK'
  <1>. USE CoordinatorAssumption
  <1>. r \in Ops /\ request[r] \in HandoffRecord
    BY DEF Ops, TypeOK
  <1>1. CASE RequestHandoff(r)
    <2>1. PICK K \in SUBSET Keys, o \in Tokens \cup {None}, auto \in BOOLEAN,
               d \in {"never", "ahead"} :
            /\ want' = [want EXCEPT ![r] = K]
            /\ request' = [request EXCEPT ![r] =
                 [status |-> Verdict(o, auto)[1], owner |-> o,
                  grounds |-> Verdict(o, auto)[2], deadline |-> d]]
      BY <1>1 DEF RequestHandoff
    <2>2. /\ Verdict(o, auto)[1] \in Statuses
          /\ Verdict(o, auto)[2] \in {"none", "available", "interruptible", "owner", "host"}
      BY DEF Verdict, Statuses, PendingStatuses
    <2>3. request' \in [Requests -> HandoffRecord]
      BY <2>1, <2>2 DEF HandoffRecord, TypeOK
    <2>. QED
      BY <1>1, <2>1, <2>3 DEF RequestHandoff, TypeOK, locks
  <1>2. CASE ApproveHandoff(r)
    <2>1. request' \in [Requests -> HandoffRecord]
      <3>1. PICK g \in {"owner", "host"}, t \in {"approved", "paused"} :
              request' = [request EXCEPT ![r] =
                            [Mark(request[r], t) EXCEPT !.grounds = g]]
        BY <1>2 DEF ApproveHandoff
      <3>2. Mark(request[r], t) \in HandoffRecord
        BY MarkType DEF Statuses, PendingStatuses
      <3>3. [Mark(request[r], t) EXCEPT !.grounds = g] \in HandoffRecord
        BY <3>2 DEF HandoffRecord
      <3>. QED
        BY <3>1, <3>3 DEF TypeOK
    <2>. QED
      BY <1>2, <2>1 DEF ApproveHandoff, TypeOK, locks
  <1>3. CASE PauseHandoff(r)
    <2>1. request' \in [Requests -> HandoffRecord]
      <3>1. PICK g \in {"owner", "host", "none", "available", "interruptible"} :
              request' = [request EXCEPT ![r] =
                            [Mark(request[r], "paused") EXCEPT !.grounds = g]]
        BY <1>3 DEF PauseHandoff, HandoffRecord
      <3>2. Mark(request[r], "paused") \in HandoffRecord
        BY MarkType DEF Statuses, PendingStatuses
      <3>3. [Mark(request[r], "paused") EXCEPT !.grounds = g] \in HandoffRecord
        BY <3>2 DEF HandoffRecord
      <3>. QED
        BY <3>1, <3>3 DEF TypeOK
    <2>. QED
      BY <1>3, <2>1 DEF PauseHandoff, TypeOK, locks
  <1>4. CASE CompleteHandoff(r)
    <2>1. want[r] \in SUBSET Keys
      BY DEF TypeOK
    <2>2. request' \in [Requests -> HandoffRecord]
      <3>1. Mark(request[r], "completed") \in HandoffRecord
        BY MarkType DEF Statuses
      <3>. QED
        BY <1>4, <3>1, ExpireOverType DEF CompleteHandoff, Statuses
    <2>. QED
      BY <1>4, <2>1, <2>2, SeizeType DEF CompleteHandoff, TypeOK, Seize
  <1>5. CASE CancelHandoff(r)
    <2>1. Mark(request[r], "canceled") \in HandoffRecord
      BY MarkType DEF Statuses
    <2>. QED
      BY <1>5, <2>1 DEF CancelHandoff, TypeOK, locks
  <1>6. CASE DeadlinePasses(r)
    BY <1>6 DEF DeadlinePasses, TypeOK, locks, HandoffRecord
  <1>7. CASE UseOverdue(r)
    BY <1>7 DEF UseOverdue, TypeOK, locks, HandoffRecord, Statuses
  <1>. QED
    BY <1>1, <1>2, <1>3, <1>4, <1>5, <1>6, <1>7 DEF RequestStep

\* Every step keeps the types.
LEMMA TypeStep ==
  ASSUME TypeOK, [Next]_vars
  PROVE  TypeOK'
  <1>1. CASE UNCHANGED vars
    BY <1>1 DEF vars, TypeOK
  <1>2. CASE ExpireHandoffRequests
    BY <1>2, MarkType DEF ExpireHandoffRequests, TypeOK, locks, Statuses
  <1>3. CASE Clear
    BY <1>3 DEF Clear, TypeOK, Phases, AfterFailure, NoRequest, HandoffRecord, Statuses
  <1>. QED
    BY <1>1, <1>2, <1>3, CallStepType, RequestStepType, LeaseStepType DEF Next

\* Every reachable state is well typed: the counters never go below zero, the
\* queues hold calls, a request has one of its documented statuses.
THEOREM TypeCorrect == Spec => []TypeOK
  <1>1. Init => TypeOK
    BY CoordinatorAssumption
       DEF Init, TypeOK, Phases, NoRequest, HandoffRecord, Statuses
  <1>2. TypeOK /\ [Next]_vars => TypeOK'
    BY TypeStep
  <1>. QED
    BY <1>1, <1>2, PTL DEF Spec

-----------------------------------------------------------------------------
(* The locks.                                                              *)

Waits(c) == phase[c] \in {"waiting", "withdrawing"}

\* OwnershipBacked at one key.
Backed(k) == /\ owner[k] = None <=> refs[k] = 0
             /\ refs[k] <= Cardinality(Claimants(k, owner[k]))

-----------------------------------------------------------------------------
(* Facts about removal from a sequence and about cardinalities.            *)

LEMMA RemoveAtElements ==
  ASSUME NEW S, NEW s \in Seq(S), NEW i \in DOMAIN s
  PROVE  /\ Len(RemoveAt(s, i)) = Len(s) - 1
         /\ \A j \in 1..Len(s)-1 : RemoveAt(s, i)[j] = IF j < i THEN s[j] ELSE s[j+1]
  <1>. DEFINE a == SubSeq(s, 1, i-1)
              b == SubSeq(s, i+1, Len(s))
  <1>1. /\ i \in 1..Len(s) /\ Len(s) \in Nat
        /\ \A j \in 1..Len(s) : s[j] \in S
    BY LenProperties, ElementOfSeq
  <1>2. /\ a \in Seq(S) /\ Len(a) = i-1
        /\ \A j \in 1..i-1 : a[j] = s[j]
    BY <1>1, SubSeqProperties
  <1>3. /\ b \in Seq(S) /\ Len(b) = Len(s) - i
        /\ \A j \in 1..Len(s)-i : b[j] = s[j+i]
    BY <1>1, SubSeqProperties
  <1>. HIDE DEF a, b
  <1>4. /\ Len(a \o b) = Len(a) + Len(b)
        /\ \A j \in 1..Len(a)+Len(b) : (a \o b)[j] = IF j <= Len(a) THEN a[j] ELSE b[j-Len(a)]
    BY <1>2, <1>3, ConcatProperties
  <1>5. RemoveAt(s, i) = a \o b
    BY DEF RemoveAt, a, b
  <1>6. Len(RemoveAt(s, i)) = Len(s) - 1
    BY <1>1, <1>2, <1>3, <1>4, <1>5
  <1>7. ASSUME NEW j \in 1..Len(s)-1
        PROVE  RemoveAt(s, i)[j] = IF j < i THEN s[j] ELSE s[j+1]
    <2>1. CASE j < i
      <3>1. j \in 1..i-1 /\ j <= Len(a) /\ j \in 1..Len(a)+Len(b)
        BY <1>1, <1>2, <1>3, <2>1
      <3>. QED
        BY <3>1, <2>1, <1>2, <1>4, <1>5
    <2>2. CASE ~(j < i)
      <3>1. /\ j-Len(a) \in 1..Len(s)-i /\ ~(j <= Len(a)) /\ j \in 1..Len(a)+Len(b)
            /\ (j-Len(a))+i = j+1
        BY <1>1, <1>2, <1>3, <2>2
      <3>2. b[j-Len(a)] = s[j+1]
        BY <3>1, <1>3
      <3>. QED
        BY <3>1, <3>2, <2>2, <1>4, <1>5
    <2>. QED
      BY <2>1, <2>2
  <1>. QED
    BY <1>6, <1>7

LEMMA TailIsRemoveAt ==
  ASSUME NEW S, NEW s \in Seq(S), s # <<>>
  PROVE  1 \in DOMAIN s /\ Tail(s) = RemoveAt(s, 1)
  <1>1. /\ Len(s) \in Nat \ {0} /\ DOMAIN s = 1..Len(s)
        /\ Tail(s) \in Seq(S) /\ Len(Tail(s)) = Len(s) - 1
        /\ \A j \in 1..Len(Tail(s)) : Tail(s)[j] = s[j+1]
    BY HeadTailProperties, LenProperties, EmptySeq
  <1>2. /\ RemoveAt(s, 1) \in Seq(S) /\ Len(RemoveAt(s, 1)) = Len(s) - 1
        /\ \A j \in 1..Len(s)-1 : RemoveAt(s, 1)[j] = s[j+1]
    <2>1. 1 \in DOMAIN s
      BY <1>1
    <2>2. RemoveAt(s, 1) \in Seq(S)
      BY <2>1, RemoveAtType
    <2>3. /\ Len(RemoveAt(s, 1)) = Len(s) - 1
          /\ \A j \in 1..Len(s)-1 : RemoveAt(s, 1)[j] = IF j < 1 THEN s[j] ELSE s[j+1]
      BY <2>1, RemoveAtElements
    <2>4. \A j \in 1..Len(s)-1 : ~(j < 1)
      BY <1>1
    <2>. QED
      BY <2>2, <2>3, <2>4
  <1>3. Tail(s) = RemoveAt(s, 1)
    BY <1>1, <1>2, SeqEqual
  <1>. QED
    BY <1>1, <1>3

LEMMA CardGrows ==
  ASSUME NEW T, IsFiniteSet(T), NEW S \in SUBSET T, NEW x \in T \ S
  PROVE  Cardinality(S) + 1 <= Cardinality(T)
  <1>1. IsFiniteSet(S) /\ Cardinality(S) \in Nat
    BY FS_Subset, FS_CardinalityType
  <1>2. Cardinality(S \cup {x}) = Cardinality(S) + 1
    BY <1>1, FS_AddElement
  <1>3. Cardinality(S \cup {x}) <= Cardinality(T)
    BY FS_Subset
  <1>. QED
    BY <1>2, <1>3

LEMMA CardShrinks ==
  ASSUME NEW S, IsFiniteSet(S), NEW T, IsFiniteSet(T), NEW x, S \ {x} \subseteq T
  PROVE  Cardinality(S) - 1 <= Cardinality(T)
  <1>1. /\ IsFiniteSet(S \ {x}) /\ Cardinality(S) \in Nat
        /\ Cardinality(S \ {x}) = IF x \in S THEN Cardinality(S) - 1 ELSE Cardinality(S)
    BY FS_RemoveElement, FS_CardinalityType
  <1>2. Cardinality(S \ {x}) <= Cardinality(T) /\ Cardinality(T) \in Nat
    BY FS_Subset, FS_CardinalityType
  <1>. QED
    BY <1>1, <1>2
\* The entry count of a key k against its claimants, over one step.
LEMMA ClaimantsFinite ==
  ASSUME NEW k
  PROVE  /\ IsFiniteSet(Claimants(k, owner[k]))
         /\ Cardinality(Claimants(k, owner[k])) \in Nat
         /\ IsFiniteSet(Claimants(k, owner[k])')
         /\ Cardinality(Claimants(k, owner[k])') \in Nat
  <1>1. IsFiniteSet(Ops)
    BY CoordinatorAssumption, FS_Union DEF Ops
  <1>2. Claimants(k, owner[k])' = {o \in Ops : Token[o] = owner'[k] /\ Claims(o, k)'}
    BY DEF Claimants
  <1>3. Claimants(k, owner[k]) \in SUBSET Ops /\ Claimants(k, owner[k])' \in SUBSET Ops
    BY <1>2 DEF Claimants
  <1>. QED
    BY <1>1, <1>3, FS_Subset, FS_CardinalityType

\* Nothing about k changed but, perhaps, some more claimants.
LEMMA BackedKept ==
  ASSUME TypeOK, NEW k \in Keys, Backed(k),
         owner'[k] = owner[k], refs'[k] = refs[k],
         \A o \in Ops : Token[o] = owner[k] /\ Claims(o, k) => Claims(o, k)'
  PROVE  Backed(k)'
  <1>. DEFINE S == Claimants(k, owner[k])
              T == Claimants(k, owner[k])'
  <1>1. S \in SUBSET T
    BY DEF Claimants
  <1>2. IsFiniteSet(T) /\ Cardinality(S) \in Nat /\ Cardinality(T) \in Nat
    BY ClaimantsFinite
  <1>. HIDE DEF S, T
  <1>3. Cardinality(S) <= Cardinality(T) /\ refs[k] \in Nat
    BY <1>1, <1>2, FS_Subset DEF TypeOK
  <1>. QED
    BY <1>2, <1>3 DEF Backed, S, T

\* An owner enters k once more.
LEMMA BackedEntered ==
  ASSUME TypeOK, NEW k \in Keys, Backed(k), NEW x \in Ops,
         owner[k] = Token[x], owner'[k] = owner[k], refs'[k] = refs[k] + 1,
         ~Claims(x, k), Claims(x, k)',
         \A o \in Ops : Claims(o, k) => Claims(o, k)'
  PROVE  Backed(k)'
  <1>. DEFINE S == Claimants(k, owner[k])
              T == Claimants(k, owner[k])'
  <1>1. S \in SUBSET T /\ x \in T \ S
    BY DEF Claimants
  <1>2. IsFiniteSet(T) /\ Cardinality(S) \in Nat /\ Cardinality(T) \in Nat
    BY ClaimantsFinite
  <1>. HIDE DEF S, T
  <1>3. Cardinality(S) + 1 <= Cardinality(T)
    BY <1>1, <1>2, CardGrows
  <1>4. refs[k] \in Nat /\ owner[k] # None
    BY CoordinatorAssumption DEF TypeOK
  <1>. QED
    BY <1>2, <1>3, <1>4 DEF Backed, S, T

\* An owner gives one of several entries back.
LEMMA BackedLeft ==
  ASSUME TypeOK, NEW k \in Keys, Backed(k), NEW x,
         owner'[k] = owner[k], refs'[k] = refs[k] - 1, refs[k] > 1,
         \A o \in Ops \ {x} : Claims(o, k) => Claims(o, k)'
  PROVE  Backed(k)'
  <1>. DEFINE S == Claimants(k, owner[k])
              T == Claimants(k, owner[k])'
  <1>1. S \ {x} \subseteq T
    BY DEF Claimants
  <1>2. /\ IsFiniteSet(S) /\ IsFiniteSet(T)
        /\ Cardinality(S) \in Nat /\ Cardinality(T) \in Nat
    BY ClaimantsFinite
  <1>. HIDE DEF S, T
  <1>3. Cardinality(S) - 1 <= Cardinality(T)
    BY <1>1, <1>2, CardShrinks
  <1>4. refs[k] \in Nat
    BY DEF TypeOK
  <1>. QED
    BY <1>2, <1>3, <1>4 DEF Backed, S, T

\* k has a new owner with one entry.
LEMMA BackedStarted ==
  ASSUME NEW k \in Keys, NEW x \in Ops,
         owner'[k] = Token[x], refs'[k] = 1, Claims(x, k)'
  PROVE  Backed(k)'
  <1>. DEFINE T == Claimants(k, owner[k])'
  <1>1. x \in T
    BY DEF Claimants
  <1>2. IsFiniteSet(T) /\ Cardinality(T) \in Nat
    BY ClaimantsFinite
  <1>. HIDE DEF T
  <1>3. Cardinality(T) # 0
    BY <1>1, <1>2, FS_EmptySet
  <1>4. owner'[k] # None
    BY CoordinatorAssumption
  <1>. QED
    BY <1>2, <1>3, <1>4 DEF Backed, T

\* k is free.
LEMMA BackedFree ==
  ASSUME NEW k \in Keys, owner'[k] = None, refs'[k] = 0
  PROVE  Backed(k)'
  BY ClaimantsFinite DEF Backed

-----------------------------------------------------------------------------
(* What a step does, read off its action once for all parts of LockInv.    *)

\* The release of k by o hands k to w.
GrantedTo(o, k, w) ==
  /\ w = Head(queue[k]) /\ queue[k] # <<>> /\ w = queue[k][1]
  /\ Waits(w) /\ w # o /\ w \in Ops
  /\ IsFirst(k, want[w] \ got[w]) /\ orphan[w] = {}
  /\ owner' = [owner EXCEPT ![k] = Token[w]]
  /\ refs' = [refs EXCEPT ![k] = 1]
  /\ queue' = [queue EXCEPT ![k] = Tail(queue[k])]
  /\ \A p \in Ops \ {o, w} : /\ phase'[p] = phase[p] /\ got'[p] = got[p]
                             /\ orphan'[p] = orphan[p]
  /\ got'[o] = got[o] \ {k} /\ orphan'[o] = orphan[o]
  /\ phase'[o] = AfterRelease(o, k)
  /\ \/ /\ phase'[w] = "orphaned" /\ got'[w] = got[w] /\ orphan'[w] = {k}
     \/ /\ phase'[w] = AfterGrant(w, k) /\ got'[w] = got[w] \cup {k}
        /\ orphan'[w] = {}
  /\ want' = want

LEMMA GrantFacts ==
  ASSUME LockInv, NEW o \in Ops, NEW k \in Keys, ReleaseOne(o, k), ReleaseGrants(o, k)
  PROVE  \E w \in Calls : GrantedTo(o, k, w)
  <1>. DEFINE w == Head(queue[k])
              late == phase[w] = "withdrawing"
  <1>1. queue[k] \in Seq(Calls) /\ queue[k] # <<>>
    BY DEF ReleaseGrants, NobodyWaits, LockInv, TypeOK
  <1>2. w \in Calls /\ w = queue[k][1] /\ 1 \in DOMAIN queue[k]
    BY <1>1
  <1>3. Waits(w) /\ IsFirst(k, want[w] \ got[w])
    BY <1>2 DEF LockInv, QueueMatchesWaiters, Waits
  <1>4. w \in Ops /\ w # o /\ orphan[w] = {}
    BY <1>2, <1>3 DEF ReleaseOne, LockInv, LockShape, Waits, Ops
  <1>5. /\ owner' = [owner EXCEPT ![k] = Token[w]]
        /\ refs' = [refs EXCEPT ![k] = 1]
        /\ queue' = [queue EXCEPT ![k] = Tail(queue[k])]
        /\ got' = [got EXCEPT ![o] = @ \ {k}, ![w] = IF late THEN @ ELSE @ \cup {k}]
        /\ orphan' = [orphan EXCEPT ![w] = IF late THEN @ \cup {k} ELSE @]
        /\ phase' = [phase EXCEPT ![o] = AfterRelease(o, k),
                                  ![w] = IF late THEN "orphaned" ELSE AfterGrant(w, k)]
        /\ want' = want
    BY DEF ReleaseOne, ReleaseGrants, NextWaiter
  <1>. HIDE DEF w
  <1>6. /\ \A p \in Ops \ {o, w} : /\ phase'[p] = phase[p] /\ got'[p] = got[p]
                                   /\ orphan'[p] = orphan[p]
        /\ got'[o] = got[o] \ {k} /\ orphan'[o] = orphan[o]
        /\ phase'[o] = AfterRelease(o, k)
    BY <1>4, <1>5 DEF LockInv, TypeOK
  <1>7. \/ /\ phase'[w] = "orphaned" /\ got'[w] = got[w] /\ orphan'[w] = {k}
        \/ /\ phase'[w] = AfterGrant(w, k) /\ got'[w] = got[w] \cup {k}
           /\ orphan'[w] = {}
    BY <1>4, <1>5 DEF LockInv, TypeOK
  <1>. QED
    BY <1>1, <1>2, <1>3, <1>4, <1>5, <1>6, <1>7 DEF w, GrantedTo

\* A handoff to o: o, which held nothing, holds K.
LEMMA SeizeFacts ==
  ASSUME LockInv, NEW o \in Ops, NEW K \in SUBSET Keys, phase[o] = "idle", Seize(o, K)
  PROVE  /\ \A k \in K : /\ owner'[k] = Token[o]
                         /\ refs'[k] = IF owner[k] = Token[o] THEN refs[k] + 1 ELSE 1
                         /\ ~Claims(o, k) /\ Claims(o, k)'
         /\ \A k \in Keys \ K : owner'[k] = owner[k] /\ refs'[k] = refs[k]
         /\ \A p \in Ops : \A k \in Keys : Claims(p, k) => Claims(p, k)'
         /\ \A p \in Ops \ {o} : phase'[p] = phase[p] /\ got'[p] = got[p]
         /\ phase'[o] = "held" /\ got'[o] = K
         /\ queue' = queue /\ orphan' = orphan /\ orphan[o] = {}
  <1>1. /\ \A k \in K : /\ owner'[k] = Token[o]
                        /\ refs'[k] = IF owner[k] = Token[o] THEN refs[k] + 1 ELSE 1
        /\ \A k \in Keys \ K : owner'[k] = owner[k] /\ refs'[k] = refs[k]
    BY DEF Seize, OwnedBy
  <1>2. /\ \A p \in Ops \ {o} : phase'[p] = phase[p] /\ got'[p] = got[p]
        /\ phase'[o] = "held" /\ got'[o] = K
        /\ queue' = queue /\ orphan' = orphan
    BY DEF Seize, LockInv, TypeOK
  <1>3. got[o] = {} /\ orphan[o] = {}
    BY DEF LockInv, LockShape
  <1>4. /\ \A k \in K : ~Claims(o, k) /\ Claims(o, k)'
        /\ \A p \in Ops : \A k \in Keys : Claims(p, k) => Claims(p, k)'
    BY <1>2, <1>3 DEF Claims, Live
  <1>. QED
    BY <1>1, <1>2, <1>3, <1>4

\* The steps that matter to LockInv; the others leave the locks, the leases and
\* the progress of every call alone.
Quiet == UNCHANGED <<locks, phase, want, got, orphan>>
Cancels(c, k) == Waits(c) /\ CancelWaiter(c, k)
Takes(o, K) == phase[o] = "idle" /\ Seize(o, K) /\ want' = [want EXCEPT ![o] = K]

LEMMA StepKinds ==
  ASSUME LockInv, [Next]_vars
  PROVE  \/ Quiet
         \/ \E c \in Calls : BeginAcquire(c) \/ WithdrawTooLate(c)
         \/ \E r \in Requests : RequestHandoff(r)
         \/ \E c \in Calls, k \in Keys : TryAcquire(c, k) \/ Cancels(c, k)
         \/ \E o \in Ops, K \in SUBSET Keys : Takes(o, K)
         \/ \E o \in Ops : BeginRelease(o) \/ Again(o)
         \/ \E o \in Ops, k \in Keys : ReleaseOne(o, k)
         \/ Clear
  <1>1. CASE UNCHANGED vars
    BY <1>1 DEF vars, locks, Quiet
  <1>2. ASSUME NEW c \in Calls, CallStep(c)
        PROVE  \/ Quiet
               \/ BeginAcquire(c) \/ WithdrawTooLate(c)
               \/ \E k \in Keys : TryAcquire(c, k) \/ Cancels(c, k)
               \/ \E K \in SUBSET Keys : Takes(c, K)
    <2>1. CASE Abort(c)
      BY <2>1 DEF Abort, Quiet
    <2>2. CASE Takeover(c)
      BY <2>2 DEF Takeover, Takes
    <2>3. ASSUME NEW k \in Keys, GiveUp(c, k) \/ Withdraw(c, k) PROVE Cancels(c, k)
      BY <2>3 DEF GiveUp, Withdraw, Cancels, Waits
    <2>. QED
      BY <1>2, <2>1, <2>2, <2>3 DEF CallStep
  <1>3. ASSUME NEW r \in Requests, RequestStep(r)
        PROVE  Quiet \/ RequestHandoff(r) \/ Takes(r, want[r])
    <2>1. CASE CompleteHandoff(r)
      <3>1. r \in Ops /\ phase[r] = "idle"
        BY <2>1 DEF CompleteHandoff, LockInv, LockShape, Pending, PendingStatuses, Ops
      <3>2. want' = [want EXCEPT ![r] = want[r]]
        BY <2>1 DEF CompleteHandoff, LockInv, TypeOK
      <3>. QED
        BY <2>1, <3>1, <3>2 DEF CompleteHandoff, Takes
    <2>2. CASE ApproveHandoff(r) \/ PauseHandoff(r) \/ CancelHandoff(r)
               \/ DeadlinePasses(r) \/ UseOverdue(r)
      BY <2>2 DEF ApproveHandoff, PauseHandoff, CancelHandoff, DeadlinePasses,
                  UseOverdue, Quiet
    <2>. QED
      BY <1>3, <2>1, <2>2 DEF RequestStep
  <1>4. CASE ExpireHandoffRequests
    BY <1>4 DEF ExpireHandoffRequests, Quiet
  <1>5. \A r \in Requests : r \in Ops /\ want[r] \in SUBSET Keys
    BY DEF LockInv, TypeOK, Ops
  <1>6. Calls \subseteq Ops
    BY DEF Ops
  <1>. QED
    BY <1>1, <1>2, <1>3, <1>4, <1>5, <1>6 DEF Next, LeaseStep

-----------------------------------------------------------------------------
(* Each part of LockInv is kept by every step.                             *)

\* A claim on a key survives every step but the release of that key.
LEMMA BackedStep ==
  ASSUME LockInv, [Next]_vars
  PROVE  OwnershipBacked'
  <1>. USE CoordinatorAssumption
  <1>. \A k \in Keys : Backed(k)
    BY DEF LockInv, OwnershipBacked, Backed
  <1>. TypeOK
    BY DEF LockInv
  <1>. SUFFICES ASSUME NEW k \in Keys PROVE Backed(k)'
    BY DEF OwnershipBacked, Backed
  <1>. Calls \subseteq Ops
    BY DEF Ops
  <1>1. CASE Quiet
    BY <1>1, BackedKept DEF Quiet, locks, Claims, Live
  <1>2. ASSUME NEW c \in Calls, BeginAcquire(c) \/ WithdrawTooLate(c)
        PROVE  Backed(k)'
    <2>1. \A o \in Ops : Claims(o, k) => Claims(o, k)'
      BY <1>2 DEF BeginAcquire, WithdrawTooLate, AfterFailure, Claims, Live, LockInv, TypeOK
    <2>. QED
      BY <1>2, <2>1, BackedKept DEF BeginAcquire, WithdrawTooLate, locks
  <1>3. ASSUME NEW r \in Requests, RequestHandoff(r) PROVE Backed(k)'
    BY <1>3, BackedKept DEF RequestHandoff, locks, Claims, Live
  <1>4. ASSUME NEW c \in Calls, NEW j \in Keys, TryAcquire(c, j) PROVE Backed(k)'
    <2>. /\ phase[c] = "try" /\ orphan[c] = {} /\ j \notin got[c] /\ orphan' = orphan
      BY <1>4 DEF TryAcquire, IsFirst, LockInv, LockShape
    <2>1. CASE Enter(c, j)
      <3>1. /\ \A o \in Ops : Claims(o, k) => Claims(o, k)'
            /\ ~Claims(c, j) /\ Claims(c, j)'
        BY <2>1 DEF Enter, AfterGrant, Claims, Live, TypeOK
      <3>2. CASE k # j
        BY <2>1, <3>1, <3>2, BackedKept DEF Enter, TypeOK
      <3>3. CASE k = j /\ owner[k] = None
        <4>1. refs[k] = 0
          BY <3>3 DEF Backed
        <4>. QED
          BY <2>1, <3>1, <3>3, <4>1, BackedStarted DEF Enter, TypeOK
      <3>4. CASE k = j /\ owner[k] = Token[c]
        BY <2>1, <3>1, <3>4, BackedEntered DEF Enter, TypeOK
      <3>. QED
        BY <2>1, <3>2, <3>3, <3>4 DEF Enter, MayEnter
    <2>2. CASE Enqueue(c, j)
      <3>1. \A o \in Ops : Claims(o, k) => Claims(o, k)'
        BY <2>2 DEF Enqueue, Claims, Live, TypeOK
      <3>. QED
        BY <2>2, <3>1, BackedKept DEF Enqueue
    <2>. QED
      BY <1>4, <2>1, <2>2 DEF TryAcquire
  <1>5. ASSUME NEW c \in Calls, NEW j \in Keys, Cancels(c, j) PROVE Backed(k)'
    <2>1. \A o \in Ops : Claims(o, k) => Claims(o, k)'
      BY <1>5 DEF Cancels, CancelWaiter, AfterFailure, Claims, Live, TypeOK
    <2>. QED
      BY <1>5, <2>1, BackedKept DEF Cancels, CancelWaiter
  <1>6. ASSUME NEW o \in Ops, NEW K \in SUBSET Keys, Takes(o, K) PROVE Backed(k)'
    <2>. /\ \A i \in K : /\ owner'[i] = Token[o]
                         /\ refs'[i] = IF owner[i] = Token[o] THEN refs[i] + 1 ELSE 1
                         /\ ~Claims(o, i) /\ Claims(o, i)'
         /\ \A i \in Keys \ K : owner'[i] = owner[i] /\ refs'[i] = refs[i]
         /\ \A p \in Ops : \A i \in Keys : Claims(p, i) => Claims(p, i)'
      BY <1>6, SeizeFacts DEF Takes
    <2>1. CASE k \notin K
      BY <2>1, BackedKept
    <2>2. CASE k \in K /\ owner[k] = Token[o]
      BY <2>2, BackedEntered
    <2>3. CASE k \in K /\ owner[k] # Token[o]
      BY <2>3, BackedStarted
    <2>. QED
      BY <2>1, <2>2, <2>3
  <1>7. ASSUME NEW o \in Ops, BeginRelease(o) \/ Again(o) PROVE Backed(k)'
    <2>1. \A p \in Ops : Claims(p, k) => Claims(p, k)'
      BY <1>7 DEF BeginRelease, Again, Settled, Claims, Live, TypeOK
    <2>. QED
      BY <1>7, <2>1, BackedKept DEF BeginRelease, Again, locks
  <1>8. ASSUME NEW o \in Ops, NEW j \in Keys, ReleaseOne(o, j) PROVE Backed(k)'
    <2>1. CASE ReleaseGrants(o, j)
      <3>1. PICK w \in Calls : GrantedTo(o, j, w)
        BY <1>8, <2>1, GrantFacts
      <3>2. CASE k = j
        <4>1. Claims(w, k)'
          BY <3>1, <3>2 DEF GrantedTo, Claims, Live, AfterGrant
        <4>. QED
          BY <3>1, <3>2, <4>1, BackedStarted DEF GrantedTo, TypeOK
      <3>3. CASE k # j
        <4>1. Claims(w, k) => Claims(w, k)'
          BY <3>1, <3>3 DEF GrantedTo, Claims, Live, AfterGrant
        <4>2. Claims(o, k) => Claims(o, k)'
          BY <1>8, <3>1, <3>3 DEF GrantedTo, Claims, Live, AfterRelease, ReleaseOne
        <4>3. \A p \in Ops \ {o, w} : Claims(p, k) => Claims(p, k)'
          BY <3>1 DEF GrantedTo, Claims, Live
        <4>. QED
          BY <3>1, <3>3, <4>1, <4>2, <4>3, BackedKept DEF GrantedTo, TypeOK
      <3>. QED
        BY <3>2, <3>3
    <2>. SUFFICES ASSUME ~ReleaseGrants(o, j) PROVE Backed(k)'
      BY <2>1
    <2>2. GiveBack(o, j)
      BY <1>8 DEF ReleaseOne, ReleaseIgnored, ReleaseCounted, ReleaseFrees
    <2>3. /\ \A p \in Ops \ {o} : Claims(p, k) => Claims(p, k)'
          /\ k # j => (Claims(o, k) => Claims(o, k)')
      BY <1>8, <2>2 DEF ReleaseOne, GiveBack, AfterRelease, Claims, Live, TypeOK
    <2>4. CASE k # j
      BY <1>8, <2>3, <2>4, BackedKept
         DEF ReleaseOne, ReleaseIgnored, ReleaseCounted, ReleaseFrees, locks, TypeOK
    <2>5. CASE k = j /\ ReleaseIgnored(o, j)
      <3>1. owner[k] # Token[o] /\ owner'[k] = owner[k] /\ refs'[k] = refs[k]
        BY <2>5 DEF ReleaseIgnored, OwnedBy, locks
      <3>. QED
        BY <2>3, <3>1, BackedKept
    <2>6. CASE k = j /\ ReleaseCounted(o, j)
      <3>1. owner'[k] = owner[k] /\ refs'[k] = refs[k] - 1 /\ refs[k] > 1
        BY <2>6 DEF ReleaseCounted, LastEntry, TypeOK
      <3>. QED
        BY <2>3, <3>1, BackedLeft
    <2>7. CASE k = j /\ ReleaseFrees(o, j)
      BY <2>7, BackedFree DEF ReleaseFrees, TypeOK
    <2>. QED
      BY <1>8, <2>4, <2>5, <2>6, <2>7 DEF ReleaseOne
  <1>9. CASE Clear
    BY <1>9, BackedFree DEF Clear
  <1>. QED
    BY <1>1, <1>2, <1>3, <1>4, <1>5, <1>6, <1>7, <1>8, <1>9, StepKinds

\* A waiter joins the queue of an owned key only, and a key that becomes free
\* has no waiters.
LEMMA IdleStep ==
  ASSUME LockInv, [Next]_vars
  PROVE  NoIdleWithWaiters'
  <1>. USE CoordinatorAssumption
  <1>. TypeOK /\ NoIdleWithWaiters
    BY DEF LockInv
  <1>. \A o \in Ops : Token[o] # None
    OBVIOUS
  <1>. Calls \subseteq Ops
    BY DEF Ops
  <1>1. CASE Quiet
    BY <1>1 DEF Quiet, locks, NoIdleWithWaiters
  <1>2. ASSUME NEW c \in Calls, BeginAcquire(c) \/ WithdrawTooLate(c)
        PROVE  NoIdleWithWaiters'
    BY <1>2 DEF BeginAcquire, WithdrawTooLate, locks, NoIdleWithWaiters
  <1>3. ASSUME NEW r \in Requests, RequestHandoff(r) PROVE NoIdleWithWaiters'
    BY <1>3 DEF RequestHandoff, locks, NoIdleWithWaiters
  <1>4. ASSUME NEW c \in Calls, NEW j \in Keys, TryAcquire(c, j)
        PROVE  NoIdleWithWaiters'
    <2>1. CASE Enter(c, j)
      BY <2>1 DEF Enter, NoIdleWithWaiters, TypeOK
    <2>2. CASE Enqueue(c, j)
      BY <2>2 DEF Enqueue, MayEnter, NoIdleWithWaiters, TypeOK
    <2>. QED
      BY <1>4, <2>1, <2>2 DEF TryAcquire
  <1>5. ASSUME NEW c \in Calls, NEW j \in Keys, Cancels(c, j)
        PROVE  NoIdleWithWaiters'
    <2>1. queue[j] # <<>> /\ \A k \in Keys \ {j} : queue'[k] = queue[k]
      BY <1>5 DEF Cancels, CancelWaiter, TypeOK
    <2>. QED
      BY <1>5, <2>1 DEF Cancels, CancelWaiter, NoIdleWithWaiters
  <1>6. ASSUME NEW o \in Ops, NEW K \in SUBSET Keys, Takes(o, K)
        PROVE  NoIdleWithWaiters'
    <2>1. /\ owner' = [k \in Keys |-> IF k \in K THEN Token[o] ELSE owner[k]]
          /\ queue' = queue
      BY <1>6 DEF Takes, Seize
    <2>. QED
      BY <2>1 DEF NoIdleWithWaiters
  <1>7. ASSUME NEW o \in Ops, BeginRelease(o) \/ Again(o) PROVE NoIdleWithWaiters'
    BY <1>7 DEF BeginRelease, Again, locks, NoIdleWithWaiters
  <1>8. ASSUME NEW o \in Ops, NEW j \in Keys, ReleaseOne(o, j)
        PROVE  NoIdleWithWaiters'
    <2>1. CASE ReleaseIgnored(o, j) \/ ReleaseCounted(o, j)
      BY <2>1 DEF ReleaseIgnored, ReleaseCounted, locks, NoIdleWithWaiters
    <2>2. CASE ReleaseFrees(o, j)
      BY <2>2 DEF ReleaseFrees, NobodyWaits, NoIdleWithWaiters, TypeOK
    <2>3. CASE ReleaseGrants(o, j)
      <3>1. PICK w \in Calls : GrantedTo(o, j, w)
        BY <1>8, <2>3, GrantFacts
      <3>. QED
        BY <3>1 DEF GrantedTo, NoIdleWithWaiters, TypeOK
    <2>. QED
      BY <1>8, <2>1, <2>2, <2>3 DEF ReleaseOne
  <1>9. CASE Clear
    BY <1>9 DEF Clear, NoIdleWithWaiters
  <1>. QED
    BY <1>1, <1>2, <1>3, <1>4, <1>5, <1>6, <1>7, <1>8, <1>9, StepKinds

\* A call settles only after its last key is gone.
LEMMA ShapeStep ==
  ASSUME LockInv, [Next]_vars
  PROVE  LockShape'
  <1>. DEFINE Settles(o) == phase[o] \in {"idle", "done", "failed"} => got[o] = {}
              Orphans(o) ==
                orphan[o] # {} => phase[o] \in {"orphaned", "rollback", "failed"}
  <1>. TypeOK /\ \A o \in Ops : Settles(o) /\ Orphans(o)
    BY DEF LockInv, LockShape
  <1>. Calls \subseteq Ops /\ Requests \subseteq Ops
    BY DEF Ops
  <1>1. \A o \in Ops : Settles(o)' /\ Orphans(o)'
    <2>1. CASE Quiet
      BY <2>1 DEF Quiet
    <2>2. ASSUME NEW c \in Calls, BeginAcquire(c) \/ WithdrawTooLate(c)
          PROVE  \A o \in Ops : Settles(o)' /\ Orphans(o)'
      BY <2>2 DEF BeginAcquire, WithdrawTooLate, AfterFailure, TypeOK
    <2>3. ASSUME NEW r \in Requests, RequestHandoff(r)
          PROVE  \A o \in Ops : Settles(o)' /\ Orphans(o)'
      BY <2>3 DEF RequestHandoff
    <2>4. ASSUME NEW c \in Calls, NEW j \in Keys, TryAcquire(c, j)
          PROVE  \A o \in Ops : Settles(o)' /\ Orphans(o)'
      BY <2>4 DEF TryAcquire, Enter, AfterGrant, Enqueue, TypeOK
    <2>5. ASSUME NEW c \in Calls, NEW j \in Keys, Cancels(c, j)
          PROVE  \A o \in Ops : Settles(o)' /\ Orphans(o)'
      BY <2>5 DEF Cancels, CancelWaiter, AfterFailure, Waits, TypeOK
    <2>6. ASSUME NEW o \in Ops, NEW K \in SUBSET Keys, Takes(o, K)
          PROVE  \A p \in Ops : Settles(p)' /\ Orphans(p)'
      BY <2>6, SeizeFacts DEF Takes
    <2>7. ASSUME NEW o \in Ops, BeginRelease(o) \/ Again(o)
          PROVE  \A p \in Ops : Settles(p)' /\ Orphans(p)'
      BY <2>7 DEF BeginRelease, Again, Settled, TypeOK
    <2>8. ASSUME NEW o \in Ops, NEW j \in Keys, ReleaseOne(o, j)
          PROVE  \A p \in Ops : Settles(p)' /\ Orphans(p)'
      <3>1. CASE ReleaseGrants(o, j)
        <4>1. PICK w \in Calls : GrantedTo(o, j, w)
          BY <2>8, <3>1, GrantFacts
        <4>2. Settles(w)' /\ Orphans(w)'
          BY <4>1 DEF GrantedTo, AfterGrant
        <4>3. Settles(o)' /\ Orphans(o)'
          BY <2>8, <4>1 DEF GrantedTo, AfterRelease, ReleaseOne
        <4>4. \A p \in Ops \ {o, w} : Settles(p)' /\ Orphans(p)'
          BY <4>1 DEF GrantedTo
        <4>. QED
          BY <4>2, <4>3, <4>4
      <3>2. CASE ~ReleaseGrants(o, j)
        <4>1. GiveBack(o, j) /\ phase[o] \in {"releasing", "rollback"}
          BY <2>8, <3>2 DEF ReleaseOne, ReleaseIgnored, ReleaseCounted, ReleaseFrees
        <4>. QED
          BY <4>1 DEF GiveBack, AfterRelease, TypeOK
      <3>. QED
        BY <3>1, <3>2
    <2>9. CASE Clear
      BY <2>9 DEF Clear, AfterFailure, TypeOK
    <2>. QED
      BY <2>1, <2>2, <2>3, <2>4, <2>5, <2>6, <2>7, <2>8, <2>9, StepKinds
  <1>2. ASSUME NEW r \in Requests, Pending(r)'
        PROVE  phase'[r] = "idle"
    <2>. Pending(r) => phase[r] = "idle"
      BY DEF LockInv, LockShape
    <2>. r \notin Calls
      BY CoordinatorAssumption
    <2>1. CASE UNCHANGED vars
      BY <1>2, <2>1 DEF vars, Pending
    <2>2. ASSUME NEW c \in Calls, CallStep(c) PROVE phase'[r] = "idle"
      <3>1. phase'[r] = phase[r]
        BY <2>2 DEF CallStep, BeginAcquire, TryAcquire, Enter, Enqueue, GiveUp, Withdraw,
             CancelWaiter, Abort, WithdrawTooLate, Takeover, Seize, TypeOK
      <3>2. Pending(r)
        <4>1. CASE \E K \in SUBSET Keys : request' = ExpireOver(K, {})
          BY <1>2, <4>1 DEF ExpireOver, Mark, Pending, PendingStatuses, TypeOK, HandoffRecord
        <4>2. CASE request' = request
          BY <1>2, <4>2 DEF Pending
        <4>. QED
          BY <2>2, <4>1, <4>2
             DEF CallStep, BeginAcquire, TryAcquire, GiveUp, Withdraw, CancelWaiter, Abort,
                 WithdrawTooLate, Takeover
      <3>. QED
        BY <3>1, <3>2
    <2>3. ASSUME NEW q \in Requests, RequestStep(q) PROVE phase'[r] = "idle"
      <3>1. CASE RequestHandoff(q)
        BY <1>2, <3>1 DEF RequestHandoff, Pending, TypeOK
      <3>2. CASE CompleteHandoff(q)
        <4>1. q # r /\ Pending(r)
          BY <1>2, <3>2 DEF CompleteHandoff, ExpireOver, Mark, Pending, PendingStatuses,
                            TypeOK, HandoffRecord
        <4>. QED
          BY <3>2, <4>1 DEF CompleteHandoff, Seize, TypeOK
      <3>3. CASE ApproveHandoff(q) \/ PauseHandoff(q) \/ CancelHandoff(q)
                 \/ DeadlinePasses(q) \/ UseOverdue(q)
        <4>1. phase' = phase /\ (request'[r] = request[r] \/ q = r) /\ (q = r => Pending(r))
          BY <3>3 DEF ApproveHandoff, PauseHandoff, CancelHandoff, DeadlinePasses,
                      UseOverdue, Overdue, Pending, PendingStatuses, TypeOK
        <4>. QED
          BY <1>2, <4>1 DEF Pending
      <3>. QED
        BY <2>3, <3>1, <3>2, <3>3 DEF RequestStep
    <2>4. ASSUME NEW o \in Ops, LeaseStep(o) PROVE phase'[r] = "idle"
      <3>1. CASE BeginRelease(o)
        BY <1>2, <3>1 DEF BeginRelease, Pending, TypeOK
      <3>2. CASE Again(o)
        BY <1>2, <3>2 DEF Again, Pending, NoRequest, PendingStatuses, TypeOK
      <3>3. ASSUME NEW k \in Keys, ReleaseOne(o, k) PROVE phase'[r] = "idle"
        <4>1. Pending(r)
          BY <1>2, <3>3 DEF ReleaseOne, ReleaseIgnored, ReleaseCounted, ReleaseFrees,
               ReleaseGrants, ExpireOver, Mark, Pending, PendingStatuses, TypeOK, HandoffRecord
        <4>2. o # r
          BY <3>3, <4>1 DEF ReleaseOne
        <4>3. CASE ReleaseGrants(o, k)
          <5>1. PICK w \in Calls : GrantedTo(o, k, w)
            BY <3>3, <4>3, GrantFacts
          <5>. QED
            BY <4>1, <4>2, <5>1 DEF GrantedTo
        <4>4. CASE ~ReleaseGrants(o, k)
          BY <3>3, <4>1, <4>2, <4>4 DEF ReleaseOne, ReleaseIgnored, ReleaseCounted,
               ReleaseFrees, GiveBack, TypeOK
        <4>. QED
          BY <4>3, <4>4
      <3>. QED
        BY <2>4, <3>1, <3>2, <3>3 DEF LeaseStep
    <2>5. CASE ExpireHandoffRequests
      BY <1>2, <2>5 DEF ExpireHandoffRequests, Overdue, Mark, Pending, PendingStatuses,
                        TypeOK, HandoffRecord
    <2>6. CASE Clear
      BY <1>2, <2>6 DEF Clear, Pending, NoRequest, PendingStatuses
    <2>. QED
      BY <2>1, <2>2, <2>3, <2>4, <2>5, <2>6 DEF Next
  <1>. QED
    BY <1>1, <1>2 DEF LockShape

\* Who waits in a queue.
LEMMA QueueFacts ==
  ASSUME LockInv, NEW k \in Keys, NEW i \in DOMAIN queue[k]
  PROVE  /\ queue[k] \in Seq(Calls) /\ queue[k][i] \in Calls /\ Waits(queue[k][i])
         /\ IsFirst(k, want[queue[k][i]] \ got[queue[k][i]])
         /\ \A j \in DOMAIN queue[k] : queue[k][i] = queue[k][j] => i = j
  <1>1. queue[k] \in Seq(Calls)
    BY DEF LockInv, TypeOK
  <1>2. DOMAIN queue[k] = 1..Len(queue[k])
    BY <1>1, LenProperties
  <1>3. queue[k][i] \in Calls
    BY <1>1, <1>2, ElementOfSeq
  <1>. QED
    BY <1>1, <1>3 DEF LockInv, QueueMatchesWaiters, Waits

\* The queues and the waiting calls as they are, whatever else changes.
LEMMA QueueFrame ==
  ASSUME LockInv, queue' = queue,
         \A c \in Calls : Waits(c) \/ Waits(c)' =>
           phase'[c] = phase[c] /\ want'[c] = want[c] /\ got'[c] = got[c]
  PROVE  QueueMatchesWaiters'
  <1>1. ASSUME NEW k \in Keys, NEW i \in DOMAIN queue'[k]
        PROVE  /\ phase'[queue'[k][i]] \in {"waiting", "withdrawing"}
               /\ IsFirst(k, want'[queue'[k][i]] \ got'[queue'[k][i]])
               /\ \A j \in DOMAIN queue'[k] : queue'[k][i] = queue'[k][j] => i = j
    <2>. DEFINE c == queue[k][i]
    <2>1. i \in DOMAIN queue[k] /\ queue'[k][i] = c
      BY <1>1
    <2>2. /\ c \in Calls /\ Waits(c) /\ IsFirst(k, want[c] \ got[c])
          /\ \A j \in DOMAIN queue[k] : c = queue[k][j] => i = j
      BY <2>1, QueueFacts
    <2>3. phase'[c] = phase[c] /\ want'[c] = want[c] /\ got'[c] = got[c]
      BY <2>2
    <2>. HIDE DEF c
    <2>4. /\ phase'[c] \in {"waiting", "withdrawing"} /\ IsFirst(k, want'[c] \ got'[c])
          /\ \A j \in DOMAIN queue'[k] : c = queue'[k][j] => i = j
      BY <2>2, <2>3 DEF Waits
    <2>. QED
      BY <2>1, <2>4
  <1>2. ASSUME NEW c \in Calls, phase'[c] \in {"waiting", "withdrawing"}
        PROVE  \E k \in Keys : \E i \in DOMAIN queue'[k] : queue'[k][i] = c
    <2>1. phase[c] \in {"waiting", "withdrawing"}
      BY <1>2 DEF Waits
    <2>2. \E k \in Keys : \E i \in DOMAIN queue[k] : queue[k][i] = c
      BY <2>1 DEF LockInv, QueueMatchesWaiters
    <2>. QED
      BY <2>2
  <1>. QED
    BY <1>1, <1>2 DEF QueueMatchesWaiters

\* A call waits in one queue only.
LEMMA OneQueue ==
  ASSUME LockInv, NEW k \in Keys, NEW i \in DOMAIN queue[k],
         NEW m \in Keys, NEW j \in DOMAIN queue[m], queue[k][i] = queue[m][j]
  PROVE  k = m /\ i = j
  <1>. QueueMatchesWaiters /\ Keys \subseteq Nat
    BY CoordinatorAssumption DEF LockInv
  <1>1. /\ IsFirst(k, want[queue[k][i]] \ got[queue[k][i]])
        /\ IsFirst(m, want[queue[k][i]] \ got[queue[k][i]])
    BY QueueFacts
  <1>2. k <= m /\ m <= k
    BY <1>1 DEF IsFirst
  <1>3. k = m
    BY <1>2
  <1>. QED
    BY <1>3 DEF QueueMatchesWaiters

\* Whoever leaves the head or the middle of a queue leaves the others waiting
\* where they are.
LEMMA QueueLeft ==
  ASSUME LockInv, NEW k \in Keys, NEW x \in DOMAIN queue[k],
         NEW c0, c0 = queue[k][x], ~Waits(c0)',
         queue' = [queue EXCEPT ![k] = RemoveAt(queue[k], x)],
         \A c \in Calls \ {c0} : Waits(c) \/ Waits(c)' =>
           phase'[c] = phase[c] /\ want'[c] = want[c] /\ got'[c] = got[c]
  PROVE  QueueMatchesWaiters'
  <1>. DEFINE left == RemoveAt(queue[k], x)
              pos(i) == IF i < x THEN i ELSE i + 1
  <1>. QueueMatchesWaiters /\ TypeOK
    BY DEF LockInv
  <1>1. /\ Len(queue[k]) \in Nat /\ DOMAIN queue[k] = 1..Len(queue[k])
        /\ queue[k] \in Seq(Calls)
    BY DEF TypeOK
  <1>2. /\ left \in Seq(Calls) /\ Len(left) = Len(queue[k]) - 1
        /\ \A i \in 1..Len(queue[k])-1 : left[i] = IF i < x THEN queue[k][i] ELSE queue[k][i+1]
    BY <1>1, RemoveAtElements, RemoveAtType
  <1>3. DOMAIN left = 1..Len(queue[k])-1
    BY <1>2, LenProperties
  <1>4. queue'[k] = left /\ \A m \in Keys \ {k} : queue'[m] = queue[m]
    BY DEF TypeOK
  <1>. HIDE DEF left
  <1>5. \A i \in DOMAIN left : /\ pos(i) \in DOMAIN queue[k] /\ pos(i) # x
                               /\ left[i] = queue[k][pos(i)]
    BY <1>1, <1>2, <1>3
  <1>6. ASSUME NEW m \in Keys, NEW i \in DOMAIN queue'[m]
        PROVE  /\ phase'[queue'[m][i]] \in {"waiting", "withdrawing"}
               /\ IsFirst(m, want'[queue'[m][i]] \ got'[queue'[m][i]])
               /\ \A j \in DOMAIN queue'[m] : queue'[m][i] = queue'[m][j] => i = j
    <2>1. CASE m = k
      <3>1. i \in DOMAIN left
        BY <1>4, <2>1
      <3>. DEFINE c == left[i]
      <3>2. pos(i) \in DOMAIN queue[k] /\ c = queue[k][pos(i)] /\ pos(i) # x
        BY <3>1, <1>5
      <3>3. /\ c \in Calls /\ Waits(c) /\ IsFirst(k, want[c] \ got[c])
            /\ \A j \in DOMAIN queue[k] : c = queue[k][j] => pos(i) = j
        <4>. HIDE DEF c, pos
        <4>1. PICK p \in DOMAIN queue[k] : p = pos(i) /\ c = queue[k][p]
          BY <3>2
        <4>2. /\ queue[k][p] \in Calls /\ Waits(queue[k][p])
              /\ IsFirst(k, want[queue[k][p]] \ got[queue[k][p]])
              /\ \A j \in DOMAIN queue[k] : queue[k][p] = queue[k][j] => p = j
          BY QueueFacts
        <4>. QED
          BY <4>1, <4>2
      <3>4. c # c0
        BY <3>2, <3>3
      <3>5. ASSUME NEW j \in DOMAIN left, c = left[j] PROVE i = j
        <4>1. pos(j) \in DOMAIN queue[k] /\ c = queue[k][pos(j)]
          BY <3>5, <1>5
        <4>2. pos(i) = pos(j)
          BY <4>1, <3>3
        <4>. QED
          BY <3>1, <3>5, <4>2, <1>1, <1>3
      <3>6. phase'[c] = phase[c] /\ want'[c] = want[c] /\ got'[c] = got[c]
        BY <3>3, <3>4
      <3>. HIDE DEF c
      <3>7. phase'[c] \in {"waiting", "withdrawing"} /\ IsFirst(k, want'[c] \ got'[c])
        BY <3>3, <3>6 DEF Waits
      <3>8. queue'[m] = left /\ queue'[m][i] = c
        BY <2>1, <1>4 DEF c
      <3>. QED
        BY <2>1, <3>5, <3>7, <3>8
    <2>2. CASE m # k
      <3>. DEFINE c == queue[m][i]
      <3>1. queue'[m] = queue[m] /\ i \in DOMAIN queue[m] /\ queue'[m][i] = c
        BY <1>4, <1>6, <2>2
      <3>2. c # c0
        BY <2>2, <3>1, OneQueue
      <3>3. /\ c \in Calls /\ Waits(c) /\ IsFirst(m, want[c] \ got[c])
            /\ \A j \in DOMAIN queue[m] : c = queue[m][j] => i = j
        BY <3>1, QueueFacts
      <3>4. phase'[c] = phase[c] /\ want'[c] = want[c] /\ got'[c] = got[c]
        BY <3>2, <3>3
      <3>. HIDE DEF c
      <3>5. phase'[c] \in {"waiting", "withdrawing"} /\ IsFirst(m, want'[c] \ got'[c])
        BY <3>3, <3>4 DEF Waits
      <3>. QED
        BY <3>1, <3>3, <3>5
    <2>. QED
      BY <2>1, <2>2
  <1>7. ASSUME NEW c \in Calls, Waits(c)'
        PROVE  \E m \in Keys : \E i \in DOMAIN queue'[m] : queue'[m][i] = c
    <2>1. c # c0
      BY <1>7
    <2>2. Waits(c)
      BY <1>7, <2>1 DEF Waits
    <2>3. PICK m \in Keys : \E i \in DOMAIN queue[m] : queue[m][i] = c
      BY <2>2 DEF QueueMatchesWaiters, Waits
    <2>4. PICK i \in DOMAIN queue[m] : queue[m][i] = c
      BY <2>3
    <2>5. CASE m = k
      <3>. DEFINE j == IF i < x THEN i ELSE i - 1
      <3>1. i # x /\ i \in 1..Len(queue[k])
        BY <2>1, <2>4, <2>5, <1>1
      <3>2. j \in DOMAIN left /\ left[j] = c
        BY <3>1, <2>4, <2>5, <1>1, <1>2, <1>3
      <3>. QED
        BY <3>2, <1>4
    <2>6. CASE m # k
      BY <2>4, <2>6, <1>4
    <2>. QED
      BY <2>5, <2>6
  <1>. QED
    BY <1>6, <1>7 DEF QueueMatchesWaiters, Waits

\* A call joins one queue when it starts to wait and leaves it when it stops.
LEMMA QueueStep ==
  ASSUME LockInv, [Next]_vars
  PROVE  QueueMatchesWaiters'
  <1>. TypeOK
    BY DEF LockInv
  <1>. Calls \subseteq Ops /\ \A r \in Requests : r \notin Calls
    BY CoordinatorAssumption DEF Ops
  <1>1. CASE Quiet
    BY <1>1, QueueFrame DEF Quiet, locks, Waits
  <1>2. ASSUME NEW c \in Calls, BeginAcquire(c) \/ WithdrawTooLate(c)
        PROVE  QueueMatchesWaiters'
    <2>1. ~Waits(c) /\ ~Waits(c)'
      BY <1>2 DEF BeginAcquire, WithdrawTooLate, AfterFailure, Waits, TypeOK
    <2>2. \A d \in Calls \ {c} :
            phase'[d] = phase[d] /\ want'[d] = want[d] /\ got'[d] = got[d]
      BY <1>2 DEF BeginAcquire, WithdrawTooLate, TypeOK
    <2>. QED
      BY <1>2, <2>1, <2>2, QueueFrame DEF BeginAcquire, WithdrawTooLate, locks
  <1>3. ASSUME NEW r \in Requests, RequestHandoff(r) PROVE QueueMatchesWaiters'
    <2>1. \A d \in Calls : phase'[d] = phase[d] /\ want'[d] = want[d] /\ got'[d] = got[d]
      BY <1>3 DEF RequestHandoff, TypeOK
    <2>. QED
      BY <1>3, <2>1, QueueFrame DEF RequestHandoff, locks
  <1>4. ASSUME NEW c \in Calls, NEW j \in Keys, TryAcquire(c, j)
        PROVE  QueueMatchesWaiters'
    <2>1. CASE Enter(c, j)
      <3>1. ~Waits(c) /\ ~Waits(c)'
        BY <1>4, <2>1 DEF TryAcquire, Enter, AfterGrant, Waits, TypeOK
      <3>2. \A d \in Calls \ {c} :
              phase'[d] = phase[d] /\ want'[d] = want[d] /\ got'[d] = got[d]
        BY <1>4, <2>1 DEF TryAcquire, Enter, TypeOK
      <3>. QED
        BY <2>1, <3>1, <3>2, QueueFrame DEF Enter
    <2>2. CASE Enqueue(c, j)
      <3>. DEFINE new == Append(queue[j], c)
      <3>1. /\ queue[j] \in Seq(Calls) /\ Len(queue[j]) \in Nat
            /\ DOMAIN queue[j] = 1..Len(queue[j])
        BY LenProperties DEF TypeOK
      <3>2. /\ DOMAIN new = 1..Len(queue[j])+1 /\ new[Len(queue[j])+1] = c
            /\ \A i \in DOMAIN queue[j] : new[i] = queue[j][i]
        BY <3>1
      <3>3. queue'[j] = new /\ \A m \in Keys \ {j} : queue'[m] = queue[m]
        BY <2>2 DEF Enqueue, TypeOK
      <3>. HIDE DEF new
      <3>4. /\ phase[c] = "try" /\ phase'[c] \in {"waiting", "withdrawing"}
            /\ IsFirst(j, want'[c] \ got'[c])
            /\ \A d \in Calls \ {c} : phase'[d] = phase[d]
            /\ want' = want /\ got' = got
        BY <1>4, <2>2 DEF TryAcquire, Enqueue, TypeOK
      <3>5. ASSUME NEW m \in Keys, NEW i \in DOMAIN queue[m]
            PROVE  /\ queue[m][i] # c
                   /\ phase'[queue[m][i]] \in {"waiting", "withdrawing"}
                   /\ IsFirst(m, want'[queue[m][i]] \ got'[queue[m][i]])
                   /\ \A h \in DOMAIN queue[m] : queue[m][i] = queue[m][h] => i = h
        BY <3>4, QueueFacts DEF Waits
      <3>6. ASSUME NEW m \in Keys, NEW i \in DOMAIN queue'[m]
            PROVE  /\ phase'[queue'[m][i]] \in {"waiting", "withdrawing"}
                   /\ IsFirst(m, want'[queue'[m][i]] \ got'[queue'[m][i]])
                   /\ \A h \in DOMAIN queue'[m] : queue'[m][i] = queue'[m][h] => i = h
        <4>1. CASE m # j
          <5>1. queue'[m] = queue[m] /\ i \in DOMAIN queue[m]
            BY <3>3, <3>6, <4>1
          <5>. QED
            BY <3>5, <5>1
        <4>2. CASE m = j /\ i \in DOMAIN queue[j]
          <5>1. queue'[m] = new /\ new[i] = queue[j][i]
            BY <3>2, <3>3, <4>2
          <5>2. /\ queue[j][i] # c
                /\ phase'[queue[j][i]] \in {"waiting", "withdrawing"}
                /\ IsFirst(j, want'[queue[j][i]] \ got'[queue[j][i]])
                /\ \A h \in DOMAIN queue[j] : queue[j][i] = queue[j][h] => i = h
            BY <3>5, <4>2
          <5>3. \A h \in DOMAIN new : new[i] = new[h] => i = h
            BY <3>1, <3>2, <5>1, <5>2
          <5>. QED
            BY <4>2, <5>1, <5>2, <5>3
        <4>3. CASE m = j /\ i = Len(queue[j])+1
          <5>1. queue'[m] = new /\ new[i] = c
            BY <3>2, <3>3, <4>3
          <5>2. \A h \in DOMAIN queue[j] : new[h] # c
            BY <3>2, <3>5
          <5>3. \A h \in DOMAIN new : h \in DOMAIN queue[j] \/ h = Len(queue[j])+1
            BY <3>1, <3>2
          <5>4. \A h \in DOMAIN new : c = new[h] => i = h
            BY <5>2, <5>3, <4>3
          <5>. QED
            BY <3>4, <4>3, <5>1, <5>4
        <4>4. m = j => i \in DOMAIN queue[j] \/ i = Len(queue[j])+1
          BY <3>1, <3>2, <3>3, <3>6
        <4>. QED
          BY <4>1, <4>2, <4>3, <4>4
      <3>7. ASSUME NEW d \in Calls, phase'[d] \in {"waiting", "withdrawing"}
            PROVE  \E m \in Keys : \E i \in DOMAIN queue'[m] : queue'[m][i] = d
        <4>1. CASE d = c
          BY <3>1, <3>2, <3>3, <4>1
        <4>2. CASE d # c
          <5>1. \E m \in Keys : \E i \in DOMAIN queue[m] : queue[m][i] = d
            BY <3>4, <3>7, <4>2 DEF LockInv, QueueMatchesWaiters
          <5>2. PICK m \in Keys : \E i \in DOMAIN queue[m] : queue[m][i] = d
            BY <5>1
          <5>3. PICK i \in DOMAIN queue[m] : queue[m][i] = d
            BY <5>2
          <5>4. CASE m = j
            BY <3>1, <3>2, <3>3, <5>3, <5>4
          <5>5. CASE m # j
            BY <3>3, <5>3, <5>5
          <5>. QED
            BY <5>4, <5>5
        <4>. QED
          BY <4>1, <4>2
      <3>. QED
        BY <3>6, <3>7 DEF QueueMatchesWaiters
    <2>. QED
      BY <1>4, <2>1, <2>2 DEF TryAcquire
  <1>5. ASSUME NEW c \in Calls, NEW j \in Keys, Cancels(c, j)
        PROVE  QueueMatchesWaiters'
    <2>1. PICK x \in DOMAIN queue[j] :
            /\ queue[j][x] = c
            /\ queue' = [queue EXCEPT ![j] = RemoveAt(queue[j], x)]
      BY <1>5 DEF Cancels, CancelWaiter
    <2>2. /\ ~Waits(c)' /\ want' = want /\ got' = got
          /\ \A d \in Calls \ {c} : phase'[d] = phase[d]
      BY <1>5 DEF Cancels, CancelWaiter, AfterFailure, Waits, TypeOK
    <2>. QED
      BY <2>1, <2>2, QueueLeft
  <1>6. ASSUME NEW o \in Ops, NEW K \in SUBSET Keys, Takes(o, K)
        PROVE  QueueMatchesWaiters'
    <2>1. /\ queue' = queue /\ ~Waits(o) /\ ~Waits(o)'
          /\ \A d \in Calls \ {o} : phase'[d] = phase[d] /\ got'[d] = got[d]
      BY <1>6, SeizeFacts DEF Takes, Waits
    <2>2. \A d \in Calls \ {o} : want'[d] = want[d]
      BY <1>6 DEF Takes, TypeOK
    <2>. QED
      BY <2>1, <2>2, QueueFrame
  <1>7. ASSUME NEW o \in Ops, BeginRelease(o) \/ Again(o) PROVE QueueMatchesWaiters'
    <2>1. \A d \in Calls : Waits(d) \/ Waits(d)' =>
            phase'[d] = phase[d] /\ want'[d] = want[d] /\ got'[d] = got[d]
      BY <1>7 DEF BeginRelease, Again, Settled, Waits, TypeOK
    <2>. QED
      BY <1>7, <2>1, QueueFrame DEF BeginRelease, Again, locks
  <1>8. ASSUME NEW o \in Ops, NEW j \in Keys, ReleaseOne(o, j)
        PROVE  QueueMatchesWaiters'
    <2>1. CASE ReleaseGrants(o, j)
      <3>1. PICK w \in Calls : GrantedTo(o, j, w)
        BY <1>8, <2>1, GrantFacts
      <3>2. queue[j] \in Seq(Calls) /\ queue[j] # <<>> /\ queue[j][1] = w
        BY <3>1 DEF GrantedTo, TypeOK
      <3>3. 1 \in DOMAIN queue[j] /\ Tail(queue[j]) = RemoveAt(queue[j], 1)
        BY <3>2, TailIsRemoveAt
      <3>4. queue' = [queue EXCEPT ![j] = RemoveAt(queue[j], 1)]
        BY <3>1, <3>3 DEF GrantedTo
      <3>5. ~Waits(w)' /\ ~Waits(o) /\ ~Waits(o)'
        BY <1>8, <3>1 DEF GrantedTo, ReleaseOne, AfterGrant, AfterRelease, Waits
      <3>6. \A d \in Calls \ {w} : Waits(d) \/ Waits(d)' =>
              phase'[d] = phase[d] /\ want'[d] = want[d] /\ got'[d] = got[d]
        BY <3>1, <3>5 DEF GrantedTo
      <3>. QED
        BY <3>2, <3>3, <3>4, <3>5, <3>6, QueueLeft
    <2>2. CASE ~ReleaseGrants(o, j)
      <3>1. GiveBack(o, j) /\ queue' = queue /\ want' = want
        BY <1>8, <2>2 DEF ReleaseOne, ReleaseIgnored, ReleaseCounted, ReleaseFrees, locks
      <3>2. \A d \in Calls : Waits(d) \/ Waits(d)' =>
              phase'[d] = phase[d] /\ want'[d] = want[d] /\ got'[d] = got[d]
        BY <1>8, <3>1 DEF ReleaseOne, GiveBack, AfterRelease, Waits, TypeOK
      <3>. QED
        BY <3>1, <3>2, QueueFrame
    <2>. QED
      BY <2>1, <2>2
  <1>9. CASE Clear
    <2>1. \A k \in Keys : queue'[k] = <<>>
      BY <1>9 DEF Clear
    <2>2. \A d \in Calls : phase'[d] \notin {"waiting", "withdrawing"}
      BY <1>9 DEF Clear, AfterFailure
    <2>. QED
      BY <2>1, <2>2 DEF QueueMatchesWaiters
  <1>. QED
    BY <1>1, <1>2, <1>3, <1>4, <1>5, <1>6, <1>7, <1>8, <1>9, StepKinds

-----------------------------------------------------------------------------


\* The invariant is inductive: it holds in the initial state and every section
\* of the mutex, timer, abort and host call keeps it.
THEOREM LockInvariant == Spec => []LockInv
  <1>1. Init => LockInv
    <2>. SUFFICES ASSUME Init PROVE LockInv
      OBVIOUS
    <2>1. TypeOK /\ LockShape
      BY CoordinatorAssumption
         DEF Init, TypeOK, Phases, NoRequest, HandoffRecord, Statuses, LockShape, Pending,
             PendingStatuses
    <2>2. QueueMatchesWaiters /\ NoIdleWithWaiters
      BY DEF Init, QueueMatchesWaiters, NoIdleWithWaiters, Ops
    <2>3. ASSUME NEW k \in Keys PROVE Backed(k)
      <3>1. owner[k] = None /\ refs[k] = 0
        BY DEF Init
      <3>2. Cardinality(Claimants(k, owner[k])) \in Nat
        BY ClaimantsFinite
      <3>. QED
        BY <3>1, <3>2 DEF Backed
    <2>. QED
      BY <2>1, <2>2, <2>3 DEF LockInv, OwnershipBacked, Backed
  <1>2. LockInv /\ [Next]_vars => LockInv'
    BY TypeStep, ShapeStep, QueueStep, IdleStep, BackedStep DEF LockInv
  <1>. QED
    BY <1>1, <1>2, PTL DEF Spec

\* No waiter is ever left queued on a free resource.
THEOREM NobodyIsForgotten == Spec => []NoIdleWithWaiters
  BY LockInvariant, PTL DEF LockInv

\* The queues hold exactly the calls that wait, each once, on its next key.
THEOREM QueuesAreExact == Spec => []QueueMatchesWaiters
  BY LockInvariant, PTL DEF LockInv

\* No resource stays owned without a lease or an unfinished acquire behind
\* every counted entry.
THEOREM OwnershipIsBacked == Spec => []OwnershipBacked
  BY LockInvariant, PTL DEF LockInv

-----------------------------------------------------------------------------
(* Which steps change the owner of a key.                                  *)

OwnerChanges(k) ==
  \/ owner[k] = None
  \/ \E o \in Ops : ReleaseOne(o, k) /\ OwnedBy(o, k)
  \/ \E c \in Calls : Takeover(c) /\ k \in want'[c]
  \/ \E r \in Requests : CompleteHandoff(r) /\ k \in want[r]
  \/ Clear

LEMMA OwnerStep ==
  ASSUME LockInv, [Next]_vars, NEW k \in Keys, owner'[k] # owner[k]
  PROVE  OwnerChanges(k)
<1>0. owner \in [Keys -> Tokens \cup {None}] /\ want \in [Ops -> SUBSET Keys]
  BY DEF LockInv, TypeOK
<1>1. ASSUME NEW c \in Calls, CallStep(c)
      PROVE  OwnerChanges(k)
  <2>1. CASE Takeover(c)
    <3>1. PICK K \in SUBSET Keys : Seize(c, K) /\ want' = [want EXCEPT ![c] = K]
      BY <2>1 DEF Takeover
    <3>2. want'[c] = K
      BY <1>0, <3>1 DEF Ops
    <3>3. k \in K
      BY <3>1 DEF Seize
    <3> QED
      BY <2>1, <3>2, <3>3 DEF OwnerChanges
  <2>2. ASSUME NEW j \in Keys, TryAcquire(c, j)
        PROVE  owner[k] = None
    <3>1. CASE Enter(c, j)
      BY <1>0, <3>1 DEF Enter, MayEnter
    <3>2. CASE Enqueue(c, j)
      BY <3>2 DEF Enqueue
    <3> QED
      BY <2>2, <3>1, <3>2 DEF TryAcquire
  <2>3. ASSUME NEW j \in Keys, CancelWaiter(c, j)
        PROVE  FALSE
    BY <2>3 DEF CancelWaiter
  <2>4. CASE BeginAcquire(c) \/ Abort(c) \/ WithdrawTooLate(c)
    BY <2>4 DEF BeginAcquire, Abort, WithdrawTooLate, locks
  <2> QED
    BY <1>1, <2>1, <2>2, <2>3, <2>4 DEF CallStep, GiveUp, Withdraw, OwnerChanges
<1>2. ASSUME NEW r \in Requests, RequestStep(r)
      PROVE  OwnerChanges(k)
  <2>1. CASE CompleteHandoff(r)
    <3>1. k \in want[r]
      BY <2>1 DEF CompleteHandoff, Seize
    <3> QED
      BY <2>1, <3>1 DEF OwnerChanges
  <2>2. CASE ~CompleteHandoff(r)
    BY <1>2, <2>2 DEF RequestStep, RequestHandoff, ApproveHandoff, PauseHandoff,
                      CancelHandoff, DeadlinePasses, UseOverdue, locks
  <2> QED
    BY <2>1, <2>2
<1>3. ASSUME NEW o \in Ops, LeaseStep(o)
      PROVE  OwnerChanges(k)
  <2>1. ASSUME NEW j \in Keys, ReleaseOne(o, j)
        PROVE  j = k /\ OwnedBy(o, k)
    BY <1>0, <2>1 DEF ReleaseOne, ReleaseIgnored, ReleaseCounted, ReleaseFrees, ReleaseGrants,
                      locks
  <2>2. CASE BeginRelease(o) \/ Again(o)
    BY <2>2 DEF BeginRelease, Again, locks
  <2> QED
    BY <1>3, <2>1, <2>2 DEF LeaseStep, OwnerChanges
<1>4. CASE ExpireHandoffRequests \/ UNCHANGED vars
  BY <1>4 DEF ExpireHandoffRequests, vars, locks
<1>5. CASE Clear
  BY <1>5 DEF OwnerChanges
<1> QED
  BY <1>1, <1>2, <1>3, <1>4, <1>5 DEF Next

\* What a release that changes the owner does.
LEMMA ReleaseStep ==
  ASSUME LockInv, NEW o \in Ops, NEW k \in Keys, ReleaseOne(o, k), OwnedBy(o, k),
         owner'[k] # owner[k]
  PROVE  /\ k \in got[o] /\ k \notin got'[o]
         /\ request' = ExpireOver({k}, {}) /\ want' = want
         /\ \A j \in Keys \ {k} : owner'[j] = owner[j]
         /\ queue[k] # <<>> => /\ owner'[k] = Token[Head(queue[k])]
                               /\ queue'[k] = Tail(queue[k])
<1>0. /\ owner \in [Keys -> Tokens \cup {None}] /\ queue \in [Keys -> Seq(Calls)]
      /\ got \in [Ops -> SUBSET Keys]
  BY DEF LockInv, TypeOK
<1>1. k \in got[o] /\ want' = want
  BY DEF ReleaseOne, IsLast
<1>2. CASE ReleaseFrees(o, k)
  BY <1>0, <1>1, <1>2 DEF ReleaseFrees, GiveBack, NobodyWaits
<1>3. CASE ReleaseGrants(o, k)
  <2>1. PICK w \in Calls : GrantedTo(o, k, w)
    BY <1>3, GrantFacts
  <2>2. request' = ExpireOver({k}, {})
    BY <1>3 DEF ReleaseGrants
  <2> QED
    BY <1>0, <1>1, <2>1, <2>2 DEF GrantedTo
<1>4. ~ReleaseIgnored(o, k) /\ ~ReleaseCounted(o, k)
  BY DEF ReleaseIgnored, ReleaseCounted
<1> QED
  BY <1>2, <1>3, <1>4 DEF ReleaseOne

-----------------------------------------------------------------------------
(* The order of grants.                                                    *)

Granted(k) == owner'[k] = Token[Head(queue[k])] /\ queue'[k] = Tail(queue[k])

LEMMA GrantStep ==
  ASSUME LockInv, [Next]_vars, NEW k \in Keys, queue[k] # <<>>, owner'[k] # owner[k]
  PROVE  Seized(k) \/ Cleared' \/ Granted(k)
<1>1. owner[k] # None
  BY DEF LockInv, NoIdleWithWaiters
<1>2. ASSUME NEW o \in Ops, ReleaseOne(o, k), OwnedBy(o, k)
      PROVE  Granted(k)
  BY <1>2, ReleaseStep DEF Granted
<1>3. ASSUME NEW c \in Calls, Takeover(c), k \in want'[c]
      PROVE  Seized(k)
  <2>1. PICK K \in SUBSET Keys : Seize(c, K)
    BY <1>3 DEF Takeover
  <2>2. c \in Ops /\ phase[c] = "idle"
    BY <1>3 DEF Takeover, Ops
  <2>3. phase'[c] = "held"
    BY <2>1, <2>2 DEF Seize, LockInv, TypeOK
  <2> QED
    BY <1>3, <2>2, <2>3 DEF Seized
<1>4. ASSUME NEW r \in Requests, CompleteHandoff(r), k \in want[r]
      PROVE  Seized(k)
  <2>1. r \in Ops /\ phase[r] = "idle"
    BY <1>4 DEF CompleteHandoff, LockInv, LockShape, Pending, PendingStatuses, Ops
  <2>2. phase'[r] = "held" /\ want' = want
    BY <1>4, <2>1 DEF CompleteHandoff, Seize, LockInv, TypeOK
  <2> QED
    BY <1>4, <2>1, <2>2 DEF Seized
<1>5. Clear => Cleared'
  BY DEF Clear, Cleared
<1> QED
  BY <1>1, <1>2, <1>3, <1>4, <1>5, OwnerStep DEF OwnerChanges

\* Nobody overtakes: a key with waiters goes to the oldest of them, unless a
\* handoff takes it or clear() drops everything.
THEOREM NobodyOvertakes == Spec => FifoGrants
<1>1. ASSUME LockInv, [Next]_vars
      PROVE  \A k \in Keys :
               queue[k] # <<>> /\ owner'[k] # owner[k] =>
                 \/ Seized(k)
                 \/ Cleared'
                 \/ /\ owner'[k] = Token[Head(queue[k])]
                    /\ queue'[k] = Tail(queue[k])
  BY <1>1, GrantStep DEF Granted
<1> QED
  BY <1>1, LockInvariant, PTL DEF Spec, FifoGrants

-----------------------------------------------------------------------------
(* Requests: whom they are addressed to, and who approved them.            *)

\* An approved request for what a person owns was approved by the person, or by
\* the user interface on the person's behalf.
HumanAsked ==
  \A r \in Requests :
    /\ request[r].status \in {"approved", "paused"} /\ request[r].owner # None
    /\ Kind[request[r].owner] = "human"
    => request[r].grounds \in {"owner", "host"}

RequestInv == LockInv /\ PendingOwnerCurrent /\ HumanAsked

\* What becomes of a pending request that is not the one a step serves.
Spared(r) == /\ request'[r] = request[r]
             /\ want'[r] = want[r]
             /\ \A k \in want[r] : owner'[k] = owner[k] \/ owner[k] = None

Addressed(r) ==
  request[r].owner # None => \E k \in want[r] : owner[k] = request[r].owner

LEMMA SparedInv ==
  ASSUME RequestInv, NEW r \in Requests, Pending(r), Spared(r)
  PROVE  Addressed(r)'
BY DEF RequestInv, LockInv, TypeOK, PendingOwnerCurrent, Spared, Addressed, Ops

\* The requests an expiry leaves pending are as they were, and ask for other keys.
LEMMA ExpireFacts ==
  ASSUME LockInv, NEW K, NEW spared, NEW rs, rs = ExpireOver(K, spared)
  PROVE  \A r \in Requests :
           \/ rs[r] = request[r] /\ (Pending(r) => r \in spared \/ want[r] \cap K = {})
           \/ rs[r].status = "expired"
BY DEF ExpireOver, Mark, LockInv, TypeOK, HandoffRecord

\* A step that serves no request but r leaves the others alone or ends them.
LEMMA CallStepSpares ==
  ASSUME RequestInv, NEW c \in Calls, CallStep(c), NEW r \in Requests, Pending(r)'
  PROVE  Pending(r) /\ Spared(r)
<1>0. /\ owner \in [Keys -> Tokens \cup {None}] /\ want \in [Ops -> SUBSET Keys]
      /\ c \in Ops /\ r \in Ops /\ c # r /\ LockInv
  BY CoordinatorAssumption DEF RequestInv, LockInv, TypeOK, Ops
<1>1. CASE BeginAcquire(c)
  BY <1>0, <1>1 DEF BeginAcquire, locks, Pending, Spared
<1>2. ASSUME NEW k \in Keys, TryAcquire(c, k)
      PROVE  Pending(r) /\ Spared(r)
  <2>1. \A j \in Keys : owner'[j] = owner[j] \/ owner[j] = None
    BY <1>0, <1>2 DEF TryAcquire, Enter, MayEnter, Enqueue
  <2> QED
    BY <1>0, <1>2, <2>1 DEF TryAcquire, Pending, Spared
<1>3. ASSUME NEW k \in Keys, GiveUp(c, k) \/ Withdraw(c, k)
      PROVE  Pending(r) /\ Spared(r)
  BY <1>0, <1>3 DEF GiveUp, Withdraw, CancelWaiter, Pending, Spared
<1>4. CASE Abort(c) \/ WithdrawTooLate(c)
  BY <1>0, <1>4 DEF Abort, WithdrawTooLate, locks, Pending, Spared
<1>5. CASE Takeover(c)
  <2>1. PICK K \in SUBSET Keys : /\ Seize(c, K) /\ want' = [want EXCEPT ![c] = K]
                                 /\ request' = ExpireOver(K, {})
    BY <1>5 DEF Takeover
  <2>2. request'[r] = request[r] /\ Pending(r) /\ want[r] \cap K = {}
    BY <1>0, <2>1, ExpireFacts DEF Pending, PendingStatuses
  <2>3. \A k \in want[r] : owner'[k] = owner[k]
    BY <1>0, <2>1, <2>2 DEF Seize
  <2>4. want'[r] = want[r]
    BY <1>0, <2>1
  <2> QED
    BY <2>2, <2>3, <2>4 DEF Spared
<1> QED
  BY <1>1, <1>2, <1>3, <1>4, <1>5 DEF CallStep

LEMMA LeaseStepSpares ==
  ASSUME RequestInv, NEW o \in Ops, LeaseStep(o), NEW r \in Requests, Pending(r)'
  PROVE  Pending(r) /\ Spared(r)
<1>0. /\ owner \in [Keys -> Tokens \cup {None}] /\ want \in [Ops -> SUBSET Keys]
      /\ request \in [Requests -> HandoffRecord] /\ r \in Ops /\ LockInv
  BY DEF RequestInv, LockInv, TypeOK, Ops
<1>1. CASE BeginRelease(o)
  BY <1>0, <1>1 DEF BeginRelease, locks, Pending, Spared
<1>2. ASSUME NEW k \in Keys, ReleaseOne(o, k)
      PROVE  Pending(r) /\ Spared(r)
  <2>1. CASE owner'[k] # owner[k]
    <3>1. OwnedBy(o, k)
      BY <1>2, <2>1 DEF ReleaseOne, ReleaseIgnored, ReleaseCounted, ReleaseFrees, ReleaseGrants,
                        locks
    <3>2. /\ request' = ExpireOver({k}, {}) /\ want' = want
          /\ \A j \in Keys \ {k} : owner'[j] = owner[j]
      BY <1>0, <1>2, <2>1, <3>1, ReleaseStep
    <3>3. request'[r] = request[r] /\ Pending(r) /\ k \notin want[r]
      BY <1>0, <3>2, ExpireFacts DEF Pending, PendingStatuses
    <3> QED
      BY <1>0, <3>2, <3>3 DEF Spared
  <2>2. CASE owner'[k] = owner[k]
    <3>1. \A j \in Keys : owner'[j] = owner[j]
      BY <1>0, <1>2, <2>2 DEF ReleaseOne, ReleaseIgnored, ReleaseCounted, ReleaseFrees,
                              ReleaseGrants, locks
    <3>2. want' = want /\ (request' = request \/ request' = ExpireOver({k}, {}))
      BY <1>2 DEF ReleaseOne, ReleaseIgnored, ReleaseCounted, ReleaseFrees, ReleaseGrants
    <3>3. request'[r] = request[r] /\ Pending(r)
      BY <1>0, <3>2, ExpireFacts DEF Pending, PendingStatuses
    <3> QED
      BY <1>0, <3>1, <3>2, <3>3 DEF Spared
  <2> QED
    BY <2>1, <2>2
<1>3. CASE Again(o)
  <2>1. o # r
    <3> SUFFICES ASSUME o = r PROVE FALSE
      OBVIOUS
    <3>1. request'[r] = NoRequest
      BY <1>0, <1>3 DEF Again
    <3> QED
      BY <3>1 DEF Pending, NoRequest, PendingStatuses
  <2>2. request'[r] = request[r] /\ want'[r] = want[r] /\ owner' = owner
    BY <1>0, <1>3, <2>1 DEF Again, locks
  <2> QED
    BY <2>2 DEF Pending, Spared
<1> QED
  BY <1>1, <1>2, <1>3 DEF LeaseStep

\* The steps of request q serve q, and leave the others alone or end them.
LEMMA RequestStepServes ==
  ASSUME RequestInv, NEW q \in Requests, RequestStep(q), NEW r \in Requests, Pending(r)'
  PROVE  Addressed(r)'
<1>0. /\ owner \in [Keys -> Tokens \cup {None}] /\ want \in [Ops -> SUBSET Keys]
      /\ request \in [Requests -> HandoffRecord] /\ r \in Ops /\ q \in Ops /\ LockInv
      /\ PendingOwnerCurrent
  BY DEF RequestInv, LockInv, TypeOK, Ops
<1>1. CASE RequestHandoff(q)
  <2>1. PICK K \in SUBSET Keys, auto \in BOOLEAN, d \in {"never", "ahead"},
             o \in Tokens \cup {None} :
               /\ o # None => o \in Owners(K)
               /\ want' = [want EXCEPT ![q] = K]
               /\ request' = [request EXCEPT ![q] =
                    [status |-> Verdict(o, auto)[1], owner |-> o,
                     grounds |-> Verdict(o, auto)[2], deadline |-> d]]
               /\ owner' = owner
    BY <1>1 DEF RequestHandoff, locks
  <2>2. CASE r = q
    <3>1. want'[r] = K /\ request'[r].owner = o
      BY <1>0, <2>1, <2>2
    <3> QED
      BY <2>1, <3>1 DEF Addressed, Owners
  <2>3. CASE r # q
    <3>1. Pending(r) /\ Spared(r)
      BY <1>0, <2>1, <2>3 DEF Pending, Spared
    <3> QED
      BY <3>1, SparedInv
  <2> QED
    BY <2>2, <2>3
<1>2. CASE CompleteHandoff(q)
  <2>1. /\ Seize(q, want[q]) /\ want' = want
        /\ request' = [ExpireOver(want[q], {q}) EXCEPT ![q] = Mark(request[q], "completed")]
    BY <1>2 DEF CompleteHandoff
  <2>2. r # q
    <3> SUFFICES ASSUME r = q PROVE FALSE
      OBVIOUS
    <3>1. request'[r] = Mark(request[r], "completed")
      BY <2>1 DEF ExpireOver
    <3> QED
      BY <1>0, <3>1 DEF Pending, PendingStatuses, Mark, HandoffRecord
  <2>3. request'[r] = ExpireOver(want[q], {q})[r]
    BY <2>1, <2>2 DEF ExpireOver
  <2>4. request'[r] = request[r] /\ Pending(r) /\ want[r] \cap want[q] = {}
    BY <1>0, <2>2, <2>3, ExpireFacts DEF Pending, PendingStatuses
  <2>5. \A k \in want[r] : owner'[k] = owner[k]
    BY <1>0, <2>1, <2>4 DEF Seize
  <2> QED
    BY <2>1, <2>4, <2>5, SparedInv DEF Spared
<1>3. CASE ApproveHandoff(q) \/ PauseHandoff(q) \/ CancelHandoff(q) \/ DeadlinePasses(q)
           \/ UseOverdue(q)
  <2>1. owner' = owner /\ want' = want /\ Pending(q)
    BY <1>3 DEF ApproveHandoff, PauseHandoff, CancelHandoff, DeadlinePasses, UseOverdue, locks,
                Overdue, Pending, PendingStatuses
  <2>2. /\ request'[q].owner = request[q].owner
        /\ \A p \in Requests \ {q} : request'[p] = request[p]
    BY <1>0, <1>3 DEF ApproveHandoff, PauseHandoff, CancelHandoff, DeadlinePasses, UseOverdue,
                      Mark, HandoffRecord
  <2>3. Pending(r) /\ request'[r].owner = request[r].owner
    BY <2>1, <2>2 DEF Pending
  <2> QED
    BY <1>0, <2>1, <2>3 DEF Addressed, PendingOwnerCurrent
<1> QED
  BY <1>1, <1>2, <1>3 DEF RequestStep

LEMMA AddressedStep ==
  ASSUME RequestInv, [Next]_vars
  PROVE  PendingOwnerCurrent'
<1> SUFFICES ASSUME NEW r \in Requests, Pending(r)'
             PROVE  Addressed(r)'
  BY DEF PendingOwnerCurrent, Addressed
<1>1. CASE UNCHANGED vars \/ ExpireHandoffRequests
  <2>1. owner' = owner /\ want' = want
    BY <1>1 DEF ExpireHandoffRequests, vars, locks
  <2>2. request'[r] = request[r]
    BY <1>1 DEF ExpireHandoffRequests, vars, Pending, PendingStatuses, Mark, RequestInv,
                LockInv, TypeOK, HandoffRecord
  <2> QED
    BY <2>1, <2>2, SparedInv DEF Pending, Spared
<1>2. CASE Clear
  BY <1>2 DEF Clear, Pending, PendingStatuses, NoRequest
<1>3. ASSUME Pending(r) /\ Spared(r)
      PROVE  Addressed(r)'
  BY <1>3, SparedInv
<1> QED
  BY <1>1, <1>2, <1>3, CallStepSpares, LeaseStepSpares, RequestStepServes DEF Next

LEMMA HumanAskedStep ==
  ASSUME RequestInv, [Next]_vars
  PROVE  HumanAsked'
<1> DEFINE Asked(rec) == /\ rec.status \in {"approved", "paused"} /\ rec.owner # None
                         /\ Kind[rec.owner] = "human"
                         => rec.grounds \in {"owner", "host"}
<1>0. /\ request \in [Requests -> HandoffRecord] /\ LockInv
      /\ \A r \in Requests : Asked(request[r])
  BY DEF RequestInv, LockInv, TypeOK, HumanAsked
<1>1. ASSUME NEW K, NEW spared, NEW r \in Requests
      PROVE  Asked(ExpireOver(K, spared)[r])
  BY <1>0, ExpireFacts
<1>2. Asked(NoRequest)
  BY DEF NoRequest
<1>3. ASSUME NEW q \in Requests, NEW s \in {"completed", "canceled", "expired"}
      PROVE  Asked(Mark(request[q], s))
  BY <1>0 DEF Mark, HandoffRecord
<1> HIDE DEF Asked
<1> SUFFICES ASSUME NEW r \in Requests
             PROVE  Asked(request'[r])
  BY DEF HumanAsked, Asked
<1>4. ASSUME NEW c \in Calls, CallStep(c)
      PROVE  Asked(request'[r])
  BY <1>0, <1>1, <1>4 DEF CallStep, BeginAcquire, TryAcquire, GiveUp, Withdraw, CancelWaiter,
                          Abort, WithdrawTooLate, Takeover
<1>5. ASSUME NEW o \in Ops, LeaseStep(o)
      PROVE  Asked(request'[r])
  <2>1. CASE Again(o)
    BY <1>0, <1>2, <2>1 DEF Again
  <2>2. CASE ~Again(o)
    BY <1>0, <1>1, <1>5, <2>2 DEF LeaseStep, BeginRelease, ReleaseOne, ReleaseIgnored,
                                  ReleaseCounted, ReleaseFrees, ReleaseGrants
  <2> QED
    BY <2>1, <2>2
<1>6. ASSUME NEW q \in Requests, RequestStep(q)
      PROVE  Asked(request'[r])
  <2>1. CASE RequestHandoff(q)
    <3>1. PICK o \in Tokens \cup {None}, auto \in BOOLEAN, d \in {"never", "ahead"} :
            request' = [request EXCEPT ![q] =
                         [status |-> Verdict(o, auto)[1], owner |-> o,
                          grounds |-> Verdict(o, auto)[2], deadline |-> d]]
      BY <2>1 DEF RequestHandoff
    <3>2. Asked([status |-> Verdict(o, auto)[1], owner |-> o,
                 grounds |-> Verdict(o, auto)[2], deadline |-> d])
      BY DEF Asked, Verdict
    <3> QED
      BY <1>0, <3>1, <3>2
  <2>2. CASE ApproveHandoff(q)
    <3>1. PICK g \in {"owner", "host"}, s \in {"approved", "paused"} :
            request' = [request EXCEPT ![q] = [Mark(request[q], s) EXCEPT !.grounds = g]]
      BY <2>2 DEF ApproveHandoff
    <3>2. Asked([Mark(request[q], s) EXCEPT !.grounds = g])
      BY <1>0 DEF Asked, Mark, HandoffRecord
    <3> QED
      BY <1>0, <3>1, <3>2
  <2>3. CASE PauseHandoff(q)
    <3>1. PICK g \in {"owner", "host"} :
            request' = [request EXCEPT ![q] =
              [Mark(request[q], "paused") EXCEPT
                 !.grounds = IF request[q].status = "requested" THEN g
                             ELSE request[q].grounds]]
      BY <2>3 DEF PauseHandoff
    <3>2. request[q].status \in {"requested", "approved"}
      BY <2>3 DEF PauseHandoff
    <3>3. Asked([Mark(request[q], "paused") EXCEPT
                   !.grounds = IF request[q].status = "requested" THEN g
                               ELSE request[q].grounds])
      BY <1>0, <3>2 DEF Asked, Mark, HandoffRecord
    <3> QED
      BY <1>0, <3>1, <3>3
  <2>4. CASE CompleteHandoff(q)
    <3>1. request' = [ExpireOver(want[q], {q}) EXCEPT ![q] = Mark(request[q], "completed")]
      BY <2>4 DEF CompleteHandoff
    <3>2. request'[r] \in {ExpireOver(want[q], {q})[r], Mark(request[q], "completed")}
      BY <3>1 DEF ExpireOver
    <3> QED
      BY <1>1, <1>3, <3>2
  <2>5. CASE CancelHandoff(q)
    BY <1>0, <1>3, <2>5 DEF CancelHandoff
  <2>6. CASE DeadlinePasses(q)
    BY <1>0, <2>6 DEF DeadlinePasses, Asked, HandoffRecord
  <2>7. CASE UseOverdue(q)
    BY <1>0, <1>3, <2>7 DEF UseOverdue, Mark
  <2> QED
    BY <1>6, <2>1, <2>2, <2>3, <2>4, <2>5, <2>6, <2>7 DEF RequestStep
<1>7. CASE UNCHANGED vars
  BY <1>0, <1>7 DEF vars
<1>8. CASE ExpireHandoffRequests
  BY <1>0, <1>3, <1>8 DEF ExpireHandoffRequests
<1>9. CASE Clear
  BY <1>2, <1>9 DEF Clear
<1> QED
  BY <1>4, <1>5, <1>6, <1>7, <1>8, <1>9 DEF Next

LEMMA RequestInvariant == Spec => []RequestInv
<1>1. Init => PendingOwnerCurrent /\ HumanAsked
  BY DEF Init, PendingOwnerCurrent, HumanAsked, Pending, PendingStatuses, NoRequest
<1>2. RequestInv /\ LockInv' /\ [Next]_vars => RequestInv'
  BY AddressedStep, HumanAskedStep DEF RequestInv
<1>3. LockInv /\ PendingOwnerCurrent /\ HumanAsked <=> RequestInv
  BY DEF RequestInv
<1> QED
  BY <1>1, <1>2, <1>3, LockInvariant, PTL DEF Spec

\* While a request is pending, the owner it was addressed to owns a key it asks for.
THEOREM PendingIsAddressed == Spec => []PendingOwnerCurrent
<1>1. RequestInv => PendingOwnerCurrent
  BY DEF RequestInv
<1> QED
  BY <1>1, RequestInvariant, PTL

-----------------------------------------------------------------------------
(* A person's keys.                                                        *)

PersonLoses(k) == owner[k] # None /\ Kind[owner[k]] = "human" /\ owner'[k] # owner[k]
GivenBack(k) == \E o \in Ops : Token[o] = owner[k] /\ GivesBack(o, k)
Agreed(k) ==
  \E r \in Requests : /\ Completes(r)
                      /\ k \in want[r]
                      /\ request[r].owner = owner[k]
                      /\ request[r].grounds \in {"owner", "host"}

LEMMA PersonStep ==
  ASSUME RequestInv, [Next]_vars, Takeovers = {}, NEW k \in Keys, PersonLoses(k)
  PROVE  GivenBack(k) \/ Agreed(k) \/ Cleared'
<1>0. LockInv /\ request \in [Requests -> HandoffRecord]
  BY DEF RequestInv, LockInv, TypeOK
<1>1. ASSUME NEW o \in Ops, ReleaseOne(o, k), OwnedBy(o, k)
      PROVE  GivenBack(k)
  BY <1>0, <1>1, ReleaseStep DEF PersonLoses, GivenBack, GivesBack, OwnedBy
<1>2. ASSUME NEW r \in Requests, CompleteHandoff(r), k \in want[r]
      PROVE  Agreed(k)
  <2>1. /\ request[r].status \in {"approved", "paused"}
        /\ owner[k] \in {Token[r], request[r].owner}
        /\ Seize(r, want[r])
        /\ request' = [ExpireOver(want[r], {r}) EXCEPT ![r] = Mark(request[r], "completed")]
    BY <1>2 DEF CompleteHandoff, OwnerStillCurrent
  <2>2. owner'[k] = Token[r]
    BY <1>2, <2>1 DEF Seize
  <2>3. request[r].owner = owner[k]
    BY <2>1, <2>2 DEF PersonLoses
  <2>4. request'[r] = Mark(request[r], "completed")
    BY <2>1 DEF ExpireOver
  <2>5. Completes(r)
    BY <1>0, <2>1, <2>4 DEF Completes, Mark, HandoffRecord
  <2>6. request[r].grounds \in {"owner", "host"}
    BY <2>1, <2>3 DEF PersonLoses, RequestInv, HumanAsked
  <2> QED
    BY <1>2, <2>3, <2>5, <2>6 DEF Agreed
<1>3. ~\E c \in Calls : Takeover(c)
  BY DEF Takeover
<1>4. Clear => Cleared'
  BY DEF Clear, Cleared
<1> QED
  BY <1>0, <1>1, <1>2, <1>3, <1>4, OwnerStep DEF OwnerChanges, PersonLoses

\* Where nobody may use the low-level handoff, a person's key changes hands only by
\* the person's release, with the person's or the host's consent, or by clear().
THEOREM PersonKeepsControl ==
  ASSUME Takeovers = {}
  PROVE  Spec => HumanKeepsControl
<1>1. ASSUME RequestInv, [Next]_vars
      PROVE  \A k \in Keys :
               /\ owner[k] # None /\ Kind[owner[k]] = "human"
               /\ owner'[k] # owner[k]
               => \/ \E o \in Ops : Token[o] = owner[k] /\ GivesBack(o, k)
                  \/ \E r \in Requests :
                       /\ Completes(r)
                       /\ k \in want[r]
                       /\ request[r].owner = owner[k]
                       /\ request[r].grounds \in {"owner", "host"}
                  \/ Cleared'
  BY <1>1, PersonStep DEF PersonLoses, GivenBack, Agreed
<1> QED
  BY <1>1, RequestInvariant, PTL DEF Spec, HumanKeepsControl

-----------------------------------------------------------------------------
(* A lease and its keys, where every call has a token of its own.          *)

OwnTokens == \A o, p \in Ops : Token[o] = Token[p] => o = p
Holds(o, k) == k \in got[o] \ lost[o]

\* Whoever's key changes hands has released it or is told so.
LEMMA HoldsStep ==
  ASSUME OwnTokens, LockInv, LeaseIsOwned, [Next]_vars,
         NEW o \in Ops, NEW k \in Keys, Holds(o, k)'
  PROVE  owner'[k] = Token[o]
<1>0. /\ owner \in [Keys -> Tokens \cup {None}] /\ got \in [Ops -> SUBSET Keys]
      /\ lost \in [Ops -> SUBSET Keys] /\ Token \in [Ops -> Tokens] /\ None \notin Tokens
      /\ Calls \subseteq Ops /\ Requests \subseteq Ops
  BY CoordinatorAssumption DEF LockInv, TypeOK, Ops
<1>1. Holds(o, k) => owner[k] = Token[o]
  BY DEF LeaseIsOwned, Holds
<1>2. ASSUME owner' = owner, got' = got, lost' = lost
      PROVE  owner'[k] = Token[o]
  BY <1>1, <1>2 DEF Holds
<1>3. ASSUME NEW p \in Ops, NEW K \in SUBSET Keys, phase[p] = "idle", Seize(p, K)
      PROVE  owner'[k] = Token[o]
  <2>1. /\ owner'[k] = IF k \in K THEN Token[p] ELSE owner[k]
        /\ got' = [got EXCEPT ![p] = K]
        /\ lost' = Displaced(p, K)
    BY <1>3 DEF Seize
  <2>2. CASE o = p
    BY <1>0, <2>1, <2>2 DEF Holds
  <2>3. CASE o # p
    <3>1. got'[o] = got[o] /\ lost'[o] = lost[o] \cup (K \cap got[o])
      BY <1>0, <2>1, <2>3 DEF Displaced, OwnTokens
    <3> QED
      BY <1>1, <2>1, <3>1 DEF Holds
  <2> QED
    BY <2>2, <2>3
<1>4. ASSUME NEW c \in Calls, CallStep(c)
      PROVE  owner'[k] = Token[o]
  <2>1. CASE Takeover(c)
    BY <1>0, <1>3, <2>1 DEF Takeover
  <2>2. ASSUME NEW j \in Keys, TryAcquire(c, j)
        PROVE  owner'[k] = Token[o]
    <3>1. CASE Enqueue(c, j)
      BY <1>2, <2>2, <3>1 DEF TryAcquire, Enqueue
    <3>2. CASE Enter(c, j)
      <4>1. /\ owner[j] \in {None, Token[c]} /\ lost' = lost
            /\ owner' = [owner EXCEPT ![j] = Token[c]]
            /\ got' = [got EXCEPT ![c] = @ \cup {j}]
        BY <2>2, <3>2 DEF TryAcquire, Enter, MayEnter
      <4>2. CASE o = c /\ k = j
        BY <1>0, <4>1, <4>2
      <4>3. CASE ~(o = c /\ k = j)
        <5>1. Holds(o, k)
          BY <1>0, <4>1, <4>3 DEF Holds
        <5> QED
          BY <1>0, <1>1, <4>1, <5>1
      <4> QED
        BY <4>2, <4>3
    <3> QED
      BY <2>2, <3>1, <3>2 DEF TryAcquire
  <2>3. CASE ~Takeover(c) /\ ~\E j \in Keys : TryAcquire(c, j)
    BY <1>2, <1>4, <2>3 DEF CallStep, BeginAcquire, GiveUp, Withdraw, CancelWaiter, Abort,
                            WithdrawTooLate, locks
  <2> QED
    BY <2>1, <2>2, <2>3
<1>5. ASSUME NEW r \in Requests, RequestStep(r)
      PROVE  owner'[k] = Token[o]
  <2>1. CASE CompleteHandoff(r)
    <3>1. /\ r \in Ops /\ phase[r] = "idle" /\ Seize(r, want[r])
          /\ want[r] \in SUBSET Keys
      BY <2>1 DEF CompleteHandoff, LockInv, LockShape, TypeOK, Pending, PendingStatuses, Ops
    <3> QED
      BY <1>3, <3>1
  <2>2. CASE ~CompleteHandoff(r)
    BY <1>2, <1>5, <2>2 DEF RequestStep, RequestHandoff, ApproveHandoff, PauseHandoff,
                            CancelHandoff, DeadlinePasses, UseOverdue, locks
  <2> QED
    BY <2>1, <2>2
<1>6. ASSUME NEW p \in Ops, NEW j \in Keys, ReleaseOne(p, j)
      PROVE  owner'[k] = Token[o]
  <2>1. lost' = [lost EXCEPT ![p] = @ \ {j}]
    BY <1>6 DEF ReleaseOne
  <2>2. CASE ReleaseGrants(p, j)
    <3>1. PICK w \in Calls : GrantedTo(p, j, w)
      BY <1>6, <2>2, GrantFacts
    <3>2. /\ w # p /\ owner' = [owner EXCEPT ![j] = Token[w]] /\ got'[p] = got[p] \ {j}
          /\ got'[w] \in {got[w], got[w] \cup {j}} /\ w \in Ops
          /\ \A q \in Ops \ {p, w} : got'[q] = got[q]
      BY <3>1 DEF GrantedTo
    <3>3. owner[j] = Token[p]
      BY <2>2 DEF ReleaseGrants, OwnedBy
    <3>4. CASE o = w
      BY <1>0, <1>1, <2>1, <3>2, <3>4 DEF Holds
    <3>5. CASE o = p
      BY <1>0, <1>1, <2>1, <3>2, <3>5 DEF Holds
    <3>6. CASE o \notin {w, p}
      <4>1. Holds(o, k)
        BY <1>0, <2>1, <3>2, <3>6 DEF Holds
      <4> QED
        BY <1>0, <1>1, <3>2, <3>3, <3>6, <4>1 DEF OwnTokens
    <3> QED
      BY <3>4, <3>5, <3>6
  <2>3. CASE ~ReleaseGrants(p, j)
    <3>1. /\ got' = [got EXCEPT ![p] = @ \ {j}]
          /\ owner' = owner \/ (OwnedBy(p, j) /\ owner' = [owner EXCEPT ![j] = None])
      BY <1>6, <2>3 DEF ReleaseOne, ReleaseIgnored, ReleaseCounted, ReleaseFrees, GiveBack, locks
    <3>2. Holds(o, k) /\ ~(o = p /\ k = j)
      BY <1>0, <2>1, <3>1 DEF Holds
    <3> QED
      BY <1>0, <1>1, <3>1, <3>2 DEF OwnTokens, OwnedBy
  <2> QED
    BY <2>2, <2>3
<1>7. ASSUME NEW p \in Ops, BeginRelease(p) \/ Again(p)
      PROVE  owner'[k] = Token[o]
  BY <1>2, <1>7 DEF BeginRelease, Again, locks
<1>8. CASE ExpireHandoffRequests \/ UNCHANGED vars
  BY <1>2, <1>8 DEF ExpireHandoffRequests, vars, locks
<1>9. CASE Clear
  BY <1>9 DEF Clear, Holds
<1> QED
  BY <1>4, <1>5, <1>6, <1>7, <1>8, <1>9 DEF Next, LeaseStep

\* Where every call has a token of its own, a lease owns each of its keys until it is
\* released or displaced: no two leases share a key.
THEOREM LeasesOwnTheirKeys ==
  ASSUME OwnTokens
  PROVE  Spec => []LeaseIsOwned
<1>1. Init => LeaseIsOwned
  BY DEF Init, LeaseIsOwned
<1>2. LockInv /\ LeaseIsOwned /\ [Next]_vars => LeaseIsOwned'
  <2> SUFFICES ASSUME LockInv, LeaseIsOwned, [Next]_vars, TypeOK'
               PROVE  LeaseIsOwned'
    BY TypeStep DEF LockInv
  <2>1. \A o \in Ops : got'[o] \subseteq Keys
    BY DEF TypeOK
  <2> QED
    BY <2>1, HoldsStep DEF LeaseIsOwned, Holds
<1> QED
  BY <1>1, <1>2, LockInvariant, PTL DEF Spec

-----------------------------------------------------------------------------
(* The abstract lease.                                                     *)

Wanted == [k \in Keys |-> ToSet(queue[k])]

LeaseStays == owner' = owner /\ Wanted' = Wanted

-----------------------------------------------------------------------------
(* Queues and the sets of their elements.                                  *)

LEMMA AppendedElements ==
  ASSUME NEW S, NEW s \in Seq(S), NEW e \in S
  PROVE  ToSet(Append(s, e)) = ToSet(s) \cup {e}
<1>1. /\ DOMAIN s = 1..Len(s) /\ Len(s) \in Nat
      /\ DOMAIN Append(s, e) = 1..(Len(s) + 1)
      /\ \A i \in 1..Len(s) : Append(s, e)[i] = s[i]
      /\ Append(s, e)[Len(s) + 1] = e
  OBVIOUS
<1>2. ToSet(Append(s, e)) \subseteq ToSet(s) \cup {e}
  BY <1>1 DEF ToSet
<1>3. ToSet(s) \cup {e} \subseteq ToSet(Append(s, e))
  BY <1>1 DEF ToSet
<1> QED
  BY <1>2, <1>3

LEMMA RemovedElements ==
  ASSUME NEW S, NEW s \in Seq(S), NEW x \in DOMAIN s,
         \A i, j \in DOMAIN s : s[i] = s[j] => i = j
  PROVE  ToSet(RemoveAt(s, x)) = ToSet(s) \ {s[x]}
<1> DEFINE r == RemoveAt(s, x)
<1>1. /\ DOMAIN s = 1..Len(s) /\ Len(s) \in Nat /\ x \in 1..Len(s)
      /\ r \in Seq(S) /\ Len(r) = Len(s) - 1
      /\ \A j \in 1..(Len(s) - 1) : r[j] = IF j < x THEN s[j] ELSE s[j + 1]
  BY RemoveAtElements, RemoveAtType
<1> HIDE DEF r
<1>2. DOMAIN r = 1..(Len(s) - 1)
  BY <1>1
<1>3. ASSUME NEW j \in DOMAIN r
      PROVE  r[j] \in ToSet(s) \ {s[x]}
  <2>1. /\ j \in 1..Len(s) /\ j + 1 \in 1..Len(s)
        /\ (j < x => j # x) /\ (~(j < x) => j + 1 # x)
    BY <1>1, <1>2
  <2> QED
    BY <1>1, <1>2, <2>1 DEF ToSet
<1>4. ASSUME NEW i \in DOMAIN s, i # x
      PROVE  s[i] \in ToSet(r)
  <2>1. CASE i < x
    <3>1. i \in 1..(Len(s) - 1)
      BY <1>1, <2>1
    <3> QED
      BY <1>1, <1>2, <2>1, <3>1 DEF ToSet
  <2>2. CASE i > x
    <3>1. i - 1 \in 1..(Len(s) - 1) /\ ~(i - 1 < x) /\ (i - 1) + 1 = i
      BY <1>1, <2>2
    <3> QED
      BY <1>1, <1>2, <3>1 DEF ToSet
  <2> QED
    BY <1>1, <1>4, <2>1, <2>2
<1>5. ToSet(r) \subseteq ToSet(s) \ {s[x]}
  BY <1>3 DEF ToSet
<1>6. ToSet(s) \ {s[x]} \subseteq ToSet(r)
  BY <1>4 DEF ToSet
<1> QED
  BY <1>5, <1>6 DEF r

\* A queue has nobody twice, and only calls.
LEMMA WantedFacts ==
  ASSUME LockInv, NEW k \in Keys
  PROVE  /\ queue \in [Keys -> Seq(Calls)] /\ queue[k] \in Seq(Calls)
         /\ \A i, j \in DOMAIN queue[k] : queue[k][i] = queue[k][j] => i = j
         /\ Wanted[k] = ToSet(queue[k]) /\ Wanted[k] \subseteq Calls
<1>1. queue \in [Keys -> Seq(Calls)] /\ queue[k] \in Seq(Calls)
  BY DEF LockInv, TypeOK
<1>2. \A i, j \in DOMAIN queue[k] : queue[k][i] = queue[k][j] => i = j
  BY DEF LockInv, QueueMatchesWaiters
<1>3. ToSet(queue[k]) \subseteq Calls
  <2>1. \A i \in DOMAIN queue[k] : queue[k][i] \in Calls
    BY <1>1
  <2> QED
    BY <2>1 DEF ToSet
<1> QED
  BY <1>1, <1>2, <1>3 DEF Wanted

\* One queue changes.
LEMMA WantedStep ==
  ASSUME LockInv, NEW k \in Keys, NEW q, queue' = [queue EXCEPT ![k] = q]
  PROVE  Wanted' = [Wanted EXCEPT ![k] = ToSet(q)]
<1>1. queue \in [Keys -> Seq(Calls)]
  BY DEF LockInv, TypeOK
<1>2. \A j \in Keys : queue'[j] = IF j = k THEN q ELSE queue[j]
  BY <1>1
<1>3. Wanted' = [j \in Keys |-> IF j = k THEN ToSet(q) ELSE ToSet(queue[j])]
  <2>1. \A j \in Keys : ToSet(queue'[j]) = IF j = k THEN ToSet(q) ELSE ToSet(queue[j])
    BY <1>2
  <2>2. Wanted' = [j \in Keys |-> ToSet(queue'[j])]
    BY DEF Wanted
  <2> QED
    BY <2>1, <2>2
<1>4. [Wanted EXCEPT ![k] = ToSet(q)]
        = [j \in Keys |-> IF j = k THEN ToSet(q) ELSE ToSet(queue[j])]
  BY DEF Wanted
<1> QED
  BY <1>3, <1>4

-----------------------------------------------------------------------------
(* Steps.                                                                  *)

LEMMA AcquireImplements ==
  ASSUME LockInv, NEW c \in Calls, NEW k \in Keys, TryAcquire(c, k)
  PROVE  LeaseStays \/ Lease!Take(c, k) \/ Lease!Ask(c, k)
<1>0. owner \in [Keys -> Tokens \cup {None}] /\ c \in Ops
  BY DEF LockInv, TypeOK, Ops
<1>1. CASE Enter(c, k)
  <2>1. /\ owner[k] \in {None, Token[c]} /\ queue' = queue
        /\ owner' = [owner EXCEPT ![k] = Token[c]]
    BY <1>1 DEF Enter, MayEnter
  <2>2. Wanted' = Wanted
    BY <2>1 DEF Wanted
  <2>3. CASE owner[k] = None
    BY <2>1, <2>2, <2>3 DEF Lease!Take, Wanted
  <2>4. CASE owner[k] = Token[c]
    BY <1>0, <2>1, <2>2, <2>4 DEF LeaseStays
  <2> QED
    BY <2>1, <2>3, <2>4
<1>2. CASE Enqueue(c, k)
  <2>1. /\ owner' = owner /\ owner[k] \notin {None, Token[c]}
        /\ queue' = [queue EXCEPT ![k] = Append(queue[k], c)]
    BY <1>2 DEF Enqueue, MayEnter
  <2>2. c \notin Wanted[k]
    <3>1. phase[c] = "try"
      BY DEF TryAcquire
    <3>2. \A i \in DOMAIN queue[k] : queue[k][i] # c
      BY <3>1 DEF LockInv, QueueMatchesWaiters
    <3>3. Wanted[k] = {queue[k][i] : i \in DOMAIN queue[k]}
      BY WantedFacts DEF ToSet
    <3> QED
      BY <3>2, <3>3
  <2>3. Wanted' = [Wanted EXCEPT ![k] = ToSet(Append(queue[k], c))]
    BY <2>1, WantedStep
  <2>4. ToSet(Append(queue[k], c)) = Wanted[k] \cup {c}
    BY WantedFacts, AppendedElements
  <2> QED
    BY <2>1, <2>2, <2>3, <2>4 DEF Lease!Ask, Wanted
<1> QED
  BY <1>1, <1>2 DEF TryAcquire

LEMMA CancelImplements ==
  ASSUME LockInv, NEW c \in Calls, NEW k \in Keys, CancelWaiter(c, k)
  PROVE  Lease!Withdraw(c, k)
<1>1. PICK i \in DOMAIN queue[k] :
        queue[k][i] = c /\ queue' = [queue EXCEPT ![k] = RemoveAt(queue[k], i)]
  BY DEF CancelWaiter
<1>2. c \in Wanted[k]
  BY <1>1, WantedFacts DEF ToSet
<1>3. Wanted' = [Wanted EXCEPT ![k] = ToSet(RemoveAt(queue[k], i))]
  BY <1>1, WantedStep
<1>4. ToSet(RemoveAt(queue[k], i)) = Wanted[k] \ {c}
  BY <1>1, WantedFacts, RemovedElements
<1>5. owner' = owner
  BY DEF CancelWaiter
<1> QED
  BY <1>2, <1>3, <1>4, <1>5 DEF Lease!Withdraw, Wanted

LEMMA ReleaseImplements ==
  ASSUME LockInv, NEW o \in Ops, NEW k \in Keys, ReleaseOne(o, k)
  PROVE  LeaseStays \/ Lease!Leave(k) \/ Lease!PassOn(k)
<1>1. CASE ReleaseIgnored(o, k) \/ ReleaseCounted(o, k)
  <2>1. owner' = owner /\ queue' = queue
    BY <1>1 DEF ReleaseIgnored, ReleaseCounted, locks
  <2> QED
    BY <2>1 DEF LeaseStays, Wanted
<1>2. CASE ReleaseFrees(o, k)
  <2>1. /\ owner[k] = Token[o] /\ queue[k] = <<>> /\ queue' = queue
        /\ owner' = [owner EXCEPT ![k] = None]
    BY <1>2 DEF ReleaseFrees, OwnedBy, NobodyWaits
  <2>2. owner[k] # None
    BY <2>1, CoordinatorAssumption
  <2>3. Wanted' = Wanted /\ Wanted[k] = {}
    BY <2>1 DEF Wanted, ToSet
  <2> QED
    BY <2>1, <2>2, <2>3 DEF Lease!Leave, Wanted
<1>3. CASE ReleaseGrants(o, k)
  <2>1. PICK w \in Calls : GrantedTo(o, k, w)
    BY <1>3, GrantFacts
  <2>2. /\ w = queue[k][1] /\ queue[k] # <<>>
        /\ owner' = [owner EXCEPT ![k] = Token[w]]
        /\ queue' = [queue EXCEPT ![k] = Tail(queue[k])]
    BY <2>1 DEF GrantedTo
  <2>3. 1 \in DOMAIN queue[k] /\ Tail(queue[k]) = RemoveAt(queue[k], 1)
    BY <2>2, WantedFacts, TailIsRemoveAt
  <2>4. w \in Wanted[k]
    BY <2>2, <2>3, WantedFacts DEF ToSet
  <2>5. Wanted' = [Wanted EXCEPT ![k] = ToSet(Tail(queue[k]))]
    BY <2>2, WantedStep
  <2>6. ToSet(Tail(queue[k])) = Wanted[k] \ {w}
    BY <2>2, <2>3, WantedFacts, RemovedElements
  <2> QED
    BY <2>2, <2>4, <2>5, <2>6 DEF Lease!PassOn, Wanted
<1> QED
  BY <1>1, <1>2, <1>3 DEF ReleaseOne

\* Only a product-level handoff transfers, from the owner it was addressed to.
LEMMA CompleteImplements ==
  ASSUME LockInv, NEW r \in Requests, CompleteHandoff(r)
  PROVE  \E t \in {Token[q] : q \in Requests}, K \in SUBSET Keys : Lease!Transfer(t, K)
<1>1. /\ Seize(r, want[r])
      /\ \A k \in want[r] : owner[k] \in {Token[r], request[r].owner}
  BY DEF CompleteHandoff, OwnerStillCurrent
<1>2. request[r].owner \in Tokens \cup {None} /\ want[r] \in SUBSET Keys
  BY DEF LockInv, TypeOK, HandoffRecord, Ops
<1>3. /\ owner' = [k \in Keys |-> IF k \in want[r] THEN Token[r] ELSE owner[k]]
      /\ queue' = queue
  BY <1>1 DEF Seize
<1>4. Lease!Transfer(Token[r], want[r])
  BY <1>1, <1>2, <1>3 DEF Lease!Transfer
<1> QED
  BY <1>2, <1>4

LEMMA LeaseImplemented ==
  ASSUME LockInv, [Next]_vars, Takeovers = {}
  PROVE  Lease!LeaseNext \/ LeaseStays
<1>1. ASSUME NEW c \in Calls, CallStep(c)
      PROVE  Lease!LeaseNext \/ LeaseStays
  <2>1. ASSUME NEW k \in Keys, TryAcquire(c, k)
        PROVE  Lease!LeaseNext \/ LeaseStays
    BY <2>1, AcquireImplements DEF Lease!LeaseNext
  <2>2. ASSUME NEW k \in Keys, CancelWaiter(c, k)
        PROVE  Lease!LeaseNext
    BY <2>2, CancelImplements DEF Lease!LeaseNext
  <2>3. ~Takeover(c)
    BY DEF Takeover
  <2>4. CASE BeginAcquire(c) \/ Abort(c) \/ WithdrawTooLate(c)
    BY <2>4 DEF BeginAcquire, Abort, WithdrawTooLate, locks, LeaseStays, Wanted
  <2> QED
    BY <1>1, <2>1, <2>2, <2>3, <2>4 DEF CallStep, GiveUp, Withdraw
<1>2. ASSUME NEW r \in Requests, RequestStep(r)
      PROVE  Lease!LeaseNext \/ LeaseStays
  <2>1. CASE CompleteHandoff(r)
    BY <2>1, CompleteImplements DEF Lease!LeaseNext
  <2>2. CASE ~CompleteHandoff(r)
    BY <1>2, <2>2 DEF RequestStep, RequestHandoff, ApproveHandoff, PauseHandoff, CancelHandoff,
                      DeadlinePasses, UseOverdue, locks, LeaseStays, Wanted
  <2> QED
    BY <2>1, <2>2
<1>3. ASSUME NEW o \in Ops, LeaseStep(o)
      PROVE  Lease!LeaseNext \/ LeaseStays
  <2>1. ASSUME NEW k \in Keys, ReleaseOne(o, k)
        PROVE  Lease!LeaseNext \/ LeaseStays
    BY <2>1, ReleaseImplements DEF Lease!LeaseNext
  <2>2. CASE BeginRelease(o) \/ Again(o)
    BY <2>2 DEF BeginRelease, Again, locks, LeaseStays, Wanted
  <2> QED
    BY <1>3, <2>1, <2>2 DEF LeaseStep
<1>4. CASE ExpireHandoffRequests \/ UNCHANGED vars
  BY <1>4 DEF ExpireHandoffRequests, vars, locks, LeaseStays, Wanted
<1>5. CASE Clear
  <2>1. /\ MayClear /\ owner' = [k \in Keys |-> None]
        /\ queue' = [k \in Keys |-> <<>>]
    BY <1>5 DEF Clear
  <2>2. Wanted' = [k \in Keys |-> {}]
    BY <2>1 DEF Wanted, ToSet
  <2> QED
    BY <2>1, <2>2 DEF Lease!LeaseNext, Lease!Forget, Wanted
<1> QED
  BY <1>1, <1>2, <1>3, <1>4, <1>5 DEF Next

\* The coordinator keeps the promises of the lease, where nobody may use the
\* low-level handoff.
THEOREM KeepsItsPromises ==
  ASSUME Takeovers = {}
  PROVE  Spec => ImplementsLease
<1>1. Init => Lease!LeaseInit
  BY DEF Init, Lease!LeaseInit, ToSet
<1>2. LockInv /\ [Next]_vars => [Lease!LeaseNext]_(Lease!leaseVars)
  <2> SUFFICES ASSUME LockInv, [Next]_vars
               PROVE  Lease!LeaseNext \/ UNCHANGED Lease!leaseVars
    OBVIOUS
  <2> QED
    BY LeaseImplemented DEF LeaseStays, Wanted, Lease!leaseVars
<1> QED
  BY <1>1, <1>2, LockInvariant, PTL DEF Spec, ImplementsLease, Lease!LeaseSpec
=============================================================================
