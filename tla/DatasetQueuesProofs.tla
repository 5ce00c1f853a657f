-------------------------- MODULE DatasetQueuesProofs --------------------------
(***************************************************************************)
(* The safety of the dataset queues, for every number of datasets and of   *)
(* operations.  The inductive invariant has two parts.  QueueInv says what *)
(* the map and the chain stand for: everything queued before an entry that *)
(* has no predecessor is over, and so is everything of a dataset the map   *)
(* does not know.  It gives InTurn and QueuesForgotten.  OpInv, HeldInv    *)
(* and DataInv say which queues an operation holds at each of its labels,  *)
(* and what nobody else can do to a dataset whose queue it holds.  They    *)
(* give AttachedInUse and DeletedIsGone.                                   *)
(***************************************************************************)
EXTENDS DatasetQueues, TLAPS

States == {"no", "waiting", "running", "settled"}

QueueTypeOK ==
  /\ queryQueues \in [Datasets -> Entries \cup {None}]
  /\ promise \in [Entries -> States]
  /\ on \in [Entries -> Datasets \cup {None}]
  /\ after \in [Entries -> Entries \cup {None}]
  /\ number \in [Entries -> Nat]
  /\ arrived \in [Datasets -> Nat]

\* What the operations must be for each to enter queues of datasets only.
Records == [kind : Kinds, main : Datasets, other : Datasets]
Labels == {"idle", "look", "enter", "enterOther", "queued", "queuedOther", "read",
           "readOther", "attach", "attachOther", "use", "detach", "remove", "forget",
           "returning", "leaving", "over"}
OpInv ==
  /\ op \in [Ops -> Records \cup {None}]
  /\ pc \in [Ops -> Labels]
  /\ \A o \in Ops :
       /\ pc[o] # "idle" => op[o] \in Records
       /\ pc[o] = "enterOther" => Twice(op[o]) \/ op[o].kind = "export"

\* f was queued for e's dataset before e.
Before(f, e) == promise[f] # "no" /\ on[f] = on[e] /\ number[f] < number[e]
AllSettledBefore(e) == \A f \in Entries : Before(f, e) => promise[f] = "settled"

\* The entries of a dataset are numbered from 1 to arrived, each number once.
Numbered ==
  /\ \A e \in Entries : promise[e] # "no" =>
       on[e] \in Datasets /\ number[e] >= 1 /\ number[e] <= arrived[on[e]]
  /\ \A e, f \in Entries :
       promise[e] # "no" /\ promise[f] # "no" /\ on[e] = on[f] /\ number[e] = number[f]
         => e = f

\* A waiting entry is chained to the one before it, if that one may not be over.
Chained == \A e \in Entries : promise[e] = "waiting" =>
  IF after[e] = None THEN AllSettledBefore(e)
  ELSE promise[after[e]] # "no" /\ on[after[e]] = on[e] /\ number[after[e]] + 1 = number[e]

\* The map holds the newest entry of a dataset until it is over.
NewestKept == \A d \in Datasets :
  IF queryQueues[d] = None
  THEN \A e \in Entries : promise[e] # "no" /\ on[e] = d => promise[e] = "settled"
  ELSE /\ promise[queryQueues[d]] \in {"waiting", "running"}
       /\ on[queryQueues[d]] = d /\ number[queryQueues[d]] = arrived[d]

Begun == \A e \in Entries :
  promise[e] \in {"running", "settled"} => AllSettledBefore(e)

QueueInv == QueueTypeOK /\ Numbered /\ Chained /\ NewestKept /\ Begun
-----------------------------------------------------------------------------
(* One step of a queue.                                                    *)

LEMMA InitQueueInv == Init => QueueInv
<1> SUFFICES ASSUME Init PROVE QueueInv
  OBVIOUS
<1> QED
  BY SMT DEF Init, QueueInv, QueueTypeOK, Numbered, Chained, NewestKept, Begun,
             AllSettledBefore, Before, States

LEMMA EnqueueInv ==
  ASSUME NEW e \in Entries, NEW d \in Datasets, QueueInv, Enqueue(e, d)
  PROVE  QueueInv'
<1> USE DEF QueueInv, QueueTypeOK
<1>none. None \notin Entries
  BY QueuesAssumption DEF Entries
<1>1. QueueTypeOK'
  BY DEF Enqueue, States
<1>2. /\ promise[e] = "no" /\ promise'[e] = "waiting" /\ on'[e] = d
      /\ number'[e] = arrived[d] + 1 /\ arrived'[d] = arrived[d] + 1
      /\ after'[e] = queryQueues[d] /\ queryQueues'[d] = e
      /\ \A f \in Entries \ {e} : /\ promise'[f] = promise[f] /\ on'[f] = on[f]
                                  /\ number'[f] = number[f] /\ after'[f] = after[f]
      /\ \A b \in Datasets \ {d} : arrived'[b] = arrived[b] /\ queryQueues'[b] = queryQueues[b]
  BY DEF Enqueue
<1>3. Numbered'
  BY <1>1, <1>2 DEF Numbered
<1>4. \A f \in Entries \ {e} : promise[f] # "no" =>
        (AllSettledBefore(f) => AllSettledBefore(f)')
  BY <1>1, <1>2 DEF AllSettledBefore, Before, Numbered
<1>5. Begun'
  BY <1>2, <1>4 DEF Begun
<1>6. Chained'
  <2> SUFFICES ASSUME NEW g \in Entries, promise'[g] = "waiting"
               PROVE  IF after'[g] = None THEN AllSettledBefore(g)'
                      ELSE /\ promise'[after'[g]] # "no" /\ on'[after'[g]] = on'[g]
                           /\ number'[after'[g]] + 1 = number'[g]
    BY DEF Chained
  <2>1. CASE g # e
    <3>1. CASE after[g] = None
      BY <1>2, <1>4, <2>1, <3>1 DEF Chained
    <3>2. CASE after[g] # None
      BY <1>1, <1>2, <2>1, <3>2 DEF Chained
    <3> QED
      BY <3>1, <3>2
  <2>2. CASE g = e /\ queryQueues[d] = None
    BY <1>1, <1>2, <2>2 DEF NewestKept, AllSettledBefore, Before
  <2>3. CASE g = e /\ queryQueues[d] # None
    BY <1>1, <1>2, <2>3 DEF NewestKept
  <2> QED
    BY <2>1, <2>2, <2>3
<1>7. NewestKept'
  BY <1>none, <1>1, <1>2 DEF NewestKept
<1> QED
  BY <1>1, <1>3, <1>5, <1>6, <1>7

LEMMA BeginInv ==
  ASSUME NEW e \in Entries, QueueInv, Begin(e)
  PROVE  QueueInv'
<1> USE DEF QueueInv, QueueTypeOK
<1>1. QueueTypeOK'
  BY DEF Begin, States
<1>2. /\ promise[e] = "waiting" /\ promise'[e] = "running"
      /\ \A f \in Entries \ {e} : promise'[f] = promise[f] /\ after'[f] = after[f]
      /\ UNCHANGED <<queryQueues, on, number, arrived>>
  BY DEF Begin
<1>3. Numbered'
  BY <1>1, <1>2 DEF Numbered
<1>4. AllSettledBefore(e)
  <2>1. CASE after[e] = None
    BY <1>2, <2>1 DEF Chained
  <2>2. CASE after[e] # None
    <3>1. promise[after[e]] = "settled"
      BY <2>2 DEF Begin, HasTurn
    <3>2. after[e] \in Entries /\ on[after[e]] = on[e] /\ number[after[e]] + 1 = number[e]
      BY <1>2, <2>2 DEF Chained
    <3>3. AllSettledBefore(after[e])
      BY <3>1, <3>2 DEF Begun
    <3> SUFFICES ASSUME NEW f \in Entries, Before(f, e)
                 PROVE  promise[f] = "settled"
      BY DEF AllSettledBefore
    <3>4. number[f] < number[after[e]] \/ number[f] = number[after[e]]
      BY <3>2 DEF Before
    <3>5. CASE number[f] < number[after[e]]
      BY <3>2, <3>3, <3>5 DEF AllSettledBefore, Before
    <3>6. CASE number[f] = number[after[e]]
      BY <3>1, <3>2, <3>6 DEF Numbered, Before
    <3> QED
      BY <3>4, <3>5, <3>6
  <2> QED
    BY <2>1, <2>2
<1>5. \A f \in Entries : AllSettledBefore(f) => AllSettledBefore(f)'
  BY <1>1, <1>2 DEF AllSettledBefore, Before
<1>6. Begun'
  BY <1>2, <1>4, <1>5 DEF Begun
<1>7. Chained'
  BY <1>1, <1>2, <1>5 DEF Chained
<1>8. NewestKept'
  BY <1>1, <1>2 DEF NewestKept
<1> QED
  BY <1>1, <1>3, <1>6, <1>7, <1>8

LEMMA SettleInv ==
  ASSUME NEW e \in Entries, QueueInv, Settle(e)
  PROVE  QueueInv'
<1> USE DEF QueueInv, QueueTypeOK
<1>none. None \notin Entries
  BY QueuesAssumption DEF Entries
<1>1. QueueTypeOK'
  BY DEF Settle, Cleans, States
<1>2. /\ promise[e] = "running" /\ promise'[e] = "settled"
      /\ \A f \in Entries \ {e} : promise'[f] = promise[f]
      /\ UNCHANGED <<on, after, number, arrived>>
  BY DEF Settle
<1>3. on[e] \in Datasets /\ AllSettledBefore(e)
  BY <1>2 DEF Numbered, Begun
<1>4. Numbered'
  BY <1>1, <1>2 DEF Numbered
<1>5. \A f \in Entries : AllSettledBefore(f) => AllSettledBefore(f)'
  BY <1>1, <1>2 DEF AllSettledBefore, Before
<1>6. Begun'
  BY <1>2, <1>3, <1>5 DEF Begun
<1>7. Chained'
  BY <1>1, <1>2, <1>5 DEF Chained
<1>8. NewestKept'
  <2>1. CASE queryQueues[on[e]] = e
    <3>1. /\ queryQueues'[on[e]] = None
          /\ \A d \in Datasets \ {on[e]} : queryQueues'[d] = queryQueues[d]
      BY <1>3, <2>1 DEF Settle, Cleans
    <3>2. number[e] = arrived[on[e]]
      BY <1>3, <1>none, <2>1 DEF NewestKept
    <3>3. \A f \in Entries : promise[f] # "no" /\ on[f] = on[e] => promise'[f] = "settled"
      BY <1>2, <1>3, <3>2 DEF Numbered, AllSettledBefore, Before
    <3> QED
      BY <1>none, <1>1, <1>2, <3>1, <3>3 DEF NewestKept
  <2>2. CASE queryQueues[on[e]] # e
    <3>1. queryQueues' = queryQueues
      BY <2>2 DEF Settle, Cleans
    <3> QED
      BY <1>none, <1>1, <1>2, <2>2, <3>1 DEF NewestKept
  <2> QED
    BY <2>1, <2>2
<1> QED
  BY <1>1, <1>4, <1>6, <1>7, <1>8

LEMMA UnchangedInv ==
  ASSUME QueueInv, UNCHANGED queueVars
  PROVE  QueueInv'
BY DEF QueueInv, QueueTypeOK, Numbered, Chained, NewestKept, Begun, AllSettledBefore,
       Before, queueVars
-----------------------------------------------------------------------------
(* The operations.                                                         *)

\* A queue an operation enters is that of a dataset.
LEMMA QueuesAreDatasets ==
  ASSUME NEW r \in Records
  PROVE  /\ Queues(r)[1] \in Datasets
         /\ Twice(r) \/ r.kind = "export" => Queues(r)[2] \in Datasets
BY DEF Records, Queues, Sorted, Twice

\* An operation that has been called goes to another label.
LEMMA GotoInv ==
  ASSUME OpInv, NEW o \in Ops, pc[o] # "idle", op' = op,
         NEW l \in Labels, Goto(o, l),
         l = "enterOther" => Twice(op[o]) \/ op[o].kind = "export"
  PROVE  OpInv'
BY DEF OpInv, Goto, Labels, Twice

\* What one step of an operation does to the queues.
QueueStep ==
  \/ \E e \in Entries, d \in Datasets : Enqueue(e, d)
  \/ \E e \in Entries : Begin(e) \/ Settle(e)
  \/ UNCHANGED queueVars

LEMMA OpStep ==
  ASSUME OpInv, Next
  PROVE  OpInv' /\ QueueStep
<1> PICK o \in Ops : Call(o) \/ Work(o)
  BY DEF Next
<1>e. <<o, 1>> \in Entries /\ <<o, 2>> \in Entries
  BY DEF Entries
<1>1. CASE Call(o)
  <2> PICK k \in Kinds, d \in Datasets, b \in Datasets :
        LET r == [kind |-> k, main |-> d, other |-> b]
        IN /\ op' = [op EXCEPT ![o] = r]
           /\ IF k \in ReadsAhead
              THEN Goto(o, "look") /\ UNCHANGED queueVars
              ELSE Goto(o, "queued") /\ Enqueue(<<o, 1>>, Queues(r)[1])
    BY <1>1 DEF Call
  <2> DEFINE r == [kind |-> k, main |-> d, other |-> b]
  <2>1. r \in Records
    BY DEF Records
  <2>2. OpInv'
    <3>1. PICK l \in {"look", "queued"} : Goto(o, l)
      OBVIOUS
    <3>2. op' = [op EXCEPT ![o] = r] /\ op'[o] \in Records
      BY <2>1 DEF OpInv
    <3> HIDE DEF r
    <3> QED
      BY <2>1, <3>1, <3>2 DEF OpInv, Goto, Labels, Twice
  <2>3. QueueStep
    <3>1. CASE k \in ReadsAhead
      BY <3>1 DEF QueueStep
    <3>2. CASE k \notin ReadsAhead
      <4>1. Enqueue(<<o, 1>>, Queues(r)[1])
        BY <3>2
      <4>2. Queues(r)[1] \in Datasets
        BY <2>1, QueuesAreDatasets
      <4> HIDE DEF r
      <4> QED
        BY <1>e, <4>1, <4>2 DEF QueueStep
    <3> QED
      BY <3>1, <3>2
  <2> QED
    BY <2>2, <2>3
<1>2. CASE Enter(o)
  <2>1. op[o] \in Records
    BY <1>2 DEF Enter, OpInv
  <2>2. OpInv'
    <3>1. PICK l \in Labels : /\ Goto(o, l) /\ op' = op /\ pc[o] # "idle"
                              /\ l = "enterOther" => Twice(op[o]) \/ op[o].kind = "export"
      BY <1>2 DEF Enter, Labels
    <3> QED
      BY <3>1, GotoInv
  <2>3. CASE pc[o] = "enter"
    <3>1. Enqueue(<<o, 1>>, Queues(op[o])[1])
      BY <1>2, <2>3 DEF Enter
    <3>2. Queues(op[o])[1] \in Datasets
      BY <2>1, QueuesAreDatasets
    <3> QED
      BY <1>e, <2>2, <3>1, <3>2 DEF QueueStep
  <2>4. CASE pc[o] = "enterOther"
    <3>1. Enqueue(<<o, 2>>, Queues(op[o])[2])
      BY <1>2, <2>4 DEF Enter
    <3>2. Queues(op[o])[2] \in Datasets
      BY <2>1, <2>4, QueuesAreDatasets DEF OpInv
    <3> QED
      BY <1>e, <2>2, <3>1, <3>2 DEF QueueStep
  <2> QED
    BY <1>2, <2>3, <2>4 DEF Enter
<1>3. CASE Start(o)
  <2>1. OpInv'
    <3>1. PICK l \in Labels : /\ Goto(o, l) /\ op' = op /\ pc[o] # "idle"
                              /\ l = "enterOther" => Twice(op[o]) \/ op[o].kind = "export"
      BY <1>3 DEF Start, Labels
    <3> QED
      BY <3>1, GotoInv
  <2>2. Begin(<<o, 1>>) \/ Begin(<<o, 2>>)
    BY <1>3 DEF Start
  <2> QED
    BY <1>e, <2>1, <2>2 DEF QueueStep
<1>4. CASE Return(o) \/ Leave(o)
  <2>1. OpInv'
    <3>1. CASE UNCHANGED <<op, pc>>
      BY <3>1 DEF OpInv
    <3>2. CASE ~UNCHANGED <<op, pc>>
      <4>1. PICK l \in Labels : /\ Goto(o, l) /\ op' = op /\ pc[o] # "idle"
                                /\ l = "enterOther" => Twice(op[o]) \/ op[o].kind = "export"
        BY <1>4, <3>2 DEF Return, Leave, Labels
      <4> QED
        BY <4>1, GotoInv
    <3> QED
      BY <3>1, <3>2
  <2>2. Settle(<<o, 1>>) \/ Settle(<<o, 2>>)
    BY <1>4 DEF Return, Leave
  <2> QED
    BY <1>e, <2>1, <2>2 DEF QueueStep
<1>5. CASE Look(o) \/ Read(o) \/ ReadOther(o) \/ AttachMain(o) \/ AttachOther(o)
  <2>1. OpInv'
    <3>1. PICK l \in Labels : /\ Goto(o, l) /\ op' = op /\ pc[o] # "idle"
                              /\ l = "enterOther" => Twice(op[o]) \/ op[o].kind = "export"
      BY <1>5 DEF Look, Read, ReadOther, AttachMain, AttachOther, Attach, Fail, Labels
    <3> QED
      BY <3>1, GotoInv
  <2>2. UNCHANGED queueVars
    BY <1>5 DEF Look, Read, ReadOther, AttachMain, AttachOther
  <2> QED
    BY <2>1, <2>2 DEF QueueStep
<1>6. CASE Use(o) \/ Detach(o) \/ Remove(o) \/ Forget(o)
  <2>1. OpInv'
    <3>1. PICK l \in Labels : /\ Goto(o, l) /\ op' = op /\ pc[o] # "idle"
                              /\ l = "enterOther" => Twice(op[o]) \/ op[o].kind = "export"
      BY <1>6 DEF Use, Detach, Remove, Forget, Fail, Labels
    <3> QED
      BY <3>1, GotoInv
  <2>2. UNCHANGED queueVars
    BY <1>6 DEF Use, Detach, Remove, Forget
  <2> QED
    BY <2>1, <2>2 DEF QueueStep
<1> QED
  BY <1>1, <1>2, <1>3, <1>4, <1>5, <1>6 DEF Work

LEMMA Invariance == Spec => [](OpInv /\ QueueInv)
<1>1. Init => OpInv /\ QueueInv
  <2> SUFFICES ASSUME Init PROVE OpInv
    BY InitQueueInv
  <2> QED
    BY DEF Init, OpInv, Labels
<1>2. OpInv /\ QueueInv /\ [Next]_vars => (OpInv /\ QueueInv)'
  <2> SUFFICES ASSUME OpInv, QueueInv, [Next]_vars PROVE OpInv' /\ QueueInv'
    OBVIOUS
  <2>1. CASE Next
    <3>1. OpInv' /\ QueueStep
      BY <2>1, OpStep
    <3> QED
      BY <3>1, EnqueueInv, BeginInv, SettleInv, UnchangedInv DEF QueueStep
  <2>2. CASE UNCHANGED vars
    <3>1. OpInv'
      BY <2>2 DEF OpInv, vars, opVars
    <3>2. UNCHANGED queueVars
      BY <2>2 DEF vars
    <3> QED
      BY <3>1, <3>2, UnchangedInv
  <2> QED
    BY <2>1, <2>2
<1> QED
  BY <1>1, <1>2, PTL DEF Spec

\* Operations of a dataset run one at a time and in the order in which they were
\* queued, whatever settles, fails or cleans the map meanwhile (executeWithQueue).
THEOREM OneByOne == Spec => []InTurn
<1>1. QueueInv => InTurn
  BY DEF QueueInv, Begun, AllSettledBefore, Before, InTurn
<1> QED
  BY <1>1, Invariance, PTL

\* The map knows a dataset as long as an operation of its queue is not over, and
\* not longer (executeWithQueue's finally).
THEOREM NoQueueLeaks == Spec => []QueuesForgotten
<1>1. QueueInv => QueuesForgotten
  <2> SUFFICES ASSUME QueueInv, NEW d \in Datasets
               PROVE  queryQueues[d] = None
                        <=> \A e \in QueuedOn(d) : promise[e] = "settled"
    BY DEF QueuesForgotten
  <2>1. CASE queryQueues[d] = None
    BY <2>1 DEF QueueInv, NewestKept, QueuedOn
  <2>2. CASE queryQueues[d] # None
    <3>1. queryQueues[d] \in Entries
      BY <2>2 DEF QueueInv, QueueTypeOK
    <3>2. queryQueues[d] \in QueuedOn(d) /\ promise[queryQueues[d]] # "settled"
      BY <2>2, <3>1 DEF QueueInv, NewestKept, QueuedOn
    <3> QED
      BY <2>2, <3>2
  <2> QED
    BY <2>1, <2>2
<1> QED
  BY <1>1, Invariance, PTL
-----------------------------------------------------------------------------
(* The queues an operation holds.                                          *)

First(o) == <<o, 1>>
Second(o) == <<o, 2>>
Holds(e, d) == promise[e] = "running" /\ on[e] = d

\* The labels of an operation that holds its first queue, and of one of two queues
\* that holds the second too.
Holding == {"read", "readOther", "enterOther", "queuedOther", "attach", "attachOther",
            "use", "detach", "remove", "forget", "returning"}
HoldsBoth(o) == \/ pc[o] \in {"read", "readOther", "attach", "attachOther", "use"} /\ Twice(op[o])
                \/ pc[o] \in {"attachOther", "returning"} /\ op[o].kind = "export"

\* An operation of kind delete is at labels of its own, and only it.
Removing == {"detach", "remove", "forget"}
HeldOk(o) ==
  /\ pc[o] = "queued" => promise[First(o)] = "waiting" /\ on[First(o)] = Queues(op[o])[1]
  /\ pc[o] \in Holding => Holds(First(o), Queues(op[o])[1])
  /\ pc[o] = "queuedOther" => promise[Second(o)] = "waiting" /\ on[Second(o)] = Queues(op[o])[2]
  /\ HoldsBoth(o) => Holds(Second(o), Queues(op[o])[2])
  /\ pc[o] = "returning" => op[o].kind = "export"
  /\ pc[o] \in Removing => op[o].kind = "delete"
  /\ pc[o] \in Holding \ Removing => op[o].kind # "delete"
  /\ pc[o] # "idle" /\ op[o].kind \notin {"lookup", "dictionary", "export"} =>
       op[o].main = op[o].other
HeldInv == \A o \in Ops : HeldOk(o)

\* What o has attached stays attached, the second dataset of a dictionary filter or
\* an export apart; what it has found in the metadata stays there until it has
\* attached it; and what it deletes is gone, unless a kind of Early names it.
Guarded(o, d) == op[o].kind \in Outsiders => d = op[o].main
EarlyOn(d) == \E o \in Ops : Names(o, d) /\ op[o].kind \in Early

DataOk(o) ==
  /\ pc[o] = "idle" => op[o] = None
  /\ pc[o] \in {"enterOther", "queuedOther"} /\ op[o].kind = "lookup" => uses[o] = {}
  /\ pc[o] \in Holding =>
       /\ uses[o] \subseteq {op[o].main, op[o].other}
       /\ op[o].kind = "delete" => uses[o] = {}
       /\ \A d \in uses[o] : Guarded(o, d) => d \in attached
  /\ pc[o] \notin Holding \cup {"leaving"} => uses[o] = {}
  /\ pc[o] = "attach" /\ op[o].kind \notin Early => op[o].main \in meta
  /\ pc[o] = "attachOther" /\ op[o].kind \notin Early => op[o].other \in meta
  /\ pc[o] \in {"remove", "forget"} => op[o].main \notin attached \/ EarlyOn(op[o].main)
  /\ pc[o] = "forget" => file[op[o].main] = "none" \/ EarlyOn(op[o].main)

DataTypeOK ==
  /\ uses \in [Ops -> SUBSET Datasets]
  /\ attached \subseteq Datasets /\ meta \subseteq Datasets
  /\ file \in [Datasets -> {"data", "empty", "none"}]

DataInv == DataTypeOK /\ DeletedIsGone /\ \A o \in Ops : DataOk(o)

LEMMA NotTwice ==
  ASSUME QueueInv, NEW e \in Entries, NEW f \in Entries, NEW d,
         Holds(e, d), Holds(f, d)
  PROVE  e = f
<1>1. promise[e] = "running" /\ promise[f] = "running" /\ on[e] = on[f]
  BY DEF Holds
<1>2. AllSettledBefore(e) /\ AllSettledBefore(f)
  BY <1>1 DEF QueueInv, Begun
<1>3. number[e] \in Nat /\ number[f] \in Nat
  BY DEF QueueInv, QueueTypeOK
<1>4. ~(number[e] < number[f]) /\ ~(number[f] < number[e])
  BY <1>1, <1>2, <1>3 DEF AllSettledBefore, Before
<1> QED
  BY <1>1, <1>3, <1>4 DEF QueueInv, Numbered

LEMMA EntriesOf ==
  ASSUME NEW o \in Ops
  PROVE  /\ First(o) \in Entries /\ Second(o) \in Entries /\ First(o) # Second(o)
         /\ \A p \in Ops \ {o} : {First(p), Second(p)} \cap {First(o), Second(o)} = {}
BY DEF First, Second, Entries

\* A step of o leaves the records, labels and entries of the others alone.
Untouched(p) ==
  /\ op'[p] = op[p] /\ pc'[p] = pc[p] /\ uses'[p] = uses[p]
  /\ promise'[First(p)] = promise[First(p)] /\ on'[First(p)] = on[First(p)]
  /\ promise'[Second(p)] = promise[Second(p)] /\ on'[Second(p)] = on[Second(p)]

LEMMA Elsewhere ==
  ASSUME QueueTypeOK, OpInv, DataTypeOK,
         NEW o \in Ops, Call(o) \/ Work(o), NEW p \in Ops, p # o
  PROVE  Untouched(p)
<1> USE EntriesOf DEF Untouched
<1>e. /\ First(o) = <<o, 1>> /\ Second(o) = <<o, 2>>
      /\ First(p) \in Entries /\ Second(p) \in Entries
      /\ First(p) \notin {<<o, 1>>, <<o, 2>>} /\ Second(p) \notin {<<o, 1>>, <<o, 2>>}
  BY DEF First, Second, Entries
<1> USE <1>e DEF QueueTypeOK, OpInv, DataTypeOK
<1>1. CASE Call(o)
  <2>1. /\ \E r : op' = [op EXCEPT ![o] = r]
        /\ UNCHANGED uses
        /\ \E l : Goto(o, l)
        /\ UNCHANGED queueVars \/ \E d : Enqueue(<<o, 1>>, d)
    BY <1>1 DEF Call
  <2> QED
    BY <2>1 DEF Goto, Enqueue, queueVars
<1>2. CASE Enter(o) \/ Start(o) \/ Return(o) \/ Leave(o)
  <2>1. /\ op' = op
        /\ pc' = pc \/ \E l : Goto(o, l)
        /\ uses' = uses \/ uses' = [uses EXCEPT ![o] = {}]
        /\ \/ \E n \in {1, 2} : \E d : Enqueue(<<o, n>>, d)
           \/ \E n \in {1, 2} : Begin(<<o, n>>) \/ Settle(<<o, n>>)
    BY <1>2 DEF Enter, Start, Return, Leave, dataVars
  <2>2. /\ pc'[p] = pc[p] /\ uses'[p] = uses[p] /\ op'[p] = op[p]
    BY <2>1 DEF Goto
  <2>3. CASE \E n \in {1, 2} : \E d : Enqueue(<<o, n>>, d)
    BY <2>2, <2>3 DEF Enqueue
  <2>4. CASE \E n \in {1, 2} : Begin(<<o, n>>) \/ Settle(<<o, n>>)
    BY <2>2, <2>4 DEF Begin, Settle
  <2> QED
    BY <2>1, <2>3, <2>4
<1>3. CASE \/ Look(o) \/ Read(o) \/ ReadOther(o) \/ AttachMain(o) \/ AttachOther(o)
           \/ Use(o) \/ Detach(o) \/ Remove(o) \/ Forget(o)
  <2>1. UNCHANGED queueVars /\ op' = op /\ \E l : Goto(o, l)
    BY <1>3 DEF Look, Read, ReadOther, AttachMain, AttachOther, Attach, Use, Detach,
                Remove, Forget, Fail
  <2>2. uses' = uses \/ \E d : uses' = [uses EXCEPT ![o] = @ \cup {d}]
    BY <1>3 DEF Look, Read, ReadOther, AttachMain, AttachOther, Attach, Use, Detach,
                Remove, Forget, Fail
  <2> QED
    BY <2>1, <2>2 DEF Goto, queueVars
<1> QED
  BY <1>1, <1>2, <1>3 DEF Work

LEMMA HeldElsewhere ==
  ASSUME NEW p \in Ops, HeldOk(p), Untouched(p)
  PROVE  HeldOk(p)'
BY DEF HeldOk, Untouched, Holds, HoldsBoth, First, Second

\* A step that moves o from one label to another and leaves the queues alone.
LEMMA HeldMoved ==
  ASSUME NEW o \in Ops, HeldOk(o), UNCHANGED <<op, promise, on>>, pc[o] # "idle",
         pc'[o] \notin {"queued", "queuedOther"},
         pc'[o] \in Holding => pc[o] \in Holding,
         HoldsBoth(o)' => HoldsBoth(o),
         pc'[o] = "returning" => op[o].kind = "export",
         pc'[o] \in Removing => pc[o] \in Removing,
         pc'[o] \in Holding \ Removing => pc[o] \in Holding \ Removing
  PROVE  HeldOk(o)'
BY DEF HeldOk, Holds, First, Second

LEMMA HeldHere ==
  ASSUME QueueTypeOK, OpInv, DataTypeOK, QueueTypeOK', OpInv',
         NEW o \in Ops, HeldOk(o), Call(o) \/ Work(o)
  PROVE  HeldOk(o)'
<1>e. First(o) = <<o, 1>> /\ Second(o) = <<o, 2>> /\ First(o) \in Entries
      /\ Second(o) \in Entries /\ First(o) # Second(o)
  BY DEF First, Second, Entries
<1> USE <1>e DEF QueueTypeOK, OpInv
<1>1. CASE Call(o)
  <2>1. PICK k \in Kinds, d \in Datasets, b \in Datasets :
          /\ k \notin {"lookup", "dictionary", "export"} => b = d
          /\ LET r == [kind |-> k, main |-> d, other |-> b]
             IN /\ op' = [op EXCEPT ![o] = r]
                /\ IF k \in ReadsAhead
                   THEN Goto(o, "look") /\ UNCHANGED queueVars
                   ELSE Goto(o, "queued") /\ Enqueue(<<o, 1>>, Queues(r)[1])
    BY <1>1 DEF Call
  <2>2. op'[o] = [kind |-> k, main |-> d, other |-> b]
    BY <2>1
  <2>3. \/ pc'[o] = "look"
        \/ /\ pc'[o] = "queued"
           /\ promise'[First(o)] = "waiting" /\ on'[First(o)] = Queues(op'[o])[1]
    BY <2>1, <2>2 DEF Goto, Enqueue
  <2> QED
    BY <2>1, <2>2, <2>3 DEF HeldOk, Holding, HoldsBoth, Removing
<1>2. CASE Enter(o)
  <2>1. CASE pc[o] = "enter"
    <3>1. pc'[o] = "queued" /\ op' = op /\ promise'[First(o)] = "waiting"
          /\ on'[First(o)] = Queues(op[o])[1]
      BY <1>2, <2>1 DEF Enter, Goto, Enqueue
    <3> QED
      BY <2>1, <3>1 DEF HeldOk, Holding, HoldsBoth, Removing
  <2>2. CASE pc[o] = "enterOther"
    <3>1. pc'[o] = "queuedOther" /\ op' = op /\ promise'[Second(o)] = "waiting"
          /\ on'[Second(o)] = Queues(op[o])[2]
          /\ promise'[First(o)] = promise[First(o)] /\ on'[First(o)] = on[First(o)]
      BY <1>2, <2>2 DEF Enter, Goto, Enqueue
    <3> QED
      BY <2>2, <3>1 DEF HeldOk, Holding, HoldsBoth, Removing, Holds
  <2> QED
    BY <1>2, <2>1, <2>2 DEF Enter
<1>3. CASE Start(o)
  <2>1. CASE pc[o] = "queued"
    <3>1. op' = op /\ promise'[First(o)] = "running" /\ on' = on
          /\ pc' = [pc EXCEPT ![o] = CASE Twice(op[o]) -> "enterOther"
                                       [] op[o].kind = "attached" -> "attach"
                                       [] op[o].kind = "delete" -> "detach"
                                       [] OTHER -> "read"]
      BY <1>3, <2>1 DEF Start, Goto, Begin
    <3>2. op[o] \in Records
      BY <2>1
    <3>3. \/ pc'[o] = "enterOther" /\ Twice(op[o])
          \/ pc'[o] = "attach" /\ ~Twice(op[o]) /\ op[o].kind = "attached"
          \/ pc'[o] = "detach" /\ ~Twice(op[o]) /\ op[o].kind = "delete"
          \/ pc'[o] = "read" /\ ~Twice(op[o]) /\ op[o].kind # "delete"
      <4> DEFINE kind == op[o].kind
      <4> DEFINE both == Twice(op[o])
      <4>1. pc'[o] = CASE both -> "enterOther"
                       [] kind = "attached" -> "attach"
                       [] kind = "delete" -> "detach"
                       [] OTHER -> "read"
        BY <3>1
      <4>2. both => kind = "lookup"
        BY DEF Twice
      <4> HIDE DEF kind, both
      <4>3. CASE both
        BY <4>1, <4>2, <4>3, Zenon DEF kind, both
      <4>4. CASE ~both
        BY <4>1, <4>4, Zenon DEF kind, both
      <4> QED
        BY <4>3, <4>4
    <3> QED
      BY <2>1, <3>1, <3>3 DEF HeldOk, Holding, HoldsBoth, Removing, Holds, Twice
  <2>2. CASE pc[o] = "queuedOther"
    <3>1. op' = op /\ promise'[Second(o)] = "running" /\ on' = on
          /\ promise'[First(o)] = promise[First(o)]
          /\ pc'[o] = IF op[o].kind = "export" THEN "attachOther" ELSE "read"
      BY <1>3, <2>2 DEF Start, Goto, Begin
    <3> QED
      BY <2>2, <3>1 DEF HeldOk, Holding, HoldsBoth, Removing, Holds
  <2> QED
    BY <1>3, <2>1, <2>2 DEF Start
<1>4. CASE Return(o)
  <2>1. pc[o] = "returning" /\ pc'[o] = "use" /\ op' = op /\ on' = on
        /\ promise'[First(o)] = promise[First(o)]
    BY <1>4 DEF Return, Goto, Settle
  <2>2. op[o].kind = "export"
    BY <2>1 DEF HeldOk
  <2> QED
    BY <2>1, <2>2 DEF HeldOk, Holding, HoldsBoth, Removing, Holds, Twice
<1>5. CASE Leave(o)
  <2>1. pc[o] = "leaving" /\ pc'[o] \in {"leaving", "over"} /\ op' = op
    BY <1>5 DEF Leave, Goto
  <2> QED
    BY <2>1 DEF HeldOk, Holding, HoldsBoth, Removing
<1>6. CASE Look(o) \/ Detach(o) \/ Remove(o) \/ Forget(o) \/ Use(o)
  <2>1. UNCHANGED <<op, promise, on>>
        /\ \/ pc[o] = "look" /\ pc'[o] \in {"enter", "over"}
           \/ pc[o] = "detach" /\ pc'[o] = "remove"
           \/ pc[o] = "remove" /\ pc'[o] \in {"forget", "leaving"}
           \/ pc[o] \in {"use", "forget"} /\ pc'[o] = "leaving"
    BY <1>6 DEF Look, Detach, Remove, Forget, Use, Fail, Goto, queueVars
  <2> QED
    BY <2>1, HeldMoved DEF Holding, HoldsBoth, Removing
<1>7. CASE Read(o) \/ ReadOther(o)
  <2>1. UNCHANGED <<op, promise, on>>
        /\ \/ pc[o] = "read" /\ pc'[o] \in {"attach", "readOther", "leaving"}
           \/ pc[o] = "readOther" /\ op[o].kind = "export" /\ pc'[o] = "enterOther"
           \/ pc[o] = "readOther" /\ op[o].kind # "export" /\ pc'[o] = "attachOther"
           \/ pc[o] = "readOther" /\ pc'[o] \in {"use", "leaving"}
    BY <1>7 DEF Read, ReadOther, Fail, Goto, queueVars
  <2> QED
    BY <2>1, HeldMoved DEF Holding, HoldsBoth, Removing
<1>8. CASE AttachMain(o) \/ AttachOther(o)
  <2>1. UNCHANGED <<op, promise, on>>
        /\ \/ pc[o] = "attach" /\ pc'[o] \in {"readOther", "use", "leaving"}
           \/ pc[o] = "attachOther" /\ op[o].kind = "export" /\ pc'[o] = "returning"
           \/ pc[o] = "attachOther" /\ pc'[o] \in {"use", "leaving"}
    BY <1>8 DEF AttachMain, AttachOther, Attach, Fail, Goto, queueVars
  <2> QED
    BY <2>1, HeldMoved DEF Holding, HoldsBoth, Removing
<1> QED
  BY <1>1, <1>2, <1>3, <1>4, <1>5, <1>6, <1>7, <1>8 DEF Work

LEMMA HeldStep ==
  ASSUME QueueTypeOK, OpInv, DataTypeOK, QueueTypeOK', OpInv', HeldInv, Next
  PROVE  HeldInv'
<1> PICK o \in Ops : Call(o) \/ Work(o)
  BY DEF Next
<1>1. HeldOk(o)'
  BY HeldHere DEF HeldInv
<1>2. \A p \in Ops \ {o} : HeldOk(p)'
  BY Elsewhere, HeldElsewhere DEF HeldInv
<1> QED
  BY <1>1, <1>2 DEF HeldInv
-----------------------------------------------------------------------------
(* The data under the queues.                                              *)

\* A dataset whose queue o holds: no other operation holds it.
LEMMA Alone ==
  ASSUME QueueInv, HeldInv, NEW o \in Ops, NEW p \in Ops, o # p, NEW d,
         Holds(First(o), d) \/ Holds(Second(o), d)
  PROVE  ~Holds(First(p), d) /\ ~Holds(Second(p), d)
BY NotTwice, EntriesOf

\* The datasets an operation attaches under a queue of its own.
LEMMA UnderQueue ==
  ASSUME HeldInv, NEW o \in Ops, pc[o] \in Holding, op[o] \in Records
  PROVE  /\ op[o].kind # "lookup" => Holds(First(o), op[o].main)
         /\ /\ op[o].kind = "lookup"
            /\ pc[o] \in {"read", "readOther", "attach", "attachOther", "use"}
            => /\ Holds(First(o), op[o].main) \/ Holds(Second(o), op[o].main)
               /\ Holds(First(o), op[o].other) \/ Holds(Second(o), op[o].other)
<1>1. Holds(First(o), Queues(op[o])[1])
  BY DEF HeldInv, HeldOk
<1>2. CASE op[o].kind # "lookup"
  <2> DEFINE kind == op[o].kind
  <2>1. Queues(op[o]) = CASE kind = "lookup" -> Sorted(op[o])
                          [] kind = "export" -> <<op[o].main, op[o].other>>
                          [] OTHER -> <<op[o].main>>
    BY DEF Queues
  <2>2. Queues(op[o])[1] = op[o].main
    BY <1>2, <2>1
  <2> QED
    BY <1>1, <1>2, <2>2
<1>3. CASE op[o].kind = "lookup" /\ pc[o] \in {"read", "readOther", "attach", "attachOther", "use"}
  <2>1. Queues(op[o]) = Sorted(op[o])
    BY <1>3 DEF Queues
  <2>2. op[o].main # op[o].other => Holds(Second(o), Sorted(op[o])[2])
    BY <1>3, <2>1 DEF HeldInv, HeldOk, HoldsBoth, Twice
  <2> QED
    BY <1>1, <1>3, <2>1, <2>2 DEF Sorted
<1> QED
  BY <1>2, <1>3

LEMMA EarlyStays ==
  ASSUME QueueTypeOK, OpInv, DataInv, NEW o \in Ops, Call(o) \/ Work(o),
         NEW d, EarlyOn(d)
  PROVE  EarlyOn(d)'
<1> PICK p \in Ops : Names(p, d) /\ op[p].kind \in Early
  BY DEF EarlyOn
<1>1. op'[p] = op[p]
  <2>1. CASE p # o
    BY <2>1, Elsewhere DEF DataInv, Untouched
  <2>2. CASE p = o /\ Call(o)
    BY <2>2 DEF Call, DataInv, DataOk, Names
  <2>3. CASE Work(o)
    BY <2>3 DEF Work, Look, Enter, Start, Read, ReadOther, AttachMain, AttachOther,
                Attach, Use, Detach, Remove, Forget, Return, Leave, Fail
  <2> QED
    BY <2>1, <2>2, <2>3
<1> QED
  BY <1>1 DEF EarlyOn, Names, Early, Outsiders

\* The effect of a step on the data.
LEMMA DataEffect ==
  ASSUME NEW o \in Ops, Call(o) \/ Work(o)
  PROVE  \/ UNCHANGED dataVars
         \/ AttachMain(o) /\ Attach(o, op[o].main)
         \/ AttachOther(o) /\ Attach(o, op[o].other)
         \/ Detach(o)
         \/ Remove(o) /\ file' = [file EXCEPT ![op[o].main] = "none"]
                      /\ UNCHANGED <<meta, attached>>
         \/ Forget(o) /\ meta' = meta \ {op[o].main} /\ UNCHANGED <<file, attached>>
BY DEF Call, Work, Look, Enter, Start, Read, ReadOther, AttachMain, AttachOther, Use,
       Detach, Remove, Forget, Return, Leave, Fail, dataVars

LEMMA DataTypes ==
  ASSUME QueueTypeOK, OpInv, DataTypeOK, NEW o \in Ops, Call(o) \/ Work(o)
  PROVE  DataTypeOK'
<1>1. pc[o] # "idle" => op[o].main \in Datasets /\ op[o].other \in Datasets
  BY DEF OpInv, Records
<1>2. uses' \in [Ops -> SUBSET Datasets]
  BY <1>1 DEF DataTypeOK, Call, Work, Look, Enter, Start, Read, ReadOther, AttachMain,
              AttachOther, Attach, Use, Detach, Remove, Forget, Return, Leave, Fail
<1>3. attached' \subseteq Datasets /\ meta' \subseteq Datasets
      /\ file' \in [Datasets -> {"data", "empty", "none"}]
  BY <1>1, DataEffect DEF DataTypeOK, Attach, AttachMain, AttachOther, Detach, Remove,
                          Forget, dataVars
<1> QED
  BY <1>2, <1>3 DEF DataTypeOK

\* o has a queue of each dataset it guards, so that nobody else detaches it, deletes
\* it or finds it gone.
LEMMA GuardedIsHeld ==
  ASSUME HeldInv, DataInv, NEW o \in Ops, pc[o] \in Holding, op[o] \in Records,
         NEW d \in uses[o], Guarded(o, d)
  PROVE  Holds(First(o), d) \/ Holds(Second(o), d)
<1>1. op[o].kind # "delete" /\ d \in {op[o].main, op[o].other} /\ uses[o] # {}
  BY DEF DataInv, DataOk
<1>2. CASE op[o].kind = "lookup"
  <2>1. pc[o] \in {"read", "readOther", "attach", "attachOther", "use"}
    BY <1>1, <1>2 DEF DataInv, DataOk, HeldInv, HeldOk, Holding, Removing
  <2> QED
    BY <1>1, <1>2, <2>1, UnderQueue
<1>3. CASE op[o].kind # "lookup"
  <2>1. d = op[o].main
    <3>1. CASE op[o].kind \in Outsiders
      BY <3>1 DEF Guarded
    <3>2. CASE op[o].kind \notin Outsiders
      BY <1>1, <1>3, <3>2 DEF HeldInv, HeldOk, Outsiders, Holding
    <3> QED
      BY <3>1, <3>2
  <2> QED
    BY <1>3, <2>1, UnderQueue
<1> QED
  BY <1>2, <1>3

LEMMA DataElsewhere ==
  ASSUME QueueInv, OpInv, HeldInv, DataInv, NEW o \in Ops, Call(o) \/ Work(o),
         NEW p \in Ops, p # o
  PROVE  DataOk(p)'
<1>1. Untouched(p) /\ DataOk(p) /\ DataTypeOK
  BY Elsewhere DEF DataInv, QueueInv
<1>2. \A d : EarlyOn(d) => EarlyOn(d)'
  BY EarlyStays DEF QueueInv
<1>3. pc[p] # "idle" => op[p] \in Records
  BY DEF OpInv
<1>4. CASE UNCHANGED dataVars
  BY <1>1, <1>2, <1>4 DEF DataOk, Untouched, Guarded, dataVars
<1>5. CASE \/ AttachMain(o) /\ Attach(o, op[o].main)
           \/ AttachOther(o) /\ Attach(o, op[o].other)
  <2>1. PICK d : /\ Attach(o, d)
                 /\ \/ d = op[o].main /\ pc[o] = "attach"
                    \/ d = op[o].other /\ pc[o] = "attachOther"
    BY <1>5 DEF AttachMain, AttachOther
  <2>2. pc[o] \in Holding \ Removing /\ op[o] \in Records
    BY <2>1 DEF OpInv, Holding, Removing
  <2>3. \/ EarlyOn(d)
        \/ Holds(First(o), d) \/ Holds(Second(o), d)
    <3>1. CASE op[o].kind \in Early
      <4>1. op[o] # None
        BY <2>2, QueuesAssumption DEF Records
      <4> QED
        BY <2>1, <3>1, <4>1 DEF EarlyOn, Names
    <3>2. CASE op[o].kind \notin Early
      <4>1. op[o].kind # "lookup" => op[o].main = op[o].other
        BY <2>1, <3>2 DEF HeldInv, HeldOk, Early, Outsiders
      <4> QED
        BY <2>1, <2>2, <4>1, UnderQueue
    <3> QED
      BY <3>1, <3>2
  <2>4. pc[p] \in {"remove", "forget"} => d # op[p].main \/ EarlyOn(d)
    <3> SUFFICES ASSUME pc[p] \in {"remove", "forget"}, ~EarlyOn(d)
                 PROVE  d # op[p].main
      OBVIOUS
    <3>1. Holds(First(p), op[p].main)
      BY <1>3, UnderQueue DEF HeldInv, HeldOk, Holding, Removing
    <3> QED
      BY <2>3, <3>1, Alone
  <2>5. meta' = meta /\ attached' = attached \cup {d} /\ d \in Datasets
        /\ \A b \in Datasets \ {d} : file'[b] = file[b]
    BY <1>1, <2>1, <2>2 DEF Attach, DataTypeOK, Records
  <2>6. pc[p] \in {"remove", "forget"} => op[p].main \in Datasets
    BY <1>3 DEF Records
  <2> QED
    BY <1>1, <1>2, <2>4, <2>5, <2>6 DEF DataOk, Untouched, Guarded
<1>6. CASE Detach(o)
  <2>1. meta' = meta /\ file' = file /\ attached' = attached \ {op[o].main}
    BY <1>6 DEF Detach
  <2>2. Holds(First(o), op[o].main)
    <3>1. pc[o] \in Holding /\ op[o] \in Records /\ op[o].kind = "delete"
      BY <1>6 DEF Detach, Holding, Removing, OpInv, HeldInv, HeldOk
    <3> QED
      BY <3>1, UnderQueue
  <2>3. \A d \in uses[p] : pc[p] \in Holding /\ Guarded(p, d) => d # op[o].main
    BY <1>3, <2>2, Alone, GuardedIsHeld DEF Holding
  <2> QED
    BY <1>1, <1>2, <2>1, <2>3 DEF DataOk, Untouched, Guarded
<1>7. CASE Remove(o) /\ file' = [file EXCEPT ![op[o].main] = "none"]
                     /\ UNCHANGED <<meta, attached>>
  <2>1. pc[p] = "forget" => op[p].main \in Datasets
    BY <1>3 DEF Records
  <2> QED
    BY <1>1, <1>2, <1>7, <2>1 DEF DataOk, Untouched, Guarded, DataTypeOK
<1>8. CASE Forget(o) /\ meta' = meta \ {op[o].main} /\ UNCHANGED <<file, attached>>
  <2>1. Holds(First(o), op[o].main)
    <3>1. pc[o] \in Holding /\ op[o] \in Records /\ op[o].kind = "delete"
      BY <1>8 DEF Forget, Holding, Removing, OpInv, HeldInv, HeldOk
    <3> QED
      BY <3>1, UnderQueue
  <2>2. pc[p] = "attach" => op[p].main # op[o].main
    BY <1>3, <2>1, UnderQueue, Alone DEF Holding
  <2>3. pc[p] = "attachOther" /\ op[p].kind \notin Early => op[p].other # op[o].main
    <3> SUFFICES ASSUME pc[p] = "attachOther", op[p].kind \notin Early
                 PROVE  op[p].other # op[o].main
      OBVIOUS
    <3>1. op[p].kind # "lookup" => op[p].main = op[p].other
      BY DEF HeldInv, HeldOk, Early, Outsiders
    <3> QED
      BY <1>3, <2>1, <3>1, UnderQueue, Alone DEF Holding
  <2> QED
    BY <1>1, <1>2, <1>8, <2>2, <2>3 DEF DataOk, Untouched, Guarded
<1> QED
  BY <1>4, <1>5, <1>6, <1>7, <1>8, DataEffect

LEMMA DataHere ==
  ASSUME QueueInv, OpInv, HeldInv, DataInv, NEW o \in Ops, Call(o) \/ Work(o)
  PROVE  DataOk(o)'
<1>1. DataOk(o) /\ DataTypeOK /\ QueueTypeOK
  BY DEF DataInv, QueueInv
<1>2. \A d : EarlyOn(d) => EarlyOn(d)'
  BY EarlyStays DEF QueueInv
<1>3. pc[o] # "idle" => op[o] \in Records /\ op[o].main \in Datasets /\ op[o].other \in Datasets
  BY DEF OpInv, Records
<1>4. pc \in [Ops -> Labels] /\ op \in [Ops -> Records \cup {None}]
  BY DEF OpInv
<1>5. CASE Call(o)
  <2>1. uses[o] = {} /\ uses' = uses /\ pc'[o] \in {"look", "queued"}
    BY <1>1, <1>4, <1>5 DEF Call, Goto, DataOk, Holding
  <2> QED
    BY <2>1 DEF DataOk, Holding
<1>6. CASE Look(o) \/ Enter(o)
  <2>1. UNCHANGED <<op, uses, dataVars>>
        /\ \/ pc[o] = "look" /\ pc'[o] \in {"enter", "over"}
           \/ pc[o] = "enter" /\ pc'[o] = "queued"
           \/ pc[o] = "enterOther" /\ pc'[o] = "queuedOther"
    BY <1>4, <1>6 DEF Look, Enter, Goto
  <2> QED
    BY <1>1, <2>1 DEF DataOk, Holding, dataVars, Guarded
<1>7. CASE Start(o)
  <2>1. CASE pc[o] = "queued"
    <3>1. UNCHANGED <<op, uses, dataVars>> /\ uses[o] = {}
      BY <1>1, <1>7, <2>1 DEF Start, DataOk, Holding
    <3>2. pc'[o] \in {"enterOther", "attach", "detach", "read"}
          /\ (pc'[o] = "attach" => op[o].kind = "attached")
      <4> DEFINE kind == op[o].kind
      <4> DEFINE both == Twice(op[o])
      <4>1. pc'[o] = CASE both -> "enterOther"
                       [] kind = "attached" -> "attach"
                       [] kind = "delete" -> "detach"
                       [] OTHER -> "read"
        BY <1>4, <1>7, <2>1 DEF Start, Goto
      <4> HIDE DEF kind, both
      <4> QED
        BY <4>1, Zenon DEF kind
    <3> QED
      BY <3>1, <3>2 DEF DataOk, Holding, dataVars, Early
  <2>2. CASE pc[o] = "queuedOther"
    <3>1. UNCHANGED <<op, uses, dataVars>>
          /\ pc'[o] = IF op[o].kind = "export" THEN "attachOther" ELSE "read"
      BY <1>4, <1>7, <2>2 DEF Start, Goto
    <3> QED
      BY <1>1, <2>2, <3>1 DEF DataOk, Holding, dataVars, Early, Outsiders, Guarded
  <2> QED
    BY <1>7, <2>1, <2>2 DEF Start
<1>8. CASE Read(o) \/ ReadOther(o) \/ Use(o) \/ Return(o)
  <2>1. UNCHANGED <<op, uses, dataVars>>
        /\ \/ pc[o] = "read" /\ pc'[o] = "attach" /\ op[o].main \in meta
           \/ pc[o] = "read" /\ pc'[o] \in {"readOther", "leaving"}
           \/ pc[o] = "readOther" /\ pc'[o] = "enterOther" /\ op[o].kind = "export"
           \/ pc[o] = "readOther" /\ pc'[o] = "attachOther" /\ op[o].other \in meta
           \/ pc[o] = "readOther" /\ pc'[o] \in {"use", "leaving"}
           \/ pc[o] = "use" /\ pc'[o] = "leaving"
           \/ pc[o] = "returning" /\ pc'[o] = "use"
    BY <1>4, <1>8 DEF Read, ReadOther, Use, Return, Fail, Goto, MayGoOn
  <2> QED
    BY <1>1, <2>1 DEF DataOk, Holding, dataVars, Guarded
<1>9. CASE AttachMain(o) \/ AttachOther(o)
  <2>1. CASE pc'[o] = "leaving"
    BY <2>1, <1>9, <1>1, <1>3 DEF AttachMain, AttachOther, DataOk, Holding
  <2>2. CASE pc'[o] # "leaving"
    <3>1. PICK d \in {op[o].main, op[o].other} :
            /\ pc[o] \in {"attach", "attachOther"}
            /\ Attach(o, d) /\ pc'[o] \in {"readOther", "use", "returning"}
      BY <1>4, <1>9, <2>2 DEF AttachMain, AttachOther, Fail, Goto
    <3>2. op' = op /\ attached' = attached \cup {d} /\ uses'[o] = uses[o] \cup {d}
      BY <1>1, <3>1 DEF Attach, DataTypeOK
    <3>3. op[o].kind # "delete" /\ pc[o] \in Holding
      BY <3>1 DEF HeldInv, HeldOk, Holding, Removing
    <3> QED
      BY <1>1, <3>1, <3>2, <3>3 DEF DataOk, Holding, Guarded
  <2> QED
    BY <2>1, <2>2
<1>10. CASE Detach(o)
  <2>1. /\ UNCHANGED <<op, uses, meta, file>> /\ attached' = attached \ {op[o].main}
        /\ pc[o] = "detach" /\ pc'[o] = "remove" /\ op[o].kind = "delete"
    BY <1>4, <1>10 DEF Detach, Goto, HeldInv, HeldOk, Removing
  <2> QED
    BY <1>1, <2>1 DEF DataOk, Holding
<1>11. CASE Remove(o)
  <2>1. /\ UNCHANGED <<op, uses, meta, attached>>
        /\ pc[o] = "remove" /\ op[o].kind = "delete"
        /\ \/ pc'[o] = "leaving"
           \/ pc'[o] = "forget" /\ file' = [file EXCEPT ![op[o].main] = "none"]
    BY <1>4, <1>11 DEF Remove, Fail, Goto, HeldInv, HeldOk, Removing, dataVars
  <2> QED
    BY <1>1, <1>2, <1>3, <2>1 DEF DataOk, DataTypeOK, Holding
<1>12. CASE Forget(o)
  <2>1. pc[o] = "forget" /\ pc'[o] = "leaving"
    BY <1>4, <1>12 DEF Forget, Fail, Goto
  <2> QED
    BY <2>1 DEF DataOk, Holding
<1>13. CASE Leave(o)
  <2>1. \/ pc'[o] = "leaving"
        \/ pc'[o] = "over" /\ uses'[o] = {}
    BY <1>1, <1>4, <1>13 DEF Leave, Goto, DataTypeOK
  <2> QED
    BY <2>1 DEF DataOk, Holding
<1> QED
  BY <1>5, <1>6, <1>7, <1>8, <1>9, <1>10, <1>11, <1>12, <1>13 DEF Work

LEMMA DeletedStep ==
  ASSUME QueueInv, OpInv, HeldInv, DataInv, NEW o \in Ops, Call(o) \/ Work(o)
  PROVE  DeletedIsGone'
<1>1. DeletedIsGone /\ DataOk(o) /\ DataTypeOK
  BY DEF DataInv
<1>2. \A d : EarlyOn(d) => EarlyOn(d)'
  BY EarlyStays DEF QueueInv
<1>3. pc[o] # "idle" => op[o] \in Records /\ op[o].main \in Datasets /\ op[o].other \in Datasets
  BY DEF OpInv, Records
<1> SUFFICES ASSUME NEW d \in Datasets, d \notin meta', d \in attached' \/ file'[d] # "none"
             PROVE  EarlyOn(d)'
  BY DEF DeletedIsGone, EarlyOn
<1>4. CASE d \notin meta /\ (d \in attached \/ file[d] # "none")
  BY <1>1, <1>2, <1>4 DEF DeletedIsGone, EarlyOn
<1>5. CASE d \in meta
  <2>1. Forget(o) /\ meta' = meta \ {op[o].main} /\ UNCHANGED <<file, attached>>
    BY <1>5, DataEffect DEF Attach, Detach, dataVars
  <2> QED
    BY <1>1, <1>2, <1>5, <2>1 DEF Forget, DataOk
<1>6. CASE d \notin meta /\ d \notin attached /\ file[d] = "none"
  <2>1. PICK b : /\ Attach(o, b)
                 /\ \/ b = op[o].main /\ pc[o] = "attach"
                    \/ b = op[o].other /\ pc[o] = "attachOther"
    BY <1>1, <1>3, <1>6, DataEffect DEF AttachMain, AttachOther, Detach, Remove, dataVars,
                                        DataTypeOK
  <2>2. b = d
    BY <1>1, <1>3, <1>6, <2>1 DEF Attach, DataTypeOK
  <2>3. op[o].kind \in Early
    BY <1>1, <1>6, <2>1, <2>2 DEF DataOk
  <2>4. op[o] # None
    BY <1>3, <2>1, QueuesAssumption DEF Records
  <2> QED
    BY <1>2, <2>1, <2>2, <2>3, <2>4 DEF EarlyOn, Names
<1> QED
  BY <1>4, <1>5, <1>6

LEMMA DataInvariance == Spec => [](HeldInv /\ DataInv)
<1>1. Init => HeldInv /\ DataInv
  <2> SUFFICES ASSUME Init PROVE HeldInv /\ DataInv
    OBVIOUS
  <2>1. HeldInv
    BY DEF Init, HeldInv, HeldOk, Holding, HoldsBoth, Removing
  <2>2. DataTypeOK /\ DeletedIsGone
    BY DEF Init, DataTypeOK, DeletedIsGone
  <2>3. \A o \in Ops : DataOk(o)
    BY DEF Init, DataOk, Holding
  <2> QED
    BY <2>1, <2>2, <2>3 DEF DataInv
<1>2. /\ HeldInv /\ DataInv /\ OpInv /\ QueueInv /\ OpInv' /\ QueueInv' /\ [Next]_vars
      => (HeldInv /\ DataInv)'
  <2> SUFFICES ASSUME HeldInv, DataInv, OpInv, QueueInv, OpInv', QueueInv', [Next]_vars
               PROVE  HeldInv' /\ DataInv'
    OBVIOUS
  <2>1. CASE Next
    <3>1. HeldInv'
      BY <2>1, HeldStep DEF QueueInv, DataInv
    <3> PICK o \in Ops : Call(o) \/ Work(o)
      BY <2>1 DEF Next
    <3>2. DataTypeOK' /\ DeletedIsGone'
      BY DataTypes, DeletedStep DEF QueueInv, DataInv
    <3>3. \A p \in Ops : DataOk(p)'
      BY DataHere, DataElsewhere
    <3> QED
      BY <3>1, <3>2, <3>3 DEF DataInv
  <2>2. CASE UNCHANGED vars
    <3> USE <2>2 DEF vars, queueVars, opVars, dataVars
    <3>1. HeldInv'
      BY DEF HeldInv, HeldOk, Holds, HoldsBoth
    <3>2. DataTypeOK' /\ DeletedIsGone'
      BY DEF DataInv, DataTypeOK, DeletedIsGone, Names
    <3>3. \A o \in Ops : DataOk(o)'
      BY DEF DataInv, DataOk, Guarded, EarlyOn, Names
    <3> QED
      BY <3>1, <3>2, <3>3 DEF DataInv
  <2> QED
    BY <2>1, <2>2
<1> QED
  BY <1>1, <1>2, Invariance, PTL DEF Spec

\* A deletion waits for those that use the dataset, and they for it: no operation
\* finds a dataset detached that it attached, but the second one of a dictionary
\* filter or an export, whose queue it has not entered (deleteDataset).
THEOREM StaysAttached == Spec => []AttachedInUse
<1>1. DataInv => AttachedInUse
  <2> SUFFICES ASSUME DataInv, NEW o \in Ops, pc[o] = "use", NEW d \in uses[o] \ attached
               PROVE  op[o].kind \in Outsiders /\ d # op[o].main
    BY DEF AttachedInUse
  <2> QED
    BY DEF DataInv, DataOk, Holding, Guarded
<1> QED
  BY <1>1, DataInvariance, PTL

\* A deleted dataset does not come back: whoever attaches it again has looked for
\* it before its queue or outside of it (deleteDataset, withDatasetAttached).
THEOREM DeletedStaysGone == Spec => []DeletedIsGone
<1>1. DataInv => DeletedIsGone
  BY DEF DataInv
<1> QED
  BY <1>1, DataInvariance, PTL
=============================================================================
