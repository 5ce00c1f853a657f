--------------------------- MODULE ResourceLease ---------------------------
(***************************************************************************)
(* What the resource coordinator promises, without queues, counts, timers  *)
(* or handoff requests: each resource has at most one holder; it is never  *)
(* free while somebody wants it; it passes from a holder that leaves to    *)
(* somebody who wants it; and only an heir takes a set of resources at     *)
(* once, all of them free, its own, or from one and the same holder.       *)
(***************************************************************************)
CONSTANTS Keys, Parties, Tokens, Token, None,
          MayClear,  \* whether everything may be forgotten at once
          Heirs      \* the tokens a handoff may make a holder

VARIABLES holder,  \* key -> the token that holds it, or None
          wanted   \* key -> the parties waiting for it

leaseVars == <<holder, wanted>>

LeaseInit ==
  /\ holder = [k \in Keys |-> None]
  /\ wanted = [k \in Keys |-> {}]

Take(p, k) ==
  /\ holder[k] = None
  /\ holder' = [holder EXCEPT ![k] = Token[p]]
  /\ UNCHANGED wanted

Ask(p, k) ==
  /\ holder[k] \notin {None, Token[p]}
  /\ p \notin wanted[k]
  /\ wanted' = [wanted EXCEPT ![k] = @ \cup {p}]
  /\ UNCHANGED holder

Withdraw(p, k) ==
  /\ p \in wanted[k]
  /\ wanted' = [wanted EXCEPT ![k] = @ \ {p}]
  /\ UNCHANGED holder

Leave(k) ==
  /\ holder[k] # None
  /\ wanted[k] = {}
  /\ holder' = [holder EXCEPT ![k] = None]
  /\ UNCHANGED wanted

PassOn(k) ==
  \E p \in wanted[k] :
    /\ holder' = [holder EXCEPT ![k] = Token[p]]
    /\ wanted' = [wanted EXCEPT ![k] = @ \ {p}]

Transfer(t, K) ==
  /\ \E o \in Tokens \cup {None} : \A k \in K : holder[k] \in {o, t}
  /\ holder' = [k \in Keys |-> IF k \in K THEN t ELSE holder[k]]
  /\ UNCHANGED wanted

Forget ==
  /\ MayClear
  /\ holder' = [k \in Keys |-> None]
  /\ wanted' = [k \in Keys |-> {}]

LeaseNext ==
  \/ \E p \in Parties, k \in Keys : Take(p, k) \/ Ask(p, k) \/ Withdraw(p, k)
  \/ \E k \in Keys : Leave(k) \/ PassOn(k)
  \/ \E t \in Heirs, K \in SUBSET Keys : Transfer(t, K)
  \/ Forget

LeaseSpec == LeaseInit /\ [][LeaseNext]_leaseVars

=============================================================================
