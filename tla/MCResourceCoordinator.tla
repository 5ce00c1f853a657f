----------------------- MODULE MCResourceCoordinator -----------------------
(* Instances of ResourceCoordinator for TLC.                               *)
EXTENDS ResourceCoordinator, TLC

TwoKeys == {1, 2}
OneKey == {1}

\* Callers with a token of their own, as acquire and requestHandoff mint them.
OwnToken == [o \in Ops |-> o]
NoParent == [c \in Calls |-> None]

\* c2 runs inside the lease context of c1.
NestedParent == [c \in Calls |-> IF c = "c2" THEN "c1" ELSE None]
NestedToken == [o \in Ops |-> IF o = "c2" THEN "c1" ELSE o]

AllSoft == [t \in Tokens |-> "soft"]
\* A person's nested calls beside an automation; a fixed and a human requester.
MixedKind == [t \in Tokens |-> IF t \in {"c1", "r2"} THEN "human"
                               ELSE IF t = "c3" THEN "soft" ELSE "fixed"]

\* Away(S): who in S has not begun, or has been put away for another call.  Four
\* parties at a time meet over one key, c1, c3 and r1 over two; the rest adds
\* states, and no case.
Away(S) == {o \in S : phase[o] = "idle" /\ (o \in Requests => request[o].status = "none")}
FourParties == Away({"c2", "c3", "r1", "r2"}) # {} /\ \A o \in Ops : want[o] \subseteq {1}
ThreeParties == Away({"c2", "r2"}) = {"c2", "r2"}
FewParties == FourParties \/ ThreeParties

HandoffNext ==
  \/ ExpireHandoffRequests
  \/ Clear
  \/ /\ \/ \E c \in Calls : CallStep(c)
        \/ \E r \in Requests : RequestStep(r)
        \/ \E o \in Ops : LeaseStep(o)
     /\ FewParties'
HandoffSpec == Init /\ [][HandoffNext]_vars
=============================================================================
