-------------------------- MODULE MCHttpSessions ---------------------------
(* The instance of HttpSessions for TLC: REST sessions r1 and r2, MCP      *)
(* sessions m1 and m2.                                                     *)
EXTENDS HttpSessions

SessionOf == [c \in Calls |-> IF c \in {"a", "b", "own"} THEN "r1"
                              ELSE IF c \in {"c", "lent"} THEN "r2"
                              ELSE IF c = "w" THEN "m2" ELSE "m1"]
\* a, b and c share a key in a namespace of their own choice; lent uses the
\* namespace of a session that is not its own.
KeyOfCall == [c \in Calls |-> IF c \in {"a", "b", "c"} THEN "shared"
                              ELSE IF c \in {"own", "lent"} THEN "own key" ELSE None]
KeyNamespace == [k \in Keys |-> IF k = "own key" THEN "r1" ELSE None]
\* v closes its own session, u the other one, as does w.
Closer == [c \in Calls |-> IF c = "v" THEN "m1" ELSE IF c = "u" THEN "m2"
                           ELSE IF c = "w" THEN "m1" ELSE None]
=============================================================================
