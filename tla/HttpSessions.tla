---------------------------- MODULE HttpSessions ----------------------------
(***************************************************************************)
(* The sessions a client opens over REST or MCP, each with a browser: the  *)
(* calls that execute one after the other in a session (InvokeQueue), the  *)
(* idempotency keys of REST calls and their rows in the database, the      *)
(* browser an MCP session acquires when a call first needs one, and the    *)
(* ways a session ends.  src/main/http-session-manager.ts,                 *)
(* orchestration-http-routes.ts, orchestration-idempotency-duckdb-store.ts,*)
(* mcp-http-session-runtime.ts, mcp-http-adapter.ts.                       *)
(*                                                                         *)
(* A call is one request to invoke a capability.  It has two threads: the  *)
(* handler, which answers the client, and the task, which the session's    *)
(* queue executes.  A browser is named after the session or call that      *)
(* acquired it.                                                            *)
(*                                                                         *)
(* Time is abstract: a timer may fire whenever it is set.  Calls with one  *)
(* key have one payload.  The lifetime of an entry (300 s) is taken to     *)
(* exceed that of the calls that reserved or found it.  The two drains of  *)
(* 1500 ms, the queue's and the registry's, are one: the registry's answer *)
(* comes later, for it is first recorded in the database.                  *)
(***************************************************************************)
EXTENDS InvokeQueue, FiniteSets

CONSTANTS
  Mcp,        \* the sessions over MCP; the others are REST sessions
  Keys,       \* idempotency keys with their namespaces
  KeyOf,      \* call -> its key, or None
  Namespace,  \* key -> the session whose id is its namespace, or None
  Target,     \* call -> the session it is to close, or None: it uses the browser;
              \* only calls over MCP have the gateway that closes sessions
  Scenes,     \* what a behaviour may have of sessions, calls and Events
  None

Events == {"crash", "delete", "stop"}
Owners == Sessions \cup Calls
Rest == Sessions \ Mcp

ASSUME SessionAssumption ==
  /\ Mcp \subseteq Sessions
  /\ KeyOf \in [Calls -> Keys \cup {None}]
  /\ Namespace \in [Keys -> Sessions \cup {None}]
  /\ Target \in [Calls -> Mcp \cup {None}]
  /\ \A c \in Calls : KeyOf[c] # None => Of[c] \in Rest
  /\ \A c \in Calls : Target[c] # None => Of[c] \in Mcp
  /\ Scenes \subseteq SUBSET (Owners \cup Events)
  /\ Sessions \cap Calls = {} /\ {"none", "done"} \cap Calls = {}
  /\ None \notin Owners \cup Keys

VARIABLES
  scene,
  stop,       \* stopHttpServer: "no", "cleaning", or "closed"
  session,    \* session -> "no", being opened, "open" (listed), or "gone"
  terminate,  \* sessions with terminateAfterResponse
  handle,     \* session -> its browserHandle
  cleanup,    \* session -> how far its cleanup is
  handler,    \* call -> what its handler waits for
  task,       \* call -> where its task stands
  uses,       \* call -> the browser its task works with
  raw,        \* call -> how far the acquire it began is
  browser,    \* owner -> the state of its browser
  row,        \* key -> "none", "done", or the call that has reserved it
  cache,      \* REST session -> keys in its idempotencyCache
  adrift      \* history: sessions registered while the server stops, and open
              \* ones given a browser whose call had stopped waiting for it

opening == <<scene, stop, session, terminate, cleanup>>
keeping == <<row, cache>>
vars == <<queueVars, opening, handle, handler, task, uses, raw, browser, keeping, adrift>>

Cleanups == {"no", "drain", "drain, purge", "purge", "done"}
Handlers == {"idle", "prune", "reserve", "insert", "wait", "remove", "store",
             "answered", "done"}
Tasks == {"off", "begin", "ensure", "await", "work", "closing", "ended"}

TypeOK ==
  /\ QueueTypeOK
  /\ scene \in Scenes
  /\ stop \in {"no", "cleaning", "closed"}
  /\ session \in [Sessions -> {"no", "acquiring", "showing", "open", "gone"}]
  /\ terminate \subseteq Mcp
  /\ handle \in [Sessions -> Owners \cup {None}]
  /\ cleanup \in [Sessions -> Cleanups]
  /\ handler \in [Calls -> Handlers]
  /\ task \in [Calls -> Tasks]
  /\ uses \in [Calls -> Owners \cup {None}]
  /\ raw \in [Calls -> {"no", "acquiring", "showing", "over"}]
  /\ browser \in [Owners -> {"none", "held", "closed", "released"}]
  /\ row \in [Keys -> {"none", "done"} \cup Calls]
  /\ cache \in [Sessions -> SUBSET Keys]
  /\ adrift \subseteq Sessions

Init ==
  /\ QueueInit
  /\ scene \in Scenes
  /\ stop = "no"
  /\ session = [s \in Sessions |-> "no"]
  /\ terminate = {}
  /\ handle = [s \in Sessions |-> None]
  /\ cleanup = [s \in Sessions |-> "no"]
  /\ handler = [c \in Calls |-> "idle"]
  /\ task = [c \in Calls |-> "off"]
  /\ uses = [c \in Calls |-> None]
  /\ raw = [c \in Calls |-> "no"]
  /\ browser = [h \in Owners |-> "none"]
  /\ row = [k \in Keys |-> "none"]
  /\ cache = [s \in Sessions |-> {}]
  /\ adrift = {}

-----------------------------------------------------------------------------
\* The answers of calls that the queue has just rejected.
Answer(C) == handler' = [c \in Calls |-> IF c \in C THEN "answered" ELSE handler[c]]
Go(c, l) == handler' = [handler EXCEPT ![c] = l]
Do(c, l) == task' = [task EXCEPT ![c] = l]

\* The task settles.  If nobody has rejected its call, its handler goes on.
Settle(c, l) ==
  /\ Do(c, "ended")
  /\ Finish(c)
  /\ IF execution[c] = "active" THEN Go(c, l) ELSE UNCHANGED handler

Release(h) == browser' = [browser EXCEPT ![h] = "released"]

\* recycleSessionBrowserHandle.
Recycle(s) ==
  IF handle[s] = None
  THEN UNCHANGED <<handle, browser>>
  ELSE handle' = [handle EXCEPT ![s] = None] /\ Release(handle[s])

-----------------------------------------------------------------------------
(* Sessions open.                                                          *)

Register(s) ==
  /\ session' = [session EXCEPT ![s] = "open"]
  /\ adrift' = IF stop = "no" THEN adrift ELSE adrift \cup {s}

\* POST /sessions acquires a browser,
Create(s) ==
  /\ s \in scene \cap Rest
  /\ session[s] = "no"
  /\ stop # "closed"
  /\ session' = [session EXCEPT ![s] = "acquiring"]
  /\ UNCHANGED <<queueVars, scene, stop, terminate, cleanup, handle, handler, task,
                 uses, raw, browser, keeping, adrift>>

Acquired(s) ==
  /\ session[s] = "acquiring"
  /\ \/ /\ session' = [session EXCEPT ![s] = "showing"]
        /\ browser' = [browser EXCEPT ![s] = "held"]
     \/ session' = [session EXCEPT ![s] = "gone"] /\ UNCHANGED browser
  /\ UNCHANGED <<queueVars, scene, stop, terminate, cleanup, handle, handler, task,
                 uses, raw, keeping, adrift>>

\* shows or hides it, and lists the session.
Shown(s) ==
  /\ session[s] = "showing"
  /\ \/ /\ Register(s)
        /\ handle' = [handle EXCEPT ![s] = s]
        /\ UNCHANGED browser
     \/ /\ session' = [session EXCEPT ![s] = "gone"]
        /\ Release(s)
        /\ UNCHANGED <<handle, adrift>>
  /\ UNCHANGED <<queueVars, scene, stop, terminate, cleanup, handler, task, uses,
                 raw, keeping>>

\* An MCP session is listed when it is initialized; it has no browser yet.
Initialize(s) ==
  /\ s \in scene \cap Mcp
  /\ session[s] = "no"
  /\ stop # "closed"
  /\ Register(s)
  /\ UNCHANGED <<queueVars, scene, stop, terminate, cleanup, handle, handler, task,
                 uses, raw, browser, keeping>>

-----------------------------------------------------------------------------
(* Requests, up to the queue.                                              *)

Admit(c) ==
  \/ Enqueue(c) /\ Go(c, "wait")
  \/ /\ Full(Of[c])
     /\ execution' = [execution EXCEPT ![c] = "over"]
     /\ Go(c, "answered")
     /\ UNCHANGED <<invokeQueue, signal, closing, closeSignal>>

\* What may have expired: the reservations of calls that are over, their tasks
\* included, and the results that no call has just found.
Over(c) == handler[c] \in {"idle", "answered", "done"} /\ task[c] \in {"off", "ended"}
Expired(s) == {k \in cache[s] : \A c \in Calls : Of[c] = s /\ KeyOf[c] = k => Over(c)}
Expirable == {k \in Keys : row[k] = "done" \/ (row[k] \in Calls /\ Over(row[k]))}

\* POST /invoke, and tools/call over MCP.  The former first drops what has
\* expired of the session's cache, and of the database.
Request(c) ==
  /\ c \in scene
  /\ handler[c] = "idle"
  /\ session[Of[c]] = "open"
  /\ stop # "closed"
  /\ IF Of[c] \in Mcp
     THEN Admit(c) /\ UNCHANGED cache
     ELSE /\ Go(c, "prune")
          /\ \E K \in SUBSET Expired(Of[c]) : cache' = [cache EXCEPT ![Of[c]] = @ \ K]
          /\ UNCHANGED queueVars
  /\ UNCHANGED <<opening, handle, task, uses, raw, browser, row, adrift>>

Prune(c) ==
  /\ handler[c] = "prune"
  /\ \E K \in SUBSET Expirable :
       row' = [k \in Keys |-> IF k \in K THEN "none" ELSE row[k]]
  /\ IF KeyOf[c] = None THEN Admit(c) ELSE Go(c, "reserve") /\ UNCHANGED queueVars
  /\ UNCHANGED <<opening, handle, task, uses, raw, browser, cache, adrift>>

\* reserve() reads the row.  One that is reserved refuses the call, a result is
\* put into the session's cache, for the task to find.
Reserve(c) ==
  LET k == KeyOf[c] s == Of[c]
  IN /\ handler[c] = "reserve"
     /\ \/ row[k] = "none" /\ Go(c, "insert") /\ UNCHANGED <<queueVars, cache>>
        \/ row[k] \in Calls /\ Go(c, "answered") /\ UNCHANGED <<queueVars, cache>>
        \/ /\ row[k] = "done"
           /\ cache' = [cache EXCEPT ![s] = @ \cup {k}]
           /\ Admit(c)
     /\ UNCHANGED <<opening, handle, task, uses, raw, browser, row, adrift>>

\* It inserts a row that was not there.  The primary key refuses a second one.
AnyInsert(c) ==  \* mutant: no primary key
  /\ handler[c] = "insert"
  /\ row' = [row EXCEPT ![KeyOf[c]] = c]
  /\ Admit(c)
  /\ UNCHANGED <<opening, handle, task, uses, raw, browser, cache, adrift>>
Insert(c) ==
  /\ handler[c] = "insert"
  /\ row[KeyOf[c]] = "none"
  /\ row' = [row EXCEPT ![KeyOf[c]] = c]
  /\ Admit(c)
  /\ UNCHANGED <<opening, handle, task, uses, raw, browser, cache, adrift>>

-----------------------------------------------------------------------------
(* The result of a call with a key is stored: set() deletes the row, and   *)
(* inserts another.                                                        *)

Remove(c) ==
  /\ handler[c] = "remove"
  /\ row' = [row EXCEPT ![KeyOf[c]] = "none"]
  /\ Go(c, "store")
  /\ UNCHANGED <<queueVars, opening, handle, task, uses, raw, browser, cache, adrift>>

Store(c) ==
  /\ handler[c] = "store"
  /\ row[KeyOf[c]] = "none"
  /\ row' = [row EXCEPT ![KeyOf[c]] = "done"]
  /\ Go(c, "answered")
  /\ UNCHANGED <<queueVars, opening, handle, task, uses, raw, browser, cache, adrift>>

\* A query fails, as an insertion must when the row is there: the handler
\* throws, and the client has an error.
QueryFails(c) ==
  /\ handler[c] \in {"prune", "reserve", "insert", "remove", "store"}
  /\ Go(c, "answered")
  /\ UNCHANGED <<queueVars, opening, handle, task, uses, raw, browser, keeping, adrift>>

-----------------------------------------------------------------------------
(* The queue executes the tasks.                                           *)

TaskStarts(c) ==
  /\ Start(c)
  /\ Do(c, "begin")
  /\ UNCHANGED <<opening, handle, handler, uses, raw, browser, keeping, adrift>>

TaskRefused(c) ==
  /\ Refuse(c)
  /\ Go(c, "answered")
  /\ UNCHANGED <<opening, handle, task, uses, raw, browser, keeping, adrift>>

TaskTimesOut(c) ==
  /\ TimeOut(c)
  /\ Go(c, "answered")
  /\ UNCHANGED <<opening, handle, task, uses, raw, browser, keeping, adrift>>

\* A task that waits for a browser ends at once when it is told to.
Waiting(c) == task[c] \in {"begin", "ensure", "await"}

TaskGivenUp(c) ==
  /\ ~Waiting(c)
  /\ GiveUp(c)
  /\ UNCHANGED <<opening, handle, handler, task, uses, raw, browser, keeping, adrift>>

TaskAborted(c) ==
  /\ Waiting(c)
  /\ c \in signal
  /\ Settle(c, "answered")
  /\ UNCHANGED <<opening, handle, uses, raw, browser, keeping, adrift>>

\* The capability returns, or throws.  A REST session's cache keeps the result of
\* a call with a key, also when the call has been answered meanwhile.  An MCP
\* handler that catches the error of a dead browser recycles it.
WorkEnds(c) ==
  LET s == Of[c]
  IN /\ task[c] = "work"
     /\ \/ /\ KeyOf[c] # None
           /\ cache' = [cache EXCEPT ![s] = @ \cup {KeyOf[c]}]
           /\ Settle(c, "remove")
           /\ UNCHANGED <<handle, browser>>
        \/ Settle(c, "answered") /\ UNCHANGED <<handle, browser, cache>>
        \/ /\ s \in Mcp /\ execution[c] = "active"
           /\ Settle(c, "answered")
           /\ Recycle(s)
           /\ UNCHANGED cache
     /\ UNCHANGED <<opening, uses, raw, row, adrift>>

-----------------------------------------------------------------------------
(* The tasks of a REST session.                                            *)

\* The task may be refused (scopes, schema, confirmation), or replayed.
BeginRest(c) ==
  /\ task[c] = "begin"
  /\ Of[c] \in Rest
  /\ \/ Settle(c, "answered") /\ UNCHANGED uses
     \/ /\ c \notin signal
        /\ KeyOf[c] \notin cache[Of[c]]
        /\ Do(c, "work")
        /\ uses' = [uses EXCEPT ![c] = handle[Of[c]]]
        /\ UNCHANGED <<queueVars, handler>>
  /\ UNCHANGED <<opening, handle, raw, browser, keeping, adrift>>

-----------------------------------------------------------------------------
(* The tasks of an MCP session, and its browser.                           *)

\* A capability uses the browser, or not, or closes a session: its own after the
\* response.
BeginMcp(c) ==
  LET s == Of[c]
  IN /\ task[c] = "begin"
     /\ s \in Mcp
     /\ c \notin signal
     /\ Target[c] \in {s, None}
     /\ IF Target[c] = s
        THEN /\ closing' = closing \cup {s}
             /\ terminate' = terminate \cup {s}
             /\ Do(c, "work")
        ELSE /\ \E l \in {"ensure", "work"} : Do(c, l)
             /\ UNCHANGED <<closing, terminate>>
     /\ UNCHANGED <<invokeQueue, execution, signal, closeSignal, scene, stop, session,
                    cleanup, handle, handler, uses, raw, browser, keeping, adrift>>

\* ensureSessionBrowserHandle takes the browser of the session if it is alive (and
\* its view can be attached), and recycles it otherwise; without one it begins to
\* acquire.
Ensure(c) ==
  LET s == Of[c] h == handle[s]
  IN /\ task[c] = "ensure"
     /\ c \notin signal
     /\ \/ /\ h # None /\ browser[h] = "held"
           /\ Do(c, "work")
           /\ uses' = [uses EXCEPT ![c] = h]
           /\ UNCHANGED <<queueVars, handle, handler, raw, browser>>
        \/ /\ h # None /\ browser[h] = "held"
           /\ Settle(c, "answered")
           /\ UNCHANGED <<handle, uses, raw, browser>>
        \/ /\ h # None /\ browser[h] = "closed"
           /\ Recycle(s)
           /\ UNCHANGED <<queueVars, handler, task, uses, raw>>
        \/ /\ h = None
           /\ Do(c, "await")
           /\ raw' = [raw EXCEPT ![c] = "acquiring"]
           /\ UNCHANGED <<queueVars, handle, handler, uses, browser>>
     /\ UNCHANGED <<opening, keeping, adrift>>

\* What the acquire looks at is the present call of the session, not its own.
NeverCancelled(s) == FALSE  \* mutant: it does not look
Cancelled(s) == Executing(s) \cap signal # {} \/ Closed(s)

\* The acquire fails: so does the task, if it still waits.
RawFails(c) ==
  /\ raw' = [raw EXCEPT ![c] = "over"]
  /\ IF task[c] = "await" /\ c \notin signal
     THEN Settle(c, "answered")
     ELSE UNCHANGED <<queueVars, handler, task>>
  /\ UNCHANGED <<handle, uses>>

RawAcquired(c) ==
  /\ raw[c] = "acquiring"
  /\ \/ RawFails(c) /\ UNCHANGED browser
     \/ Cancelled(Of[c]) /\ RawFails(c) /\ Release(c)
     \/ /\ ~Cancelled(Of[c])
        /\ raw' = [raw EXCEPT ![c] = "showing"]
        /\ browser' = [browser EXCEPT ![c] = "held"]
        /\ UNCHANGED <<queueVars, handle, handler, task, uses>>
  /\ UNCHANGED <<opening, keeping, adrift>>

\* The browser is visible: it becomes the session's, whoever waits for it, and
\* whichever the session has.
RawShown(c) ==
  LET s == Of[c] waits == task[c] = "await" /\ c \notin signal
  IN /\ raw[c] = "showing"
     /\ \/ RawFails(c) /\ Release(c) /\ UNCHANGED adrift
        \/ /\ ~Cancelled(s)
           /\ raw' = [raw EXCEPT ![c] = "over"]
           /\ handle' = [handle EXCEPT ![s] = c]
           /\ IF waits
              THEN /\ Do(c, "work")
                   /\ uses' = [uses EXCEPT ![c] = c]
                   /\ UNCHANGED adrift
              ELSE /\ adrift' = adrift \cup ({s} \ closing)
                   /\ UNCHANGED <<task, uses>>
           /\ UNCHANGED <<queueVars, handler, browser>>
     /\ UNCHANGED <<opening, keeping>>

\* A browser may close of itself.
Crash(h) ==
  /\ "crash" \in scene
  /\ browser[h] = "held"
  /\ browser' = [browser EXCEPT ![h] = "closed"]
  /\ UNCHANGED <<queueVars, opening, handle, handler, task, uses, raw, keeping, adrift>>

-----------------------------------------------------------------------------
(* Sessions end.                                                           *)

\* They are no longer listed; cleanup aborts them, and rejects their calls.
Unlist(S, l) ==
  /\ session' = [s \in Sessions |-> IF s \in S THEN "gone" ELSE session[s]]
  /\ cleanup' = [s \in Sessions |-> IF s \in S THEN l ELSE cleanup[s]]
  /\ AbortSessions(S)

Delete(s) ==
  /\ "delete" \in scene
  /\ session[s] = "open"
  /\ stop # "closed"
  /\ Unlist({s}, IF s \in Mcp THEN "drain" ELSE "drain, purge")
  /\ Answer(Active({s}))
  /\ UNCHANGED <<scene, stop, terminate, handle, task, uses, raw, browser, keeping, adrift>>

\* cleanupInactiveSessions, when the clients have been quiet for long enough.
Sweep(s) ==
  /\ stop = "no"
  /\ session[s] = "open"
  /\ Pending(s) = 0 \/ (s \in Mcp /\ s \in closing)
  /\ Unlist({s}, "drain")
  /\ Answer(Active({s}))
  /\ UNCHANGED <<scene, stop, terminate, handle, task, uses, raw, browser, keeping, adrift>>

\* stopHttpServer cleans up all sessions, and then stops listening.
Stop ==
  /\ "stop" \in scene
  /\ stop = "no"
  /\ stop' = "cleaning"
  /\ LET S == {s \in Sessions : session[s] = "open"}
     IN Unlist(S, "drain") /\ Answer(Active(S))
  /\ UNCHANGED <<scene, terminate, handle, task, uses, raw, browser, keeping, adrift>>

StopReturns ==
  /\ stop = "cleaning"
  /\ \A s \in Sessions : cleanup[s] \in {"no", "done"}
  /\ stop' = "closed"
  /\ UNCHANGED <<queueVars, scene, session, terminate, cleanup, handle, handler, task,
                 uses, raw, browser, keeping, adrift>>

\* A capability closes another session, and waits for its cleanup.
CloseOther(c) ==
  LET t == Target[c]
  IN /\ task[c] = "begin"
     /\ c \notin signal
     /\ t \notin {Of[c], None}
     /\ IF session[t] = "open"
        THEN Do(c, "closing") /\ Unlist({t}, "drain") /\ Answer(Active({t}))
        ELSE Do(c, "work") /\ UNCHANGED <<queueVars, handler, session, cleanup>>
     /\ UNCHANGED <<scene, stop, terminate, handle, uses, raw, browser, keeping, adrift>>

CloseReturns(c) ==
  /\ task[c] = "closing"
  /\ cleanup[Target[c]] = "done"
  /\ Settle(c, "answered")
  /\ UNCHANGED <<opening, handle, uses, raw, browser, keeping, adrift>>

\* A response has been sent.  Any of the session's, once it is to terminate, ends it.
Flush(c) ==
  LET s == Of[c]
  IN /\ handler[c] = "answered"
     /\ IF s \in terminate
        THEN /\ terminate' = terminate \ {s}
             /\ IF session[s] = "open"
                THEN /\ Unlist({s}, "drain")
                     /\ handler' = [d \in Calls |->
                                      IF d = c THEN "done"
                                      ELSE IF d \in Active({s}) THEN "answered"
                                      ELSE handler[d]]
                ELSE Go(c, "done") /\ UNCHANGED <<queueVars, session, cleanup>>
        ELSE Go(c, "done") /\ UNCHANGED <<queueVars, session, cleanup, terminate>>
     /\ UNCHANGED <<scene, stop, handle, task, uses, raw, browser, keeping, adrift>>

\* cleanup has waited for the queue, or for 1500 ms, and releases the browser.
Drained(s) ==
  /\ cleanup[s] \in {"drain", "drain, purge"}
  /\ cleanup' = [cleanup EXCEPT ![s] = IF @ = "drain" THEN "done" ELSE "purge"]
  /\ Recycle(s)
  /\ UNCHANGED <<queueVars, scene, stop, session, terminate, handler, task, uses, raw,
                 keeping, adrift>>

\* DELETE /sessions drops the rows of the session's own namespace.
Purge(s) ==
  /\ cleanup[s] = "purge"
  /\ cleanup' = [cleanup EXCEPT ![s] = "done"]
  /\ row' = [k \in Keys |-> IF Namespace[k] = s THEN "none" ELSE row[k]]
  /\ UNCHANGED <<queueVars, scene, stop, session, terminate, handle, handler, task,
                 uses, raw, browser, cache, adrift>>

-----------------------------------------------------------------------------
\* What the server does of itself: its queries, acquires, timers and promises.
ServerStep ==
  \/ \E s \in Sessions :
       Acquired(s) \/ Shown(s) \/ Sweep(s) \/ Drained(s) \/ Purge(s)
  \/ \E c \in Calls :
       \/ Prune(c) \/ Reserve(c) \/ Insert(c) \/ Remove(c) \/ Store(c) \/ QueryFails(c)
       \/ TaskStarts(c) \/ TaskRefused(c) \/ TaskTimesOut(c) \/ TaskGivenUp(c)
       \/ TaskAborted(c) \/ BeginRest(c) \/ BeginMcp(c) \/ Ensure(c)
       \/ RawAcquired(c) \/ RawShown(c) \/ CloseOther(c) \/ CloseReturns(c) \/ Flush(c)
  \/ StopReturns

\* What clients, capabilities and browsers may do, or not.
Others ==
  \/ \E s \in Sessions : Create(s) \/ Initialize(s) \/ Delete(s)
  \/ \E c \in Calls : Request(c) \/ WorkEnds(c)
  \/ \E h \in Owners : Crash(h)
  \/ Stop

Next == ServerStep \/ Others

Spec == Init /\ [][Next]_vars

\* Queries, acquires and timers come back; a capability need not.  The sweeper finds
\* a session whose client is quiet.  One condition is enough for all of them, for
\* the steps of a behaviour are finite in number: each call is made once.
FairSpec == Spec /\ WF_vars(ServerStep)

-----------------------------------------------------------------------------
\* A key whose namespace is the id of a session, used from another session; the
\* rows of a namespace are dropped when a deleted session has been cleaned up.
Borrowed(k) == \E c \in Calls : KeyOf[c] = k /\ Namespace[k] \notin {None, Of[c]}
Dropped(k) == Namespace[k] # None /\ cleanup[Namespace[k]] = "done"

\* The tasks of a session do not overlap, not even when one of them ignores its
\* time limit; nor do those of an idempotency key, in whichever sessions, and none
\* works while the key's result is stored (enqueueInvokeTask, reserve, set).  The
\* deletion of a session takes this away from the sessions that use its id for a
\* namespace: it drops the row of a task that has been given up and still works.
TasksDoNotOverlap ==
  /\ \A c, d \in Calls :
       c # d /\ Of[c] = Of[d] /\ task[c] \notin {"off", "ended"}
       => task[d] \in {"off", "ended"}
  /\ \A k \in Keys :
       LET working == {c \in Calls : KeyOf[c] = k /\ task[c] = "work"}
       IN \/ /\ Cardinality(working) <= 1
             /\ row[k] = "done" => working = {}
          \/ Borrowed(k) /\ Dropped(k)

\* No browser is released while a task works with it, unless the task has been told
\* to stop (cleanupMcpSession, cleanupOrchestrationSession, recycleSessionBrowserHandle).
NotUnderCalls ==
  \A c \in Calls :
    task[c] = "work" /\ uses[c] # None /\ browser[uses[c]] = "released" => c \in signal

\* Every call is answered, whatever becomes of its task, its session, the tasks
\* before it and the database (enqueueInvokeTask, closeSession): time and again no
\* call is waiting.
CallsAnswered == []<>(\A c \in Calls : handler[c] \in {"idle", "answered", "done"})

\* Every browser is released in the end: time and again none is left.  The exceptions
\* are those of a session that was registered while the server stops, and of one in
\* which an acquire came back after its call had stopped waiting, which may replace
\* the browser of the next.
BrowsersReturned ==
  []<>(\A h \in Owners :
         browser[h] \in {"held", "closed"}
         => (IF h \in Sessions THEN h ELSE Of[h]) \in adrift)
=============================================================================
