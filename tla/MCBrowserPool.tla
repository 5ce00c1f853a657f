--------------------------- MODULE MCBrowserPool ---------------------------
(* Instances of BrowserPool for TLC.                                       *)
EXTENDS BrowserPool, TLC

OneSession == [r \in Requests |-> "s1"]
\* r1 and r2 want the same profile, r3 another one.
TwoSessions == [r \in Requests |-> IF r = "r3" THEN "s2" ELSE "s1"]

EqualPrio == [r \in Requests |-> 0]
\* r2 is more urgent than the others.
UrgentPrio == [r \in Requests |-> IF r = "r2" THEN 1 ELSE 0]

\* One profile, and requests that wait as long as it takes, of plugins of their
\* own: every job, one at a time.
EveryJob ==
  [session |-> OneSession, prio |-> EqualPrio, plugin |-> [r \in Requests |-> r],
   places |-> 2, atOnce |-> 1, jobs |-> JobKinds,
   impatient |-> {}, takers |-> {}, twice |-> {},
   hazards |-> {"refused", "deleted", "reset"}]

\* Two jobs or releases beside each other.
TwoJobs ==
  [EveryJob EXCEPT !.atOnce = 2, !.jobs = {"drop", "sweep", "evict"},
                   !.hazards = {"reset"}]

\* Two profiles that compete for one place; whatever may happen happens.
OnePlace ==
  [session |-> TwoSessions, prio |-> UrgentPrio,
   plugin |-> [r \in Requests |-> "p"], places |-> 1, atOnce |-> 1,
   jobs |-> JobKinds, impatient |-> Requests, takers |-> {"r2"},
   twice |-> Requests, hazards |-> HazardKinds]

\* No mishap but failing resets and late jobs.
Mild ==
  [EveryJob EXCEPT !.jobs = {"drop", "sweep", "evict", "plugin", "stop"},
                   !.hazards = {"batch", "reset"}]

PoolScenes == {EveryJob, TwoJobs, OnePlace, Mild}

\* Requests with timers, for the answers they get.
Answers ==
  {[EveryJob EXCEPT !.plugin = [r \in Requests |-> "p"],
                    !.jobs = {"drop", "sweep", "stop", "profile"},
                    !.impatient = Requests]}

\* Workers are alike, and so are browser ids.
Alike == Permutations(Workers) \cup Permutations(Browsers)
=============================================================================
