---------------------------- MODULE WorkContract ----------------------------
(***************************************************************************)
(* What the router promises to whoever hands it work: at most so many jobs *)
(* wait and so many are at work; a job is worked on once, and critical     *)
(* jobs in the order they came in; an observation may be replaced by a     *)
(* newer one about the same key or given up for critical work that finds   *)
(* no place; critical work is refused only when all that waits is critical;*)
(* and who is done with a job does not rest while another waits, until the *)
(* bridge stops.                                                           *)
(***************************************************************************)
EXTENDS Naturals, FiniteSets

CONSTANTS Jobs, None, Capacity, Limit

VARIABLES
  arrived, \* the number of the last job that came in
  waiting, \* the jobs that wait
  working, \* the jobs at work
  lost,    \* those that were refused or given up
  stopped  \* did the bridge stop?
promise == <<arrived, waiting, working, lost, stopped>>

Critical(job) == job.key = None
Crowded       == Cardinality(waiting) >= Capacity
Alike(job)    == {k \in waiting : k.key = job.key /\ ~Critical(k)}

Init ==
  /\ arrived = 0
  /\ waiting = {} /\ working = {} /\ lost = {}
  /\ stopped = FALSE

(* A new job comes in ...                                                   *)
ComesIn(job) ==
  /\ job.id > arrived
  /\ arrived' = job.id
  /\ UNCHANGED <<working, stopped>>

Accept(job) ==
  /\ ComesIn(job)
  /\ ~Crowded /\ Alike(job) = {}
  /\ waiting' = waiting \union {job}
  /\ UNCHANGED lost

Replace(job, old) ==
  /\ ComesIn(job)
  /\ old \in Alike(job)
  /\ waiting' = (waiting \ {old}) \union {job}
  /\ UNCHANGED lost

Displace(job, old) ==
  /\ ComesIn(job)
  /\ Crowded /\ Critical(job)
  /\ old \in waiting /\ ~Critical(old)
  /\ waiting' = (waiting \ {old}) \union {job}
  /\ lost' = lost \union {old}

Refuse(job) ==
  /\ ComesIn(job)
  /\ Crowded /\ Alike(job) = {}
  /\ Critical(job) => \A k \in waiting : Critical(k)
  /\ lost' = lost \union {job}
  /\ UNCHANGED waiting

(* ... is taken up, in the place of one that is done or in a free one ...   *)
TakeUp(job, done) ==
  /\ job \in waiting
  /\ Critical(job) => \A k \in waiting : Critical(k) => job.id <= k.id
  /\ working' = (working \ done) \union {job}
  /\ Cardinality(working') <= Limit
  /\ waiting' = waiting \ {job}
  /\ UNCHANGED <<arrived, lost, stopped>>

(* ... and gets done; its place stays free only when nothing waits.         *)
GetDone(job) ==
  /\ job \in working
  /\ waiting = {}
  /\ working' = working \ {job}
  /\ UNCHANGED <<arrived, waiting, lost, stopped>>

(* The bridge stops, with all or some of the work.                          *)
Stop ==
  /\ ~stopped /\ stopped' = TRUE
  /\ working' = {}
  /\ waiting' \in {waiting, {}}
  /\ UNCHANGED <<arrived, lost>>

Next ==
  \/ \E job \in Jobs : Accept(job) \/ Refuse(job)
  \/ \E job \in Jobs, old \in waiting : Replace(job, old) \/ Displace(job, old)
  \/ \E job \in waiting : TakeUp(job, {}) \/ \E done \in working : TakeUp(job, {done})
  \/ \E job \in working : GetDone(job)
  \/ Stop

Spec == Init /\ [][Next]_promise
=============================================================================
