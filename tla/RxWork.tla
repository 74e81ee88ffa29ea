------------------------------- MODULE RxWork -------------------------------
(* The work that received frames give (rx_router.py): a bounded queue of    *)
(* jobs and a bounded number of workers that empty it.  A worker is started *)
(* only when a job is put into the queue or when another one ends, and ends *)
(* when it finds the queue empty.  A job with a key is an observation that  *)
(* a later one replaces (an advert, a path); any other is critical.         *)
(*                                                                          *)
(* One action is what runs on the event loop between two awaits; a job ends *)
(* with or without an exception.                                            *)
EXTENDS Integers, FiniteSets, SequencesExt

CONSTANTS Keys,      \* what observations are about
          None,      \* the key of critical work
          Capacity,  \* _rx_capacity
          Limit,     \* _rx_workers_limit
          MaxJobs    \* bound: how many jobs arrive

ASSUME NoneAssumption == None \notin Keys
ASSUME SizeAssumption == Capacity \in Nat \ {0} /\ Limit \in Nat \ {0}
ASSUME BoundAssumption == MaxJobs \in Nat

VARIABLES queue,     \* _pending_rx
          starting,  \* workers that were created and did not run yet
          running,   \* the job that each other worker awaits
          ended,     \* workers that returned, their callback still to come
          overflow,  \* rx_overflow_count
          offered,   \* history: how many jobs arrived
          latest,    \* history: the last one that was accepted, for each key
          lost,      \* history: the jobs that were refused or displaced
          stopped    \* did the bridge cancel its tasks?

pool == <<starting, running, ended>>
history == <<offered, latest, lost>>
vars == <<queue, pool, overflow, history, stopped>>

Jobs == [id : 1 .. MaxJobs, key : Keys \union {None}]

-----------------------------------------------------------------------------
(* _ensure_rx_worker counts the workers that did not return.  *)
Workers == starting + Cardinality(running)

EnsuredOfAll(q, s) ==
  IF q # << >> /\ s + Cardinality(running) + ended < Limit THEN s + 1 ELSE s

Ensured(q, s) ==
  IF q # << >> /\ s + Cardinality(running) < Limit THEN s + 1 ELSE s

FullTooLate == Len(queue) > Capacity

Full == Len(queue) >= Capacity

(* Places in the queue: those of one key, and those critical work may take. *)
Same(job) ==
  {i \in 1 .. Len(queue) : job.key # None /\ queue[i].key = job.key}

Replaceable == {i \in 1 .. Len(queue) : queue[i].key # None}

First(places) == {i \in places : \A j \in places : i <= j}

-----------------------------------------------------------------------------
(* _enqueue_work, for a job that is the next to arrive *)

CoalescedOld(i, job) == queue

Coalesced(i, job) == [queue EXCEPT ![i] = job]

(* An observation takes the place of the one about the same key. *)
Coalesce(job) ==
  /\ \E i \in First(Same(job)) : queue' = Coalesced(i, job)
  /\ latest' = [latest EXCEPT ![job.key] = job.id]
  /\ UNCHANGED <<pool, overflow, lost>>

Admit(job) ==
  /\ Same(job) = {}
  /\ ~Full
  /\ queue' = Append(queue, job)
  /\ starting' = Ensured(queue', starting)
  /\ latest' = IF job.key = None THEN latest
               ELSE [latest EXCEPT ![job.key] = job.id]
  /\ UNCHANGED <<running, ended, overflow, lost>>

(* A full queue gives up its first observation for critical work ... *)
Displace(job) ==
  /\ job.key = None
  /\ Full
  /\ \E i \in First(Replaceable) :
       /\ queue' = Append(RemoveAt(queue, i), job)
       /\ lost' = lost \union {queue[i]}
  /\ starting' = Ensured(queue', starting)
  /\ overflow' = overflow + 1
  /\ UNCHANGED <<running, ended, latest>>

(* ... and refuses anything else. *)
Refuse(job) ==
  /\ Same(job) = {}
  /\ Full
  /\ job.key # None \/ Replaceable = {}
  /\ lost' = lost \union {job}
  /\ overflow' = overflow + 1
  /\ UNCHANGED <<queue, pool, latest>>

Arrive ==
  /\ offered < MaxJobs
  /\ offered' = offered + 1
  /\ \E key \in Keys \union {None} :
       LET job == [id |-> offered + 1, key |-> key]
       IN  Coalesce(job) \/ Admit(job) \/ Displace(job) \/ Refuse(job)
  /\ UNCHANGED stopped

-----------------------------------------------------------------------------
(* _drain_rx_work: a worker takes jobs until the queue is empty. *)
Take(others) ==
  IF queue # << >>
    THEN /\ running' = others \union {Head(queue)}
         /\ queue' = Tail(queue)
         /\ ended' = ended
    ELSE /\ running' = others
         /\ ended' = ended + 1
         /\ queue' = queue

Begin ==
  /\ starting > 0
  /\ starting' = starting - 1
  /\ Take(running)
  /\ UNCHANGED <<overflow, history, stopped>>

FinishRetrying(job) ==
  /\ job \in running
  /\ UNCHANGED vars

Finish(job) ==
  /\ job \in running
  /\ Take(running \ {job})
  /\ UNCHANGED <<starting, overflow, history, stopped>>

WorkerDoneTwice ==
  /\ ended + starting > 0
  /\ ended' = ended - 1
  /\ starting' = Ensured(queue, starting)
  /\ UNCHANGED <<queue, running, overflow, history, stopped>>

(* _rx_worker_done *)
WorkerDone ==
  /\ ended > 0
  /\ ended' = ended - 1
  /\ starting' = Ensured(queue, starting)
  /\ UNCHANGED <<queue, running, overflow, history, stopped>>

(* The bridge stops: after drain, or when its time is over, the workers are *)
(* cancelled.  One that awaits a job empties the queue; one that did not    *)
(* run yet does not.                                                        *)
Stop ==
  /\ ~stopped
  /\ stopped' = TRUE
  /\ queue' = IF running = {} THEN queue ELSE << >>
  /\ running' = {}
  /\ starting' = 0
  /\ UNCHANGED <<ended, overflow, history>>

-----------------------------------------------------------------------------
Init ==
  /\ queue = << >>
  /\ starting = 0
  /\ running = {}
  /\ ended = 0
  /\ overflow = 0
  /\ offered = 0
  /\ latest = [k \in Keys |-> 0]
  /\ lost = {}
  /\ stopped = FALSE

Next == Arrive \/ Begin \/ (\E job \in running : Finish(job)) \/ WorkerDone \/ Stop

Spec == Init /\ [][Next]_vars

(* The event loop runs what is ready, and the handlers of frames end. *)
FairSpec ==
  /\ Spec
  /\ WF_vars(Begin) /\ WF_vars(WorkerDone)
  /\ \A job \in Jobs : WF_vars(Finish(job))

-----------------------------------------------------------------------------
(* Properties *)

TypeOK ==
  /\ queue \in Seq(Jobs)
  /\ running \subseteq Jobs
  /\ {starting, ended, overflow} \subseteq Nat
  /\ offered \in 0 .. MaxJobs
  /\ latest \in [Keys -> 0 .. MaxJobs]
  /\ lost \subseteq Jobs
  /\ stopped \in BOOLEAN

(* "Bound retained jobs and tasks" (rx_router.py:420): the queue keeps at   *)
(* most its capacity and at most the limit of workers are at work, however  *)
(* arrivals, ends and callbacks alternate.                                  *)
Bounded == Len(queue) <= Capacity /\ Workers <= Limit

(* Work never waits for a worker that nobody starts: until the bridge       *)
(* stops, the queue has a worker for each of its jobs, or the limit         *)
(* (rx_router.py _ensure_rx_worker: "without counting already completed     *)
(* workers").                                                               *)
WorkersForWork ==
  ~stopped => Workers >= Limit \/ Workers >= Len(queue)

(* Critical work is lost only to a queue that is full of critical work      *)
(* (rx_router.py:422 "Critical work may displace a queued observation").    *)
LossIsOfObservations ==
  [][\A job \in lost' \ lost :
       job.key = None => /\ Len(queue) = Capacity
                         /\ \A i \in 1 .. Len(queue) : queue[i].key = None]_vars

(* An observation that waits is the last one accepted about its key, and    *)
(* the only one, so the same key never holds two places (test_remaining_rx_ *)
(* capacity.py:56).                                                         *)
LatestWins ==
  /\ \A i \in 1 .. Len(queue) :
       queue[i].key # None => queue[i].id = latest[queue[i].key]
  /\ \A i, j \in 1 .. Len(queue) : i # j => queue[i].id # queue[j].id

(* What the router promises: at most so many jobs wait and are at work, a   *)
(* job is worked on once, critical jobs in the order they came in, nobody   *)
(* is idle while a job waits, and only observations are replaced or given   *)
(* up (rx_router.py:417-483, _enqueue_work and the workers).                *)
Waiting == {queue[i] : i \in 1 .. Len(queue)}

Contract == INSTANCE WorkContract
              WITH arrived <- offered, waiting <- Waiting, working <- running

WorkAsPromised == Contract!Spec

(* A job that waits is taken, replaced or displaced, or the bridge stops. *)
WorkIsTaken ==
  \A job \in Jobs :
    Contains(queue, job) ~> stopped \/ ~Contains(queue, job)
=============================================================================
