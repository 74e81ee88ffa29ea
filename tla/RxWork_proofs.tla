--------------------------- MODULE RxWork_proofs ---------------------------
(* Proofs about RxWork: for any keys, capacity and limit, the queue and the *)
(* workers stay bounded, work has its workers, an observation that waits is *)
(* the last of its key, and critical work is lost only to critical work;    *)
(* and the whole is a refinement of WorkContract.                           *)
EXTENDS RxWork, SequenceTheorems, FiniteSetTheorems, TLAPS

(* Jobs in progress are a finite set of earlier arrivals, other than those  *)
(* that wait: the worker that takes a job really is one more at work.       *)
Placed ==
  /\ IsFiniteSet(running)
  /\ \A job \in running : job.id <= offered
  /\ \A i \in 1 .. Len(queue) :
       /\ queue[i].id <= offered
       /\ \A job \in running : job.id # queue[i].id

IInv == TypeOK /\ Placed /\ Bounded /\ WorkersForWork /\ LatestWins

Arriving(key) == [id |-> offered + 1, key |-> key]

-----------------------------------------------------------------------------
(* Sequences and sets *)

(* What the deletion of one element leaves (del queue[i]). *)
LEMMA Removed ==
  ASSUME NEW S, NEW s \in Seq(S), NEW i \in 1 .. Len(s)
  PROVE  /\ RemoveAt(s, i) \in Seq(S)
         /\ Len(RemoveAt(s, i)) = Len(s) - 1
         /\ \A j \in 1 .. Len(s) - 1 :
              RemoveAt(s, i)[j] = IF j < i THEN s[j] ELSE s[j + 1]
<1> DEFINE a == SubSeq(s, 1, i - 1)
           b == SubSeq(s, i + 1, Len(s))
<1>0. Len(s) \in Nat /\ i \in Nat
  OBVIOUS
<1>1. /\ a \in Seq(S) /\ Len(a) = i - 1
      /\ \A j \in 1 .. i - 1 : a[j] = s[j]
  <2>1. \A j \in 1 .. i - 1 : s[j] \in S
    BY <1>0
  <2> QED BY <1>0, <2>1
<1>2. /\ b \in Seq(S) /\ Len(b) = Len(s) - i
      /\ \A j \in 1 .. Len(s) - i : b[j] = s[i + j]
  <2>1. \A j \in i + 1 .. Len(s) : s[j] \in S
    BY <1>0
  <2> QED BY <1>0, <2>1
<1> HIDE DEF a, b
<1>3. /\ a \o b \in Seq(S) /\ Len(a \o b) = Len(s) - 1
      /\ \A j \in 1 .. Len(s) - 1 :
           (a \o b)[j] = IF j < i THEN s[j] ELSE s[j + 1]
  <2>1. a \o b \in Seq(S) /\ Len(a \o b) = Len(s) - 1
    BY <1>0, <1>1, <1>2
  <2>2. \A j \in 1 .. Len(s) - 1 : j < i => (a \o b)[j] = s[j]
    BY <1>0, <1>1, <1>2
  <2>3. ASSUME NEW j \in 1 .. Len(s) - 1, ~(j < i)
        PROVE  (a \o b)[j] = s[j + 1]
    <3>1. (a \o b)[j] = b[j - (i - 1)]
      BY <1>0, <1>1, <1>2, <2>3
    <3>2. j - (i - 1) \in 1 .. Len(s) - i
      BY <1>0, <2>3
    <3>3. i + (j - (i - 1)) = j + 1
      BY <1>0
    <3> QED BY <1>2, <3>1, <3>2, <3>3
  <2> QED BY <2>1, <2>2, <2>3
<1>4. RemoveAt(s, i) = a \o b
  BY DEF RemoveAt, a, b
<1> QED BY <1>3, <1>4

LEMMA OneMore ==
  ASSUME NEW S, NEW x, IsFiniteSet(S), x \notin S
  PROVE  /\ IsFiniteSet(S \union {x})
         /\ Cardinality(S \union {x}) = Cardinality(S) + 1
BY FS_AddElement

LEMMA OneLess ==
  ASSUME NEW S, NEW x \in S, IsFiniteSet(S)
  PROVE  /\ IsFiniteSet(S \ {x})
         /\ Cardinality(S \ {x}) = Cardinality(S) - 1
BY FS_RemoveElement

LEMMA Counted ==
  ASSUME IsFiniteSet(running)
  PROVE  Cardinality(running) \in Nat
BY FS_CardinalityType

-----------------------------------------------------------------------------
LEMMA Initially == Init => IInv
<1> SUFFICES ASSUME Init PROVE IInv
  OBVIOUS
<1>1. Len(queue) = 0 /\ queue \in Seq(Jobs)
  BY DEF Init
<1>2. IsFiniteSet(running) /\ Cardinality(running) = 0
  BY FS_EmptySet DEF Init
<1>3. TypeOK
  <2>1. latest \in [Keys -> 0 .. MaxJobs] /\ offered \in 0 .. MaxJobs
    BY BoundAssumption DEF Init
  <2>2. {starting, ended, overflow} \subseteq Nat
    BY DEF Init
  <2>3. running \subseteq Jobs /\ lost \subseteq Jobs /\ stopped \in BOOLEAN
    BY DEF Init
  <2> QED BY <1>1, <2>1, <2>2, <2>3 DEF TypeOK
<1>4. Placed
  BY <1>1, <1>2 DEF Init, Placed
<1>5. Bounded /\ WorkersForWork
  BY <1>1, <1>2, SizeAssumption DEF Init, Bounded, WorkersForWork, Workers
<1>6. LatestWins
  BY <1>1 DEF LatestWins
<1> QED BY <1>3, <1>4, <1>5, <1>6 DEF IInv

(* Ensured starts at most one worker, below the limit, when there is work. *)
LEMMA EnsuredIs ==
  ASSUME NEW q, NEW s \in Nat, IsFiniteSet(running)
  PROVE  LET w == s + Cardinality(running)
             v == Ensured(q, s) + Cardinality(running)
         IN  /\ Ensured(q, s) \in Nat
             /\ q # << >> /\ w < Limit => v = w + 1
             /\ ~(q # << >> /\ w < Limit) => v = w
BY Counted DEF Ensured

-----------------------------------------------------------------------------
(* A job arrives *)

LEMMA Known ==
  ASSUME TypeOK
  PROVE  /\ Len(queue) \in Nat
         /\ \A i \in 1 .. Len(queue) : queue[i] \in Jobs
         /\ \A i \in 1 .. Len(queue) : queue[i].id \in Nat
         /\ \A job \in running : job.id \in Nat
         /\ offered \in Nat /\ starting \in Nat /\ ended \in Nat /\ overflow \in Nat
<1>1. Len(queue) \in Nat /\ \A i \in 1 .. Len(queue) : queue[i] \in Jobs
  BY DEF TypeOK
<1>2. \A job \in Jobs : job.id \in Nat
  BY BoundAssumption DEF Jobs
<1>3. offered \in Nat /\ starting \in Nat /\ ended \in Nat /\ overflow \in Nat
  BY BoundAssumption DEF TypeOK
<1> QED BY <1>1, <1>2, <1>3 DEF TypeOK

LEMMA Offered ==
  ASSUME TypeOK, NEW key \in Keys \union {None}, offered < MaxJobs
  PROVE  Arriving(key) \in Jobs /\ offered + 1 \in 0 .. MaxJobs
BY BoundAssumption DEF TypeOK, Jobs, Arriving

(* The queue after a step holds the arriving job and some it held before. *)
LEMMA PlacedAgain ==
  ASSUME TypeOK, Placed, running' = running, offered' = offered + 1,
         \A i \in 1 .. Len(queue') :
           \/ queue'[i].id = offered + 1
           \/ \E j \in 1 .. Len(queue) : queue'[i] = queue[j]
  PROVE  Placed'
<1>1. IsFiniteSet(running)'
  BY DEF Placed
<1>2. \A job \in running' : job.id <= offered'
  BY Known DEF Placed
<1>3. ASSUME NEW i \in 1 .. Len(queue')
      PROVE  /\ queue'[i].id <= offered'
             /\ \A job \in running' : job.id # queue'[i].id
  <2>0. /\ offered \in Nat /\ \A job \in running : job.id \in Nat
        /\ \A j \in 1 .. Len(queue) : queue[j].id \in Nat
    BY Known
  <2>1. CASE queue'[i].id = offered + 1
    BY <2>0, <2>1 DEF Placed
  <2>2. CASE \E j \in 1 .. Len(queue) : queue'[i] = queue[j]
    BY <2>0, <2>2 DEF Placed
  <2> QED BY <2>1, <2>2
<1> QED BY <1>1, <1>2, <1>3 DEF Placed

LEMMA CoalesceKeeps ==
  ASSUME IInv, NEW key \in Keys \union {None}, offered < MaxJobs,
         offered' = offered + 1, stopped' = stopped, Coalesce(Arriving(key))
  PROVE  IInv'
<1> DEFINE job == Arriving(key)
<1>0. TypeOK /\ Placed /\ Bounded /\ WorkersForWork /\ LatestWins
  BY DEF IInv
<1>1. PICK i \in First(Same(job)) : queue' = [queue EXCEPT ![i] = job]
  BY DEF Coalesce, Coalesced
<1>2. i \in 1 .. Len(queue) /\ key # None /\ queue[i].key = key
  BY DEF First, Same, Arriving
<1>3. job \in Jobs /\ offered' \in 0 .. MaxJobs
  BY <1>0, Offered
<1>4. /\ queue' \in Seq(Jobs) /\ Len(queue') = Len(queue)
      /\ queue'[i] = job
      /\ \A j \in 1 .. Len(queue) : j # i => queue'[j] = queue[j]
  BY <1>0, <1>1, <1>2, <1>3 DEF TypeOK
<1>5. /\ starting' = starting /\ running' = running /\ ended' = ended
      /\ overflow' = overflow /\ lost' = lost
      /\ latest' = [latest EXCEPT ![key] = offered + 1]
  BY DEF Coalesce, pool, Arriving
<1>6. TypeOK'
  BY <1>0, <1>2, <1>3, <1>4, <1>5 DEF TypeOK
<1>7. Placed'
  <2>1. ASSUME NEW j \in 1 .. Len(queue')
        PROVE  \/ queue'[j].id = offered + 1
               \/ \E k \in 1 .. Len(queue) : queue'[j] = queue[k]
    BY <1>4 DEF Arriving
  <2> QED BY <1>0, <1>5, <2>1, PlacedAgain
<1>8. Bounded' /\ WorkersForWork'
  BY <1>0, <1>4, <1>5 DEF Bounded, WorkersForWork, Workers
<1>9. LatestWins'
  <2>1. \A j, k \in 1 .. Len(queue') : j # k => queue'[j].id # queue'[k].id
    <3>1. \A j \in 1 .. Len(queue) : queue[j].id <= offered /\ queue[j].id \in Nat
      BY <1>0, Known DEF Placed
    <3>2. queue'[i].id = offered + 1 /\ offered \in Nat
      BY <1>0, <1>4, Known DEF Arriving
    <3>3. \A j \in 1 .. Len(queue) : j # i => queue'[j].id # queue'[i].id
      <4> SUFFICES ASSUME NEW j \in 1 .. Len(queue), j # i
                   PROVE  queue'[j].id # queue'[i].id
        OBVIOUS
      <4>1. queue'[j] = queue[j]
        BY <1>4
      <4>2. queue[j].id <= offered /\ queue[j].id \in Nat
        BY <3>1
      <4> HIDE DEF job
      <4> QED BY <3>2, <4>1, <4>2
    <3>4. \A j, k \in 1 .. Len(queue) :
            j # k /\ j # i /\ k # i => queue'[j].id # queue'[k].id
      BY <1>0, <1>4 DEF LatestWins
    <3>5. 1 .. Len(queue') = 1 .. Len(queue)
      BY <1>4
    <3> HIDE DEF job
    <3> QED BY <3>3, <3>4, <3>5
  <2>2. ASSUME NEW j \in 1 .. Len(queue'), queue'[j].key # None
        PROVE  queue'[j].id = latest'[queue'[j].key]
    <3>1. CASE j = i
      BY <1>0, <1>2, <1>4, <1>5, <3>1 DEF Arriving, TypeOK
    <3>2. CASE j # i
      <4>1. queue'[j] = queue[j] /\ queue[j] \in Jobs /\ j \in 1 .. Len(queue)
        BY <1>0, <1>4, <3>2, Known
      <4>2. queue[j].id = latest[queue[j].key] /\ queue[i].id = latest[key]
        BY <1>0, <1>2, <2>2, <4>1 DEF LatestWins
      <4>3. queue[j].key # key
        BY <1>0, <1>2, <3>2, <4>1, <4>2 DEF LatestWins
      <4>4. queue[j].key \in Keys
        BY <2>2, <4>1 DEF Jobs
      <4> QED BY <1>0, <1>5, <4>1, <4>2, <4>3, <4>4 DEF TypeOK
    <3> QED BY <3>1, <3>2
  <2> QED BY <2>1, <2>2 DEF LatestWins
<1> QED BY <1>6, <1>7, <1>8, <1>9 DEF IInv

LEMMA AdmitKeeps ==
  ASSUME IInv, NEW key \in Keys \union {None}, offered < MaxJobs,
         offered' = offered + 1, stopped' = stopped, Admit(Arriving(key))
  PROVE  IInv'
<1> DEFINE job == Arriving(key)
           n == Len(queue)
<1>0. TypeOK /\ Placed /\ Bounded /\ WorkersForWork /\ LatestWins
  BY DEF IInv
<1>1. n \in Nat /\ starting \in Nat /\ Cardinality(running) \in Nat
      /\ IsFiniteSet(running) /\ Capacity \in Nat /\ Limit \in Nat
  BY <1>0, Known, Counted, SizeAssumption DEF Placed
<1>2. n < Capacity
  BY <1>0, <1>1 DEF Admit, Full
<1>3. job \in Jobs /\ offered' \in 0 .. MaxJobs
  BY <1>0, Offered
<1>4. /\ queue' \in Seq(Jobs) /\ Len(queue') = n + 1
      /\ queue'[n + 1] = job
      /\ \A j \in 1 .. n : queue'[j] = queue[j]
  BY <1>0, <1>3 DEF TypeOK, Admit
<1>5. /\ running' = running /\ ended' = ended
      /\ overflow' = overflow /\ lost' = lost
      /\ starting' = Ensured(queue', starting)
      /\ latest' = IF key = None THEN latest ELSE [latest EXCEPT ![key] = offered + 1]
  BY DEF Admit, Arriving
<1>6. queue' # << >>
  BY <1>1, <1>4
<1>7. /\ starting' \in Nat
      /\ IF starting + Cardinality(running) < Limit
           THEN Workers' = Workers + 1
           ELSE Workers' = Workers
  BY <1>1, <1>5, <1>6, EnsuredIs DEF Workers
<1>8. TypeOK'
  <2>1. latest' \in [Keys -> 0 .. MaxJobs]
    BY <1>0, <1>3, <1>5 DEF TypeOK
  <2> QED BY <1>0, <1>3, <1>4, <1>5, <1>7, <2>1 DEF TypeOK
<1>9. Placed'
  <2>1. ASSUME NEW i \in 1 .. Len(queue')
        PROVE  \/ queue'[i].id = offered + 1
               \/ \E j \in 1 .. n : queue'[i] = queue[j]
    BY <1>1, <1>4 DEF Arriving
  <2> QED BY <1>0, <1>5, <2>1, PlacedAgain
<1>10. Bounded' /\ WorkersForWork'
  BY <1>0, <1>1, <1>2, <1>4, <1>7 DEF Bounded, WorkersForWork, Workers
<1>11. LatestWins'
  <2>0. \A j \in 1 .. n : queue[j] \in Jobs /\ queue[j].id <= offered /\ queue[j].id \in Nat
    BY <1>0, Known DEF Placed
  <2>1. \A j, k \in 1 .. Len(queue') : j # k => queue'[j].id # queue'[k].id
    <3>1. queue'[n + 1].id = offered + 1 /\ offered \in Nat
      BY <1>0, <1>4, Known DEF Arriving
    <3>2. \A j, k \in 1 .. n : j # k => queue'[j].id # queue'[k].id
      BY <1>0, <1>4 DEF LatestWins
    <3>3. \A j \in 1 .. n : queue'[j].id # queue'[n + 1].id
      BY <1>4, <2>0, <3>1
    <3> QED BY <1>1, <1>4, <3>2, <3>3
  <2>2. ASSUME NEW j \in 1 .. Len(queue'), queue'[j].key # None
        PROVE  queue'[j].id = latest'[queue'[j].key]
    <3>1. CASE j = n + 1
      <4>1. queue'[j].key = key /\ queue'[j].id = offered + 1 /\ key \in Keys
        BY <1>4, <2>2, <3>1 DEF Arriving
      <4> QED BY <1>0, <1>5, <2>2, <4>1 DEF TypeOK
    <3>2. CASE j # n + 1
      <4>1. j \in 1 .. n /\ queue'[j] = queue[j] /\ queue[j] \in Jobs
        BY <1>1, <1>4, <2>0, <3>2
      <4>2. queue[j].id = latest[queue[j].key] /\ queue[j].key \in Keys
        BY <1>0, <2>2, <4>1 DEF LatestWins, Jobs
      <4>3. key # None => queue[j].key # key
        BY <4>1 DEF Admit, Same, Arriving
      <4> QED BY <1>0, <1>5, <4>1, <4>2, <4>3 DEF TypeOK
    <3> QED BY <3>1, <3>2
  <2> QED BY <2>1, <2>2 DEF LatestWins
<1> QED BY <1>8, <1>9, <1>10, <1>11 DEF IInv

LEMMA DisplaceKeeps ==
  ASSUME IInv, NEW key \in Keys \union {None}, offered < MaxJobs,
         offered' = offered + 1, stopped' = stopped, Displace(Arriving(key))
  PROVE  IInv'
<1> DEFINE job == Arriving(key)
           n == Len(queue)
<1>0. TypeOK /\ Placed /\ Bounded /\ WorkersForWork /\ LatestWins
  BY DEF IInv
<1>1. n \in Nat /\ starting \in Nat /\ Cardinality(running) \in Nat
      /\ IsFiniteSet(running) /\ Capacity \in Nat /\ Limit \in Nat
  BY <1>0, Known, Counted, SizeAssumption DEF Placed
<1>2. PICK i \in First(Replaceable) :
        /\ queue' = Append(RemoveAt(queue, i), job)
        /\ lost' = lost \union {queue[i]}
  BY DEF Displace
<1>3. i \in 1 .. n /\ queue[i] \in Jobs
  BY <1>0, <1>2, Known DEF First, Replaceable
<1>4. job \in Jobs /\ offered' \in 0 .. MaxJobs
  BY <1>0, Offered
<1>5. /\ RemoveAt(queue, i) \in Seq(Jobs) /\ Len(RemoveAt(queue, i)) = n - 1
      /\ \A j \in 1 .. n - 1 :
           RemoveAt(queue, i)[j] = IF j < i THEN queue[j] ELSE queue[j + 1]
  BY <1>0, <1>3, Removed DEF TypeOK
<1>6. /\ queue' \in Seq(Jobs) /\ Len(queue') = n
      /\ queue'[n] = job
      /\ \A j \in 1 .. n - 1 : queue'[j] = RemoveAt(queue, i)[j]
  BY <1>1, <1>2, <1>3, <1>4, <1>5
<1>7. \A j \in 1 .. n - 1 :
        queue'[j] = IF j < i THEN queue[j] ELSE queue[j + 1]
  BY <1>5, <1>6
<1>8. /\ running' = running /\ ended' = ended /\ latest' = latest
      /\ overflow' = overflow + 1 /\ key = None
      /\ starting' = Ensured(queue', starting)
  BY DEF Displace, Arriving
<1>9. /\ starting' \in Nat
      /\ Workers' = Workers \/ (Workers < Limit /\ Workers' = Workers + 1)
  BY <1>1, <1>8, EnsuredIs DEF Workers
<1>10. TypeOK'
  <2>1. lost' \subseteq Jobs
    BY <1>0, <1>2, <1>3 DEF TypeOK
  <2>2. {starting, ended, overflow}' \subseteq Nat
    BY <1>0, <1>8, <1>9, Known
  <2> QED BY <1>0, <1>4, <1>6, <1>8, <2>1, <2>2 DEF TypeOK
<1>11. Placed'
  <2>1. ASSUME NEW j \in 1 .. Len(queue')
        PROVE  \/ queue'[j].id = offered + 1
               \/ \E k \in 1 .. n : queue'[j] = queue[k]
    <3>1. CASE j = n
      BY <1>6, <3>1 DEF Arriving
    <3>2. CASE j # n /\ j < i
      BY <1>1, <1>6, <1>7, <3>2
    <3>3. CASE j # n /\ ~(j < i)
      <4>1. queue'[j] = queue[j + 1] /\ j + 1 \in 1 .. n
        BY <1>1, <1>6, <1>7, <3>3
      <4> QED BY <4>1
    <3> QED BY <3>1, <3>2, <3>3
  <2> QED BY <1>0, <1>8, <2>1, PlacedAgain
<1>12. Bounded' /\ WorkersForWork'
  <2>1. Workers \in Nat
    BY <1>1 DEF Workers
  <2> QED BY <1>0, <1>1, <1>6, <1>9, <2>1 DEF Bounded, WorkersForWork
<1>13. LatestWins'
  <2>1. \A j \in 1 .. n : queue[j] \in Jobs /\ queue[j].id <= offered /\ queue[j].id \in Nat
    BY <1>0, Known DEF Placed
  <2>2. ASSUME NEW j \in 1 .. n - 1
        PROVE  \E k \in 1 .. n : queue'[j] = queue[k] /\ k = IF j < i THEN j ELSE j + 1
    <3>1. CASE j < i
      BY <1>1, <1>7, <3>1
    <3>2. CASE ~(j < i)
      <4>1. j + 1 \in 1 .. n /\ queue'[j] = queue[j + 1]
        BY <1>1, <1>7, <3>2
      <4> QED BY <4>1, <3>2
    <3> QED BY <3>1, <3>2
  <2>3. ASSUME NEW j \in 1 .. n - 1, NEW k \in 1 .. n - 1, j # k
        PROVE  queue'[j].id # queue'[k].id
    <3>1. PICK a \in 1 .. n : queue'[j] = queue[a] /\ a = IF j < i THEN j ELSE j + 1
      BY <2>2
    <3>2. PICK b \in 1 .. n : queue'[k] = queue[b] /\ b = IF k < i THEN k ELSE k + 1
      BY <2>2
    <3>3. a # b
      BY <1>1, <1>3, <2>3, <3>1, <3>2
    <3> QED BY <1>0, <3>1, <3>2, <3>3 DEF LatestWins
  <2>4. \A j \in 1 .. n - 1 : queue'[j].id # queue'[n].id
    <3>1. queue'[n].id = offered + 1 /\ offered \in Nat
      BY <1>0, <1>6, Known DEF Arriving
    <3>2. ASSUME NEW j \in 1 .. n - 1 PROVE queue'[j].id # queue'[n].id
      <4>1. PICK a \in 1 .. n : queue'[j] = queue[a]
        BY <2>2
      <4> QED BY <2>1, <3>1, <4>1
    <3> QED BY <3>2
  <2>5. \A j, k \in 1 .. Len(queue') : j # k => queue'[j].id # queue'[k].id
    BY <1>1, <1>6, <2>3, <2>4
  <2>6. ASSUME NEW j \in 1 .. Len(queue'), queue'[j].key # None
        PROVE  queue'[j].id = latest'[queue'[j].key]
    <3>1. j \in 1 .. n - 1
      BY <1>1, <1>6, <1>8, <2>6 DEF Arriving
    <3>2. PICK a \in 1 .. n : queue'[j] = queue[a]
      BY <2>2, <3>1
    <3> QED BY <1>0, <1>8, <2>6, <3>2 DEF LatestWins
  <2> QED BY <2>5, <2>6 DEF LatestWins
<1> QED BY <1>10, <1>11, <1>12, <1>13 DEF IInv

LEMMA RefuseKeeps ==
  ASSUME IInv, NEW key \in Keys \union {None}, offered < MaxJobs,
         offered' = offered + 1, stopped' = stopped, Refuse(Arriving(key))
  PROVE  IInv'
<1>0. TypeOK /\ Placed /\ Bounded /\ WorkersForWork /\ LatestWins
  BY DEF IInv
<1>1. /\ queue' = queue /\ starting' = starting /\ running' = running
      /\ ended' = ended /\ latest' = latest
      /\ overflow' = overflow + 1 /\ lost' = lost \union {Arriving(key)}
  BY DEF Refuse, pool
<1>2. Arriving(key) \in Jobs /\ offered' \in 0 .. MaxJobs
  BY <1>0, Offered
<1>3. TypeOK'
  BY <1>0, <1>1, <1>2 DEF TypeOK
<1>4. Placed'
  BY <1>0, <1>1, PlacedAgain
<1>5. Bounded' /\ WorkersForWork' /\ LatestWins'
  BY <1>0, <1>1 DEF Bounded, WorkersForWork, Workers, LatestWins
<1> QED BY <1>3, <1>4, <1>5 DEF IInv

LEMMA ArriveKeeps ==
  ASSUME IInv, Arrive
  PROVE  IInv'
<1>1. PICK key \in Keys \union {None} :
        LET job == Arriving(key)
        IN  Coalesce(job) \/ Admit(job) \/ Displace(job) \/ Refuse(job)
  BY DEF Arrive, Arriving
<1> QED BY <1>1, CoalesceKeeps, AdmitKeeps, DisplaceKeeps, RefuseKeeps DEF Arrive

-----------------------------------------------------------------------------
(* Workers *)

LEMMA TakeKeeps ==
  ASSUME IInv, NEW others \in SUBSET running, IsFiniteSet(others), Take(others),
         UNCHANGED history
  PROVE  /\ queue' \in Seq(Jobs) /\ running' \subseteq Jobs /\ ended' \in Nat
         /\ Placed' /\ LatestWins'
         /\ \/ Len(queue') = Len(queue) - 1 /\ Cardinality(running') = Cardinality(others) + 1
            \/ Len(queue') = 0 /\ Len(queue) = 0 /\ Cardinality(running') = Cardinality(others)
<1>0. TypeOK /\ Placed /\ LatestWins /\ offered' = offered /\ latest' = latest
  BY DEF IInv, history
<1>1. CASE queue # << >>
  <2>1. /\ running' = others \union {Head(queue)} /\ queue' = Tail(queue)
        /\ ended' = ended
    BY <1>1 DEF Take
  <2>2. /\ Len(queue) \in Nat \ {0}
        /\ Head(queue) = queue[1]
        /\ Tail(queue) \in Seq(Jobs)
        /\ Len(Tail(queue)) = Len(queue) - 1
        /\ \A i \in 1 .. Len(Tail(queue)) : Tail(queue)[i] = queue[i + 1]
    BY <1>0, <1>1 DEF TypeOK
  <2>3. queue[1] \in Jobs /\ queue[1] \notin others
    BY <1>0, <2>2, Known DEF Placed
  <2>4. IsFiniteSet(running') /\ Cardinality(running') = Cardinality(others) + 1
    BY <2>1, <2>2, <2>3, OneMore
  <2>5. Placed'
    <3>1. \A job \in running' : job.id <= offered'
      BY <1>0, <2>1, <2>2 DEF Placed
    <3>2. ASSUME NEW i \in 1 .. Len(queue')
          PROVE  /\ queue'[i].id <= offered'
                 /\ \A job \in running' : job.id # queue'[i].id
      <4>1. queue'[i] = queue[i + 1] /\ i + 1 \in 1 .. Len(queue) /\ 1 \in 1 .. Len(queue)
            /\ i + 1 # 1
        BY <2>1, <2>2
      <4>2. queue[1].id # queue[i + 1].id
        BY <1>0, <4>1 DEF LatestWins
      <4>3. queue[i + 1].id <= offered /\ \A job \in running : job.id # queue[i + 1].id
        BY <1>0, <4>1 DEF Placed
      <4> QED BY <1>0, <2>1, <2>2, <4>1, <4>2, <4>3
    <3> QED BY <2>4, <3>1, <3>2 DEF Placed
  <2>6. LatestWins'
    <3>1. \A i \in 1 .. Len(queue') : queue'[i] = queue[i + 1] /\ i + 1 \in 1 .. Len(queue)
      BY <2>1, <2>2
    <3>2. ASSUME NEW i \in 1 .. Len(queue'), queue'[i].key # None
          PROVE  queue'[i].id = latest'[queue'[i].key]
      BY <1>0, <3>1, <3>2 DEF LatestWins
    <3>3. ASSUME NEW i \in 1 .. Len(queue'), NEW j \in 1 .. Len(queue'), i # j
          PROVE  queue'[i].id # queue'[j].id
      <4>1. i + 1 # j + 1
        BY <2>1, <2>2, <3>3
      <4> QED BY <1>0, <3>1, <4>1 DEF LatestWins
    <3> QED BY <3>2, <3>3 DEF LatestWins
  <2> QED BY <1>0, <2>1, <2>2, <2>3, <2>4, <2>5, <2>6 DEF TypeOK
<1>2. CASE queue = << >>
  <2>1. running' = others /\ queue' = queue /\ ended' = ended + 1 /\ Len(queue) = 0
    BY <1>2 DEF Take
  <2>2. Placed'
    BY <1>0, <2>1 DEF Placed
  <2>3. LatestWins'
    BY <1>0, <2>1 DEF LatestWins
  <2>4. running' \subseteq Jobs /\ ended' \in Nat
    BY <1>0, <2>1 DEF TypeOK
  <2> QED BY <1>0, <2>1, <2>2, <2>3, <2>4 DEF TypeOK
<1> QED BY <1>1, <1>2

LEMMA BeginKeeps ==
  ASSUME IInv, Begin
  PROVE  IInv'
<1>0. TypeOK /\ Placed /\ Bounded /\ WorkersForWork
  BY DEF IInv
<1>1. IsFiniteSet(running) /\ Cardinality(running) \in Nat
  BY <1>0, Counted DEF Placed
<1>2. /\ starting > 0 /\ starting' = starting - 1 /\ Take(running)
      /\ overflow' = overflow /\ UNCHANGED history /\ stopped' = stopped
  BY DEF Begin
<1>3. /\ queue' \in Seq(Jobs) /\ running' \subseteq Jobs /\ ended' \in Nat
      /\ Placed' /\ LatestWins'
      /\ \/ Len(queue') = Len(queue) - 1 /\ Cardinality(running') = Cardinality(running) + 1
         \/ Len(queue') = 0 /\ Len(queue) = 0 /\ Cardinality(running') = Cardinality(running)
  BY <1>1, <1>2, TakeKeeps
<1>4. starting \in Nat /\ Len(queue) \in Nat
  BY <1>0, Known
<1>5. TypeOK'
  BY <1>0, <1>2, <1>3, <1>4 DEF TypeOK, history
<1>6. Bounded' /\ WorkersForWork'
  <2>1. Workers \in Nat /\ Workers' \in Nat /\ Limit \in Nat
    BY <1>1, <1>2, <1>3, <1>4, SizeAssumption DEF Workers
  <2>2. \/ Len(queue') = Len(queue) - 1 /\ Workers' = Workers
        \/ Len(queue') = 0 /\ Len(queue) = 0 /\ Workers' = Workers - 1
    <3>1. CASE /\ Len(queue') = Len(queue) - 1
               /\ Cardinality(running') = Cardinality(running) + 1
      <4>1. starting - 1 + (Cardinality(running) + 1) = starting + Cardinality(running)
        BY <1>1, <1>4
      <4> QED BY <1>2, <3>1, <4>1 DEF Workers
    <3>2. CASE /\ Len(queue') = 0 /\ Len(queue) = 0
               /\ Cardinality(running') = Cardinality(running)
      <4>1. \A a, b \in Nat : (a - 1) + b = (a + b) - 1
        OBVIOUS
      <4>2. (starting - 1) + Cardinality(running) = (starting + Cardinality(running)) - 1
        BY <1>1, <1>4, <4>1
      <4> QED BY <1>2, <3>2, <4>2 DEF Workers
    <3> QED BY <1>3, <3>1, <3>2
  <2> QED BY <1>0, <1>2, <1>4, <2>1, <2>2, SizeAssumption DEF Bounded, WorkersForWork
<1> QED BY <1>3, <1>5, <1>6 DEF IInv

LEMMA FinishKeeps ==
  ASSUME IInv, NEW job \in running, Finish(job)
  PROVE  IInv'
<1>0. TypeOK /\ Placed /\ Bounded /\ WorkersForWork
  BY DEF IInv
<1>1. /\ IsFiniteSet(running) /\ Cardinality(running) \in Nat
      /\ IsFiniteSet(running \ {job})
      /\ Cardinality(running \ {job}) = Cardinality(running) - 1
  BY <1>0, Counted, OneLess DEF Placed
<1>2. /\ starting' = starting /\ Take(running \ {job})
      /\ overflow' = overflow /\ UNCHANGED history /\ stopped' = stopped
  BY DEF Finish
<1>3. /\ queue' \in Seq(Jobs) /\ running' \subseteq Jobs /\ ended' \in Nat
      /\ Placed' /\ LatestWins'
      /\ \/ Len(queue') = Len(queue) - 1 /\ Cardinality(running') = Cardinality(running)
         \/ Len(queue') = 0 /\ Len(queue) = 0 /\ Cardinality(running') = Cardinality(running) - 1
  <2> DEFINE others == running \ {job}
  <2>1. others \in SUBSET running /\ IsFiniteSet(others) /\ Take(others)
    BY <1>1, <1>2
  <2>2. /\ queue' \in Seq(Jobs) /\ running' \subseteq Jobs /\ ended' \in Nat
        /\ Placed' /\ LatestWins'
        /\ \/ Len(queue') = Len(queue) - 1 /\ Cardinality(running') = Cardinality(others) + 1
           \/ Len(queue') = 0 /\ Len(queue) = 0 /\ Cardinality(running') = Cardinality(others)
    <3> HIDE DEF others
    <3> QED BY <1>2, <2>1, TakeKeeps
  <2>3. Cardinality(others) = Cardinality(running) - 1
    BY <1>1
  <2> HIDE DEF others
  <2> QED BY <1>1, <2>2, <2>3
<1>4. starting \in Nat /\ Len(queue) \in Nat
  BY <1>0, Known
<1>5. TypeOK'
  BY <1>0, <1>2, <1>3, <1>4 DEF TypeOK, history
<1>6. Bounded' /\ WorkersForWork'
  <2>1. Workers \in Nat /\ Workers' \in Nat /\ Limit \in Nat
    <3>1. Cardinality(running') \in Nat
      BY <1>3, FS_CardinalityType DEF Placed
    <3> QED BY <1>1, <1>2, <1>4, <3>1, SizeAssumption DEF Workers
  <2>2. \/ Len(queue') = Len(queue) - 1 /\ Workers' = Workers
        \/ Len(queue') = 0 /\ Len(queue) = 0 /\ Workers' = Workers - 1
    BY <1>1, <1>2, <1>3, <1>4 DEF Workers
  <2> QED BY <1>0, <1>2, <1>4, <2>1, <2>2, SizeAssumption DEF Bounded, WorkersForWork
<1> QED BY <1>3, <1>5, <1>6 DEF IInv

LEMMA WorkerDoneKeeps ==
  ASSUME IInv, WorkerDone
  PROVE  IInv'
<1>0. TypeOK /\ Placed /\ Bounded /\ WorkersForWork /\ LatestWins
  BY DEF IInv
<1>1. /\ IsFiniteSet(running) /\ Cardinality(running) \in Nat /\ starting \in Nat
      /\ Len(queue) \in Nat /\ ended \in Nat
  BY <1>0, Counted, Known DEF Placed
<1>2. /\ ended' = ended - 1 /\ ended > 0 /\ starting' = Ensured(queue, starting)
      /\ queue' = queue /\ running' = running /\ overflow' = overflow
      /\ offered' = offered /\ latest' = latest /\ lost' = lost /\ stopped' = stopped
  BY DEF WorkerDone, history
<1>3. /\ starting' \in Nat
      /\ Workers' = Workers \/ (Workers < Limit /\ Workers' = Workers + 1)
  BY <1>1, <1>2, EnsuredIs DEF Workers
<1>4. TypeOK' /\ Placed' /\ LatestWins'
  BY <1>0, <1>1, <1>2, <1>3 DEF TypeOK, Placed, LatestWins
<1>5. Bounded' /\ WorkersForWork'
  <2>1. Workers \in Nat
    BY <1>1 DEF Workers
  <2> QED BY <1>0, <1>1, <1>2, <1>3, <2>1, SizeAssumption DEF Bounded, WorkersForWork
<1> QED BY <1>4, <1>5 DEF IInv

LEMMA StopKeeps ==
  ASSUME IInv, Stop
  PROVE  IInv'
<1>0. TypeOK /\ Placed /\ Bounded /\ LatestWins
  BY DEF IInv
<1>1. /\ queue' = queue \/ queue' = << >>
      /\ starting' = 0 /\ running' = {} /\ ended' = ended /\ overflow' = overflow
      /\ offered' = offered /\ latest' = latest /\ lost' = lost /\ stopped' = TRUE
  BY DEF Stop, history
<1>2. IsFiniteSet(running') /\ Cardinality(running') = 0
  BY <1>1, FS_EmptySet
<1>3. TypeOK'
  <2>1. queue' \in Seq(Jobs) /\ running' \subseteq Jobs
    <3>1. queue \in Seq(Jobs) /\ << >> \in Seq(Jobs)
      BY <1>0 DEF TypeOK
    <3> QED BY <1>1, <3>1
  <2>2. {starting, ended, overflow}' \subseteq Nat
    BY <1>0, <1>1, Known
  <2> QED BY <1>0, <1>1, <2>1, <2>2 DEF TypeOK
<1>4. Placed' /\ LatestWins'
  <2>1. CASE queue' = queue
    BY <1>0, <1>1, <1>2, <2>1 DEF Placed, LatestWins
  <2>2. CASE queue' = << >>
    <3>1. Len(queue') = 0
      BY <2>2
    <3> QED BY <1>1, <1>2, <3>1 DEF Placed, LatestWins
  <2> QED BY <1>1, <2>1, <2>2
<1>5. Bounded' /\ WorkersForWork'
  BY <1>0, <1>1, <1>2, SizeAssumption DEF Bounded, WorkersForWork, Workers
<1> QED BY <1>3, <1>4, <1>5 DEF IInv

LEMMA StutterKeeps ==
  ASSUME IInv, UNCHANGED vars
  PROVE  IInv'
BY DEF IInv, TypeOK, Placed, Bounded, WorkersForWork, Workers, LatestWins, vars,
       pool, history

LEMMA EveryStep == IInv /\ [Next]_vars => IInv'
<1> SUFFICES ASSUME IInv, [Next]_vars PROVE IInv'
  OBVIOUS
<1>1. CASE Arrive
  BY <1>1, ArriveKeeps
<1>2. CASE Begin
  BY <1>2, BeginKeeps
<1>3. CASE \E job \in running : Finish(job)
  BY <1>3, FinishKeeps
<1>4. CASE WorkerDone
  BY <1>4, WorkerDoneKeeps
<1>5. CASE Stop
  BY <1>5, StopKeeps
<1>6. CASE UNCHANGED vars
  BY <1>6, StutterKeeps
<1> QED BY <1>1, <1>2, <1>3, <1>4, <1>5, <1>6 DEF Next

-----------------------------------------------------------------------------
LEMMA Invariance == Spec => []IInv
<1>1. Init => IInv
  BY Initially
<1>2. IInv /\ [Next]_vars => IInv'
  BY EveryStep
<1> QED BY <1>1, <1>2, PTL DEF Spec

(* Every reachable state of the router's work is well typed (rx_router.py   *)
(* _pending_rx, _rx_workers, rx_overflow_count).                            *)
THEOREM WorkTyped == Spec => []TypeOK
<1>1. IInv => TypeOK
  BY DEF IInv
<1> QED BY <1>1, Invariance, PTL

(* The queue stays within its capacity and the workers within their limit,  *)
(* in every order of arrivals, ends and done-callbacks (_enqueue_work,      *)
(* _ensure_rx_worker).                                                      *)
THEOREM WorkBounded == Spec => []Bounded
<1>1. IInv => Bounded
  BY DEF IInv
<1> QED BY <1>1, Invariance, PTL

(* Until the bridge stops, each job that waits has a worker, or all workers *)
(* are at work, even between the end of a worker and its callback.          *)
THEOREM WorkHasWorkers == Spec => []WorkersForWork
<1>1. IInv => WorkersForWork
  BY DEF IInv
<1> QED BY <1>1, Invariance, PTL

(* An observation that waits is the last accepted about its key, however    *)
(* often the queue coalesced, displaced and was emptied (_enqueue_work).    *)
THEOREM LatestObservationWins == Spec => []LatestWins
<1>1. IInv => LatestWins
  BY DEF IInv
<1> QED BY <1>1, Invariance, PTL

(* Only a queue full of critical work refuses or gives up critical work.    *)
THEOREM CriticalWorkIsKept == Spec => LossIsOfObservations
<1> DEFINE Fair ==
      \A job \in lost' \ lost :
        job.key = None => /\ Len(queue) = Capacity
                          /\ \A i \in 1 .. Len(queue) : queue[i].key = None
<1>1. IInv /\ [Next]_vars => [Fair]_vars
  <2> SUFFICES ASSUME IInv, [Next]_vars PROVE Fair
    OBVIOUS
  <2>0. TypeOK /\ Bounded
    BY DEF IInv
  <2>1. CASE Arrive
    <3>1. PICK key \in Keys \union {None} :
            LET job == Arriving(key)
            IN  Coalesce(job) \/ Admit(job) \/ Displace(job) \/ Refuse(job)
      BY <2>1 DEF Arrive, Arriving
    <3>2. CASE Coalesce(Arriving(key)) \/ Admit(Arriving(key))
      BY <3>2 DEF Coalesce, Admit
    <3>3. CASE Displace(Arriving(key))
      BY <3>3 DEF Displace, First, Replaceable
    <3>4. CASE Refuse(Arriving(key))
      <4>1. Len(queue) = Capacity
        BY <2>0, <3>4, Known, SizeAssumption DEF Refuse, Full, Bounded
      <4> QED BY <3>4, <4>1 DEF Refuse, Replaceable, Arriving
    <3> QED BY <3>1, <3>2, <3>3, <3>4
  <2>2. CASE Begin \/ (\E job \in running : Finish(job)) \/ WorkerDone \/ Stop \/ UNCHANGED vars
    BY <2>2 DEF Begin, Finish, WorkerDone, Stop, vars, history
  <2> QED BY <2>1, <2>2 DEF Next
<1> QED BY <1>1, Invariance, PTL DEF Spec, LossIsOfObservations

-----------------------------------------------------------------------------
(* The refinement of WorkContract.  Critical jobs wait in the order they    *)
(* came in: an observation keeps its place when it is replaced, so that the *)
(* queue as a whole is not in the order of arrival.                         *)
InOrder ==
  \A i, j \in 1 .. Len(queue) :
    i < j /\ queue[i].key = None /\ queue[j].key = None => queue[i].id < queue[j].id

(* The queue holds each job that waits once. *)
LEMMA CountWaiting ==
  ASSUME TypeOK, LatestWins
  PROVE  IsFiniteSet(Waiting) /\ Cardinality(Waiting) = Len(queue)
<1> DEFINE places == 1 .. Len(queue)
           f == [i \in places |-> queue[i]]
<1>1. Len(queue) \in Nat
  BY Known
<1>2. IsFiniteSet(places) /\ Cardinality(places) = Len(queue)
  <2> SUFFICES ASSUME NEW n \in Nat
               PROVE  IsFiniteSet(1 .. n) /\ Cardinality(1 .. n) = n
    BY <1>1
  <2>1. /\ IsFiniteSet(1 .. n)
        /\ Cardinality(1 .. n) = IF 1 > n THEN 0 ELSE n - 1 + 1
    BY 1 \in Int, n \in Int, FS_Interval, Zenon
  <2> QED BY <2>1
<1>3. f \in Bijection(places, Waiting)
  <2>1. \A i, j \in places : i # j => queue[i] # queue[j]
    BY DEF LatestWins
  <2>2. f \in [places -> Waiting] /\ \A w \in Waiting : \E i \in places : f[i] = w
    BY DEF Waiting
  <2> HIDE DEF places
  <2> QED BY <2>1, <2>2 DEF Bijection, Injection, Surjection, IsInjective
<1>4. ExistsBijection(places, Waiting)
  BY <1>3 DEF ExistsBijection
<1> HIDE DEF places, f
<1> QED BY <1>2, <1>4, FS_Bijection

(* The contract counts as the code does. *)
LEMMA SameCount ==
  ASSUME NEW S
  PROVE  Contract!Cardinality(S) = Cardinality(S)
BY Zenon DEF Cardinality, Contract!Cardinality

(* Two places with one job are one place. *)
LEMMA OnePlace ==
  ASSUME LatestWins, NEW i \in 1 .. Len(queue), NEW j \in 1 .. Len(queue), queue[i] = queue[j]
  PROVE  i = j
BY DEF LatestWins

(* What waits when the job at one place leaves the queue. *)
LEMMA WithoutOne ==
  ASSUME LatestWins, NEW i \in 1 .. Len(queue)
  PROVE  Waiting \ {queue[i]} = {queue[j] : j \in (1 .. Len(queue)) \ {i}}
BY OnePlace DEF Waiting

(* A queue of which nothing is like a job holds no observation of its key. *)
LEMMA NoneAlike ==
  ASSUME NEW key \in Keys \union {None}, Same(Arriving(key)) = {}
  PROVE  Contract!Alike(Arriving(key)) = {}
BY DEF Same, Arriving, Waiting, Contract!Alike, Contract!Critical

LEMMA CoalesceImplements ==
  ASSUME IInv, InOrder, NEW key \in Keys \union {None}, offered < MaxJobs,
         offered' = offered + 1, stopped' = stopped, Coalesce(Arriving(key))
  PROVE  InOrder' /\ Contract!Next
<1> DEFINE job == Arriving(key)
           places == 1 .. Len(queue)
<1>0. TypeOK /\ LatestWins
  BY DEF IInv
<1>1. PICK i \in First(Same(job)) : queue' = [queue EXCEPT ![i] = job]
  BY DEF Coalesce, Coalesced
<1>2. i \in places /\ key # None /\ queue[i].key = key
  BY DEF First, Same, Arriving
<1>3. job \in Jobs /\ job.id = offered + 1 /\ job.key = key /\ offered \in Nat
  BY <1>0, Offered, Known DEF Arriving
<1>4. /\ Len(queue') = Len(queue) /\ queue'[i] = job
      /\ \A j \in places : j # i => queue'[j] = queue[j]
  BY <1>0, <1>1, <1>2, <1>3 DEF TypeOK
<1> HIDE DEF job
<1>5. InOrder'
  BY <1>2, <1>3, <1>4 DEF InOrder
<1>6. Waiting' = (Waiting \ {queue[i]}) \union {job}
  <2>1. Waiting' = {queue'[j] : j \in places}
    BY <1>4 DEF Waiting
  <2>2. {queue'[j] : j \in places} = {queue[j] : j \in places \ {i}} \union {job}
    BY <1>2, <1>4
  <2> QED BY <1>0, <1>2, <2>1, <2>2, WithoutOne
<1>7. queue[i] \in Waiting /\ queue[i] \in Contract!Alike(job)
  BY <1>2, <1>3 DEF Waiting, Contract!Alike, Contract!Critical
<1>8. Contract!ComesIn(job)
  BY <1>3 DEF Contract!ComesIn, Coalesce, pool
<1>9. Contract!Replace(job, queue[i])
  BY <1>6, <1>7, <1>8 DEF Contract!Replace, Coalesce
<1> QED BY <1>3, <1>5, <1>7, <1>9 DEF Contract!Next

LEMMA AdmitImplements ==
  ASSUME IInv, InOrder, NEW key \in Keys \union {None}, offered < MaxJobs,
         offered' = offered + 1, stopped' = stopped, Admit(Arriving(key))
  PROVE  InOrder' /\ Contract!Next
<1> DEFINE job == Arriving(key)
           n == Len(queue)
<1>0. TypeOK /\ LatestWins /\ Placed
  BY DEF IInv
<1>1. n \in Nat /\ Cardinality(Waiting) = n
  BY <1>0, Known, CountWaiting
<1>2. job \in Jobs /\ job.id = offered + 1 /\ job.key = key /\ offered \in Nat
  BY <1>0, Offered, Known DEF Arriving
<1>3. /\ Len(queue') = n + 1 /\ queue'[n + 1] = job
      /\ \A j \in 1 .. n : queue'[j] = queue[j]
  BY <1>0, <1>2 DEF TypeOK, Admit
<1>4. \A j \in 1 .. n : queue[j].id \in Nat /\ queue[j].id <= offered
  BY <1>0, Known DEF Placed
<1>5. Contract!Alike(job) = {}
  BY NoneAlike DEF Admit
<1>6. ~Contract!Crowded
  BY <1>1, SameCount, SizeAssumption DEF Admit, Full, Contract!Crowded
<1> HIDE DEF job
<1>7. InOrder'
  <2> SUFFICES ASSUME NEW i \in 1 .. n + 1, NEW j \in 1 .. n + 1, i < j,
                      queue'[i].key = None, queue'[j].key = None
               PROVE  queue'[i].id < queue'[j].id
    BY <1>3 DEF InOrder
  <2> HIDE DEF n
  <2>1. i \in 1 .. n /\ queue'[i] = queue[i]
    BY <1>1, <1>3
  <2>2. CASE j = n + 1
    BY <1>2, <1>3, <1>4, <2>1, <2>2
  <2>3. CASE j # n + 1
    <3>1. j \in 1 .. n /\ queue'[j] = queue[j]
      BY <1>1, <1>3, <2>3
    <3> QED BY <2>1, <3>1 DEF InOrder, n
  <2> QED BY <2>2, <2>3
<1>8. Waiting' = Waiting \union {job}
  <2>1. Waiting' = {queue'[j] : j \in 1 .. n + 1}
    BY <1>3 DEF Waiting
  <2>2. 1 .. n + 1 = (1 .. n) \union {n + 1}
    BY <1>1
  <2>3. Waiting = {queue[j] : j \in 1 .. n}
    BY DEF Waiting
  <2> HIDE DEF n
  <2> QED BY <1>3, <2>1, <2>2, <2>3
<1>9. Contract!ComesIn(job) /\ lost' = lost
  BY <1>2 DEF Contract!ComesIn, Admit
<1>10. Contract!Accept(job)
  BY <1>5, <1>6, <1>8, <1>9 DEF Contract!Accept
<1> QED BY <1>2, <1>7, <1>10 DEF Contract!Next

LEMMA DisplaceImplements ==
  ASSUME IInv, InOrder, NEW key \in Keys \union {None}, offered < MaxJobs,
         offered' = offered + 1, stopped' = stopped, Displace(Arriving(key))
  PROVE  InOrder' /\ Contract!Next
<1> DEFINE job == Arriving(key)
           n == Len(queue)
<1>0. TypeOK /\ LatestWins /\ Placed
  BY DEF IInv
<1>1. n \in Nat /\ Cardinality(Waiting) = n
  BY <1>0, Known, CountWaiting
<1>2. PICK i \in First(Replaceable) :
        /\ queue' = Append(RemoveAt(queue, i), job)
        /\ lost' = lost \union {queue[i]}
  BY DEF Displace
<1>3. i \in 1 .. n /\ queue[i].key # None
  BY DEF First, Replaceable
<1>4. job \in Jobs /\ job.id = offered + 1 /\ job.key = key /\ offered \in Nat
  BY <1>0, Offered, Known DEF Arriving
<1>5. /\ RemoveAt(queue, i) \in Seq(Jobs) /\ Len(RemoveAt(queue, i)) = n - 1
      /\ \A j \in 1 .. n - 1 :
           RemoveAt(queue, i)[j] = IF j < i THEN queue[j] ELSE queue[j + 1]
  BY <1>0, <1>3, Removed DEF TypeOK
<1> HIDE DEF job
<1>6. /\ Len(queue') = n /\ queue'[n] = job
      /\ \A j \in 1 .. n - 1 :
           queue'[j] = IF j < i THEN queue[j] ELSE queue[j + 1]
  BY <1>1, <1>2, <1>3, <1>4, <1>5
<1>7. \A j \in 1 .. n : queue[j].id \in Nat /\ queue[j].id <= offered
  BY <1>0, Known DEF Placed
<1>8. InOrder'
  <2> SUFFICES ASSUME NEW j \in 1 .. n, NEW k \in 1 .. n, j < k,
                      queue'[j].key = None, queue'[k].key = None
               PROVE  queue'[j].id < queue'[k].id
    BY <1>6 DEF InOrder
  <2> DEFINE From(p) == IF p < i THEN p ELSE p + 1
  <2>1. /\ j \in 1 .. n - 1 /\ From(j) \in 1 .. n /\ queue'[j] = queue[From(j)]
    BY <1>1, <1>3, <1>6
  <2>2. CASE k = n
    BY <1>4, <1>6, <1>7, <2>1, <2>2
  <2>3. CASE k # n
    <3>1. From(k) \in 1 .. n /\ queue'[k] = queue[From(k)] /\ From(j) < From(k)
      BY <1>1, <1>3, <1>6, <2>3
    <3> HIDE DEF From
    <3> QED BY <2>1, <3>1 DEF InOrder
  <2> QED BY <2>2, <2>3
<1>9. Waiting' = (Waiting \ {queue[i]}) \union {job}
  <2>1. \A j \in 1 .. n - 1 : queue'[j] \in {queue[k] : k \in (1 .. n) \ {i}}
    BY <1>1, <1>3, <1>6
  <2>2. ASSUME NEW k \in (1 .. n) \ {i}
        PROVE  \E j \in 1 .. n - 1 : queue'[j] = queue[k]
    <3> DEFINE p == IF k < i THEN k ELSE k - 1
    <3>1. p \in 1 .. n - 1 /\ queue'[p] = queue[k]
      BY <1>1, <1>3, <1>6, <2>2
    <3> QED BY <3>1
  <2>3. Waiting' = {queue'[j] : j \in 1 .. n - 1} \union {job}
    <3>1. Waiting' = {queue'[j] : j \in 1 .. n}
      BY <1>6 DEF Waiting
    <3>2. 1 .. n = (1 .. n - 1) \union {n}
      BY <1>1, <1>3
    <3> HIDE DEF n
    <3> QED BY <1>6, <3>1, <3>2
  <2>4. {queue'[j] : j \in 1 .. n - 1} = {queue[k] : k \in (1 .. n) \ {i}}
    BY <2>1, <2>2
  <2> QED BY <1>0, <1>3, <2>3, <2>4, WithoutOne
<1>10. Contract!ComesIn(job)
  BY <1>4 DEF Contract!ComesIn, Displace
<1>11. Contract!Crowded /\ Contract!Critical(job)
  <2>1. key = None /\ n >= Capacity
    BY DEF Displace, Full, Arriving
  <2> QED BY <1>1, <1>4, <2>1, SameCount DEF Contract!Crowded, Contract!Critical
<1>12. queue[i] \in Waiting /\ ~Contract!Critical(queue[i])
  BY <1>3 DEF Waiting, Contract!Critical
<1>13. Contract!Displace(job, queue[i])
  BY <1>2, <1>9, <1>10, <1>11, <1>12 DEF Contract!Displace
<1> QED BY <1>4, <1>8, <1>12, <1>13 DEF Contract!Next

LEMMA RefuseImplements ==
  ASSUME IInv, InOrder, NEW key \in Keys \union {None}, offered < MaxJobs,
         offered' = offered + 1, stopped' = stopped, Refuse(Arriving(key))
  PROVE  InOrder' /\ Contract!Next
<1> DEFINE job == Arriving(key)
<1>0. TypeOK /\ LatestWins
  BY DEF IInv
<1>1. job \in Jobs /\ job.id = offered + 1 /\ job.key = key /\ offered \in Nat
  BY <1>0, Offered, Known DEF Arriving
<1>2. Contract!Crowded
  BY <1>0, CountWaiting, SameCount DEF Refuse, Full, Contract!Crowded
<1>3. Contract!Alike(job) = {}
  BY NoneAlike DEF Refuse
<1>4. Contract!Critical(job) => \A k \in Waiting : Contract!Critical(k)
  BY <1>1 DEF Refuse, Replaceable, Waiting, Contract!Critical
<1> HIDE DEF job
<1>5. queue' = queue /\ Waiting' = Waiting /\ lost' = lost \union {job}
  BY DEF Refuse, Waiting, job
<1>6. Contract!ComesIn(job)
  BY <1>1 DEF Contract!ComesIn, Refuse, pool
<1>7. Contract!Refuse(job)
  BY <1>2, <1>3, <1>4, <1>5, <1>6 DEF Contract!Refuse
<1>8. InOrder'
  BY <1>5 DEF InOrder
<1> QED BY <1>1, <1>7, <1>8 DEF Contract!Next

(* A worker takes the first job: no critical one that waits is older. *)
LEMMA TakeImplements ==
  ASSUME IInv, IInv', InOrder, NEW done, Take(running \ done),
         UNCHANGED <<offered, lost, stopped>>
  PROVE  /\ InOrder'
         /\ queue # << >> => queue[1] \in Waiting /\ Contract!TakeUp(queue[1], done)
         /\ queue = << >> => Waiting = {} /\ Waiting' = {} /\ running' = running \ done
<1>0. TypeOK /\ LatestWins /\ Len(queue) \in Nat
  BY Known DEF IInv
<1>1. CASE queue # << >>
  <2>1. running' = (running \ done) \union {Head(queue)} /\ queue' = Tail(queue)
    BY <1>1 DEF Take
  <2>2. /\ 1 \in 1 .. Len(queue) /\ Head(queue) = queue[1]
        /\ Len(queue') = Len(queue) - 1
        /\ \A i \in 1 .. Len(queue') : queue'[i] = queue[i + 1] /\ i + 1 \in 1 .. Len(queue)
    BY <1>0, <1>1, <2>1 DEF TypeOK
  <2>3. InOrder'
    <3> SUFFICES ASSUME NEW i \in 1 .. Len(queue'), NEW j \in 1 .. Len(queue'), i < j,
                        queue'[i].key = None, queue'[j].key = None
                 PROVE  queue'[i].id < queue'[j].id
      BY DEF InOrder
    <3>1. i + 1 < j + 1
      BY <1>0, <2>2
    <3> QED BY <2>2, <3>1 DEF InOrder
  <2>4. Waiting' = Waiting \ {queue[1]}
    <3>1. ASSUME NEW k \in (1 .. Len(queue)) \ {1}
          PROVE  k - 1 \in 1 .. Len(queue') /\ queue'[k - 1] = queue[k]
      <4>1. k - 1 \in 1 .. Len(queue') /\ (k - 1) + 1 = k
        BY <1>0, <2>2
      <4> QED BY <2>2, <4>1
    <3>2. \A i \in 1 .. Len(queue') : i + 1 \in (1 .. Len(queue)) \ {1}
      BY <2>2
    <3>3. Waiting' = {queue[j] : j \in (1 .. Len(queue)) \ {1}}
      BY <2>2, <3>1, <3>2 DEF Waiting
    <3> QED BY <1>0, <2>2, <3>3, WithoutOne
  <2>5. queue[1] \in Waiting
    BY <2>2 DEF Waiting
  <2>6. Cardinality(running') <= Limit
    <3>1. /\ starting' \in Nat /\ Cardinality(running') \in Nat
          /\ starting' + Cardinality(running') <= Limit
      BY FS_CardinalityType DEF IInv, TypeOK, Placed, Bounded, Workers
    <3> QED BY <3>1, SizeAssumption
  <2>7. Contract!Critical(queue[1]) =>
          \A k \in Waiting : Contract!Critical(k) => queue[1].id <= k.id
    <3> SUFFICES ASSUME queue[1].key = None, NEW i \in 1 .. Len(queue), queue[i].key = None
                 PROVE  queue[1].id <= queue[i].id
      BY DEF Waiting, Contract!Critical
    <3>1. queue[1].id \in Nat /\ queue[i].id \in Nat
      BY <1>0, <2>2, Known
    <3>2. CASE i = 1
      BY <3>1, <3>2
    <3>3. CASE i # 1
      <4>1. 1 < i
        BY <1>0, <3>3
      <4> QED BY <2>2, <3>1, <4>1 DEF InOrder
    <3> QED BY <3>2, <3>3
  <2>8. Contract!TakeUp(queue[1], done)
    BY <2>1, <2>2, <2>4, <2>5, <2>6, <2>7, SameCount DEF Contract!TakeUp
  <2> QED BY <1>1, <2>3, <2>5, <2>8
<1>2. CASE queue = << >>
  <2>1. queue' = queue /\ running' = running \ done /\ Len(queue) = 0
    BY <1>2 DEF Take
  <2>2. Waiting = {} /\ Waiting' = {}
    BY <2>1 DEF Waiting
  <2> QED BY <1>2, <2>1, <2>2 DEF InOrder
<1> QED BY <1>1, <1>2

LEMMA WorkStep ==
  ASSUME IInv, IInv', InOrder, [Next]_vars
  PROVE  InOrder' /\ [Contract!Next]_(Contract!promise)
<1>1. CASE Arrive
  <2>1. PICK key \in Keys \union {None} :
          LET job == Arriving(key)
          IN  Coalesce(job) \/ Admit(job) \/ Displace(job) \/ Refuse(job)
    BY <1>1 DEF Arrive, Arriving
  <2> QED BY <1>1, <2>1, CoalesceImplements, AdmitImplements, DisplaceImplements,
             RefuseImplements DEF Arrive
<1>2. CASE Begin
  <2>1. Take(running \ {}) /\ UNCHANGED <<offered, lost, stopped>>
    <3>1. running \ {} = running
      OBVIOUS
    <3> QED BY <1>2, <3>1 DEF Begin, history
  <2>2. CASE queue # << >>
    <3>1. queue[1] \in Waiting /\ InOrder' /\ Contract!TakeUp(queue[1], {})
      BY <2>1, <2>2, TakeImplements
    <3> QED BY <3>1 DEF Contract!Next
  <2>3. CASE queue = << >>
    <3>1. InOrder' /\ Waiting' = Waiting /\ running' = running
      BY <2>1, <2>3, TakeImplements
    <3> QED BY <2>1, <3>1 DEF Contract!promise
  <2> QED BY <2>2, <2>3
<1>3. ASSUME NEW job \in running, Finish(job)
      PROVE  InOrder' /\ [Contract!Next]_(Contract!promise)
  <2>1. Take(running \ {job}) /\ UNCHANGED <<offered, lost, stopped>>
    BY <1>3 DEF Finish, history
  <2>2. CASE queue # << >>
    <3>1. queue[1] \in Waiting /\ InOrder' /\ Contract!TakeUp(queue[1], {job})
      BY <2>1, <2>2, TakeImplements
    <3> QED BY <3>1 DEF Contract!Next
  <2>3. CASE queue = << >>
    <3>1. InOrder' /\ Waiting = {} /\ Waiting' = {} /\ running' = running \ {job}
      BY <2>1, <2>3, TakeImplements
    <3>2. Contract!GetDone(job)
      BY <2>1, <3>1 DEF Contract!GetDone
    <3> QED BY <3>1, <3>2 DEF Contract!Next
  <2> QED BY <2>2, <2>3
<1>4. CASE WorkerDone \/ UNCHANGED vars
  BY <1>4 DEF WorkerDone, vars, pool, history, InOrder, Waiting, Contract!promise
<1>5. CASE Stop
  <2>1. /\ queue' = queue \/ queue' = << >>
        /\ ~stopped /\ stopped' /\ running' = {} /\ offered' = offered /\ lost' = lost
    BY <1>5 DEF Stop, history
  <2>2. InOrder' /\ Waiting' \in {Waiting, {}}
    <3>1. CASE queue' = queue
      BY <3>1 DEF InOrder, Waiting
    <3>2. CASE queue' = << >>
      <4>1. Len(queue') = 0
        BY <3>2
      <4> QED BY <4>1 DEF InOrder, Waiting
    <3> QED BY <2>1, <3>1, <3>2
  <2>3. stopped' = TRUE
    BY <1>5 DEF Stop
  <2>4. Contract!Stop
    BY <2>1, <2>2, <2>3 DEF Contract!Stop
  <2> QED BY <2>2, <2>4 DEF Contract!Next
<1> QED BY <1>1, <1>2, <1>3, <1>4, <1>5 DEF Next

(* The queue, the workers and their callbacks (_enqueue_work,               *)
(* _drain_rx_work, _rx_worker_done, stop) implement WorkContract: each job  *)
(* that comes in is accepted, replaces its like, displaces an observation   *)
(* or is refused for a reason the contract admits; critical jobs are taken  *)
(* in the order they came in, and no worker goes idle while a job waits.    *)
THEOREM WorkImplementsContract == Spec => WorkAsPromised
<1>1. Init => InOrder /\ Contract!Init
  <2> SUFFICES ASSUME Init PROVE InOrder /\ Contract!Init
    OBVIOUS
  <2>1. Len(queue) = 0 /\ Waiting = {}
    BY DEF Init, Waiting
  <2> QED BY <2>1 DEF Init, InOrder, Contract!Init
<1>2. (IInv /\ InOrder) /\ IInv' /\ [Next]_vars => InOrder' /\ [Contract!Next]_(Contract!promise)
  BY WorkStep
<1> QED BY <1>1, <1>2, Invariance, PTL DEF Spec, WorkAsPromised, Contract!Spec
=============================================================================
