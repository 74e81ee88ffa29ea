----------------------- MODULE CommandDispatch_proofs -----------------------
(***************************************************************************)
(* Proofs about CommandDispatch, for every value of its constants, and the *)
(* refinement of CommandContract.                                          *)
(*                                                                         *)
(* The inductive invariant says how far each request got (Progress), that  *)
(* a request past its reservation holds the row of its identifier while    *)
(* the ledger keeps it, alone and with its own fingerprint (Reservations), *)
(* that an outcome on record leaves its holder nothing else to record      *)
(* (Outcomes), and that what was done for the holder agrees with a row     *)
(* that says 'admitted' or 'failed' (Orders).                              *)
(***************************************************************************)
EXTENDS CommandDispatch, FiniteSetTheorems, TLAPS

(* The limiter has nothing of r; r has not been queued or executed.        *)
Served(r) == r \notin queue /\ worker.item # r
Fresh(r)  == r \notin queue /\ worker.item # r /\ aired[r] = 0

(* Nothing was done for r but its reservation.                             *)
Early(r) ==
  pc[r] \notin {"waiting", "admin", "record"} /\ "completed" \notin writes[r] /\ Fresh(r)

Progress(r) ==
  /\ pc[r] # "new" => req[r] \in Arrivals
  /\ pc[r] = "new" => writes[r] = {} /\ Fresh(r) /\ future[r] = "none"
  /\ pc[r] = "reserve" => writes[r] = {"admitted"}
  /\ pc[r] = "mark" => writes[r] = {"dispatching"}
  /\ pc[r] \in {"waiting", "admin"} => writes[r] = {}
  /\ pc[r] = "admin" => aired[r] = 1
  /\ pc[r] = "record" => "uncertain" \notin writes[r]
  /\ "admitted" \in writes[r] =>
       writes[r] = {"admitted"} /\ pc[r] \in {"reserve", "done"} /\ Fresh(r)
  /\ "dispatching" \in writes[r] =>
       writes[r] \subseteq {"dispatching", "uncertain"} /\ pc[r] \in {"mark", "final", "done"}
       /\ Fresh(r)
  /\ ~({"completed", "failed"} \subseteq writes[r])
  /\ pc[r] # "new" /\ req[r].via = "http" => writes[r] = {} /\ pc[r] \in {"waiting", "done"}
  /\ aired[r] <= 1
  /\ r \in queue => aired[r] = 0 /\ worker.item # r /\ req[r].via # "admin"
  /\ worker.item = r =>
       /\ req[r].via # "admin"
       /\ aired[r] = IF worker.step = "air" THEN 1 ELSE 0
  /\ future[r] = "sent" => aired[r] = 1
  /\ "completed" \in writes[r] => aired[r] = 1
  /\ future[r] = "pending" => r \in queue \/ worker.item = r
  /\ pc[r] = "waiting" => future[r] # "none"
  /\ \/ future[r] \in {"sent", "error", "exception"}
     \/ "failed" \in writes[r]
     \/ pc[r] = "admin"
     => Served(r)

(* r was admitted and may still act for its identifier.                    *)
Holds(r) ==
  /\ pc[r] # "new" /\ req[r].via # "http" /\ req[r].id # None
  /\ \/ pc[r] \in {"mark", "waiting", "admin", "record", "final"}
     \/ writes[r] \intersect (Final \union {"dispatching"}) # {}
     \/ ~Fresh(r)

Reservations ==
  \A r \in Requests :
    Holds(r) /\ req[r].id \notin pruned =>
      /\ HasRow(req[r].id) /\ ledger[req[r].id].fingerprint = req[r].fingerprint
      /\ \A s \in Requests : Holds(s) /\ req[s].id = req[r].id => s = r

Outcomes ==
  \A r \in Requests :
    Holds(r) /\ req[r].id \notin pruned
    /\ ledger[req[r].id].status \in {"completed", "failed"} =>
      writes[r] \subseteq {"uncertain"} /\ pc[r] \in {"final", "done"}

WorkerInv == worker.step = "idle" <=> worker.item = None
RowsInv   ==
  \A c \in Ids : IF HasRow(c) THEN ledger[c].status # "none" /\ ledger[c].row <= next_row
                 ELSE ledger[c].status = "none" /\ ledger[c].fingerprint = None

(* A row that still says 'admitted' has a holder for whom nothing was done, *)
(* and one that says 'failed' a holder the limiter has nothing more of.     *)
Orders ==
  \A r \in Requests :
    Holds(r) /\ req[r].id \notin pruned =>
      /\ ledger[req[r].id].status = "admitted" => Early(r)
      /\ ledger[req[r].id].status = "failed" => Served(r)

CInv == /\ TypeOK /\ WorkerInv /\ RowsInv /\ (\A r \in Requests : Progress(r))
        /\ Reservations /\ Outcomes /\ Orders /\ CompletedWasAired

-----------------------------------------------------------------------------
(* Types.                                                                  *)

(* Settling some futures leaves futures.                                    *)
LEMMA SettledType ==
  ASSUME TypeOK, NEW S, NEW outcome \in {"cancelled", "sent", "error", "exception"}
  PROVE  Settled(future, S, outcome)
           \in [Requests -> {"none", "pending", "cancelled", "sent", "error", "exception"}]
BY DEF Settled, TypeOK

(* submit leaves a typed queue.                                             *)
LEMMA EnqueueType ==
  ASSUME TypeOK, NEW r \in Requests, Enqueue(r)
  PROVE  /\ future' \in [Requests -> {"none", "pending", "cancelled", "sent", "error", "exception"}]
         /\ queue' \subseteq Requests /\ counter' \in [Requests -> Nat] /\ seq' \in Nat
<1>1. Failed(future, Victims)
        \in [Requests -> {"none", "pending", "cancelled", "sent", "error", "exception"}]
  BY SettledType DEF Failed
<1> QED
  BY <1>1 DEF Enqueue, TypeOK

(* Recording a status of the ledger leaves typed handlers.                  *)
LEMMA RecordType ==
  ASSUME TypeOK, NEW r \in Requests,
         NEW status \in Final \union {"admitted", "dispatching"},
         NEW step \in {"reserve", "record", "final"}, Record(r, status, step)
  PROVE  /\ pc' \in [Requests -> {"new", "reserve", "mark", "waiting", "admin", "record",
                                   "final", "done"}]
         /\ writes' \in [Requests -> SUBSET (Final \union {"admitted", "dispatching"})]
BY DEF Record, Goto, TypeOK

(* The rows that insertions, prunings and updates leave are rows.           *)
LEMMA RowsType ==
  ASSUME TypeOK, NEW c \in Ids, NEW fp \in Fingerprints
  PROVE  /\ Inserted(c, fp) \in [Ids -> Rows]
         /\ Kept(Inserted(c, fp)) \in [Ids -> Rows]
         /\ Excess(Inserted(c, fp)) \subseteq Ids
<1>1. Inserted(c, fp) \in [Ids -> Rows]
  BY DEF Inserted, Rows, TypeOK
<1>2. NoRow \in Rows
  BY DEF NoRow, Rows
<1> QED
  BY <1>1, <1>2 DEF Kept, Excess

(* So are those that an update leaves.                                      *)
LEMMA MarkedType ==
  ASSUME TypeOK, NEW c, NEW status \in Final \union {"dispatching"}
  PROVE  Marked(c, status) \in [Ids -> Rows]
<1> DEFINE d == ledger[c]
<1>1. CASE c \in Ids
  <2>1. [d EXCEPT !.status = status] \in Rows
    BY <1>1 DEF Rows, TypeOK
  <2> QED
    BY <1>1, <2>1 DEF Marked, TypeOK
<1>2. CASE c \notin Ids
  BY <1>2 DEF Marked, TypeOK
<1> QED
  BY <1>1, <1>2

(* Every step keeps the types.                                              *)
LEMMA TypeStep ==
  ASSUME TypeOK, WorkerInv, \A r \in Requests : Progress(r), [Next]_vars
  PROVE  TypeOK'
<1> USE NoneAssumption, ArrivalsAssumption
<1>1. ASSUME NEW r \in Requests, NEW kind \in Arrivals, Arrive(r, kind) PROVE TypeOK'
  <2>1. Record(r, "admitted", "reserve")
    BY <1>1 DEF Arrive
  <2>2. req' \in [Requests -> Arrivals \union {None}]
    BY <1>1 DEF Arrive, TypeOK
  <2> QED
    BY <1>1, <2>1, <2>2, RecordType DEF Arrive, TypeOK, table, limiter, history
<1>2. ASSUME NEW r \in Requests, NEW kind \in Arrivals, SubmitChat(r, kind) PROVE TypeOK'
  <2>1. Enqueue(r) /\ req' \in [Requests -> Arrivals \union {None}]
    BY <1>2 DEF SubmitChat, TypeOK
  <2> QED
    BY <1>2, <2>1, EnqueueType DEF SubmitChat, Goto, TypeOK, table, history
<1>3. ASSUME NEW r \in Requests, Reserve(r) PROVE TypeOK'
  <2> DEFINE c == req[r].id
             fp == req[r].fingerprint
  <2>1. "admitted" \in writes[r] /\ pc[r] # "new"
    BY <1>3 DEF Reserve, Progress
  <2>2. fp \in Fingerprints /\ c \in Ids \union {None}
    BY <2>1 DEF Progress, Kinds
  <2>3. ledger' \in [Ids -> Rows] /\ next_row' \in Nat /\ pruned' \subseteq Ids
    BY <1>3, <2>2, RowsType DEF Reserve, TypeOK, table
  <2>4. /\ pc' \in [Requests -> {"new", "reserve", "mark", "waiting", "admin", "record",
                                  "final", "done"}]
        /\ writes' \in [Requests -> SUBSET (Final \union {"admitted", "dispatching"})]
    BY <1>3 DEF Reserve, Goto, TypeOK
  <2> QED
    BY <1>3, <2>3, <2>4 DEF Reserve, TypeOK, limiter
<1>4. ASSUME NEW r \in Requests, ReserveFails(r) PROVE TypeOK'
  BY <1>4 DEF ReserveFails, Goto, TypeOK, table, limiter, history
<1>5. ASSUME NEW r \in Requests, MarkDispatching(r) PROVE TypeOK'
  <2>1. ledger' \in [Ids -> Rows]
    BY <1>5, MarkedType DEF MarkDispatching
  <2>2. /\ pc' \in [Requests -> {"new", "reserve", "mark", "waiting", "admin", "record",
                                  "final", "done"}]
        /\ writes' \in [Requests -> SUBSET (Final \union {"admitted", "dispatching"})]
        /\ aired' \in [Requests -> Nat]
    BY <1>5 DEF MarkDispatching, Goto, TypeOK
  <2>3. /\ future' \in [Requests -> {"none", "pending", "cancelled", "sent", "error", "exception"}]
        /\ queue' \subseteq Requests /\ counter' \in [Requests -> Nat] /\ seq' \in Nat
    BY <1>5, EnqueueType DEF MarkDispatching, TypeOK
  <2> QED
    BY <1>5, <2>1, <2>2, <2>3 DEF MarkDispatching, TypeOK
<1>6. ASSUME NEW r \in Requests, MarkDispatchingFails(r) PROVE TypeOK'
  BY <1>6 DEF MarkDispatchingFails, Goto, Final, TypeOK, table, limiter, history
<1>7. ASSUME NEW r \in Requests, Resume(r) PROVE TypeOK'
  <2>1. OutcomeOf(future[r]) \in Final
    BY DEF OutcomeOf, Final
  <2>2. /\ pc' \in [Requests -> {"new", "reserve", "mark", "waiting", "admin", "record",
                                  "final", "done"}]
        /\ writes' \in [Requests -> SUBSET (Final \union {"admitted", "dispatching"})]
    BY <1>7, <2>1, RecordType DEF Resume, Goto, TypeOK
  <2>3. future' \in [Requests -> {"none", "pending", "cancelled", "sent", "error", "exception"}]
    BY <1>7, SettledType DEF Resume, TypeOK
  <2> QED
    BY <1>7, <2>2, <2>3 DEF Resume, TypeOK, table, limiter, history
<1>8. ASSUME NEW r \in Requests, TimeOut(r) PROVE TypeOK'
  <2>1. /\ pc' \in [Requests -> {"new", "reserve", "mark", "waiting", "admin", "record",
                                  "final", "done"}]
        /\ writes' \in [Requests -> SUBSET (Final \union {"admitted", "dispatching"})]
    BY <1>8, RecordType DEF TimeOut, Goto, Final, TypeOK
  <2>2. future' \in [Requests -> {"none", "pending", "cancelled", "sent", "error", "exception"}]
    BY <1>8, SettledType DEF TimeOut
  <2> QED
    BY <1>8, <2>1, <2>2 DEF TimeOut, TypeOK, table, limiter, history
<1>9. ASSUME NEW r \in Requests, AdminDone(r) PROVE TypeOK'
  BY <1>9, RecordType DEF AdminDone, Final, TypeOK, table, limiter, history
<1>10. ASSUME NEW r \in Requests, NEW status \in Final, RecordResult(r, status) PROVE TypeOK'
  <2>1. ledger' \in [Ids -> Rows]
    BY <1>10, MarkedType DEF RecordResult, TypeOK
  <2> QED
    BY <1>10, <2>1 DEF RecordResult, Goto, TypeOK, limiter, history
<1>11. ASSUME NEW r \in Requests, Take(r) PROVE TypeOK'
  <2>1. future' \in [Requests -> {"none", "pending", "cancelled", "sent", "error", "exception"}]
    BY <1>11, SettledType DEF Take, Failed, TypeOK
  <2> QED
    BY <1>11, <2>1 DEF Take, TypeOK, handlers, table, history
<1>12. ASSUME NEW outcome \in {"sent", "error", "exception"}, Return(outcome) PROVE TypeOK'
  <2>1. future' \in [Requests -> {"none", "pending", "cancelled", "sent", "error", "exception"}]
    BY <1>12, SettledType DEF Return
  <2> QED
    BY <1>12, <2>1 DEF Return, Idle, TypeOK, handlers, table, history
<1>13. CASE Publish
  BY <1>12, <1>13 DEF Publish, TypeOK, handlers, table, history
<1>14. CASE Send
  <2>1. worker.item # None => worker.item \in Requests
    BY DEF TypeOK
  <2> QED
    BY <1>12, <1>14, <2>1 DEF Send, TypeOK, handlers, table
<1>15. CASE Finish
  BY <1>12, <1>15 DEF Finish
<1>16. CASE Close
  BY <1>16, SettledType DEF Close, Final, TypeOK, table, limiter, history
<1>17. CASE Stop
  BY <1>17, SettledType DEF Stop, Idle, TypeOK, table, history
<1>18. CASE Start
  BY <1>18 DEF Start, TypeOK, handlers, table, limiter, history
<1>19. CASE Crash
  BY <1>19 DEF Crash, Idle, TypeOK, table, history
<1>20. CASE UNCHANGED vars
  BY <1>20 DEF vars, handlers, table, limiter, history, TypeOK
<1> QED
  BY <1>1, <1>2, <1>3, <1>4, <1>5, <1>6, <1>7, <1>8, <1>9, <1>10, <1>11, <1>13, <1>14, <1>15,
     <1>16, <1>17, <1>18, <1>19, <1>20 DEF Next, SteadyNext, Handler, Worker

-----------------------------------------------------------------------------
(* How far the requests got.                                               *)

(* A step of another request at most takes x out of the queue and settles   *)
(* its future without a confirmation of the radio.                          *)
Untouched(x) ==
  /\ req'[x] = req[x] /\ pc'[x] = pc[x] /\ writes'[x] = writes[x] /\ aired'[x] = aired[x]
  /\ x \in queue' => x \in queue
  /\ worker'.item = x <=> worker.item = x
  /\ worker.item = x => worker'.step = worker.step
  /\ \/ future'[x] = future[x]
     \/ /\ future[x] = "pending" /\ future'[x] \notin {"sent", "pending", "none"}
        /\ future'[x] = "cancelled" \/ Served(x)'
  /\ future'[x] = "pending" => x \in queue' \/ worker'.item = x

(* A request that a step leaves untouched keeps its progress.               *)
LEMMA UntouchedProgress ==
  ASSUME NEW x \in Requests, Progress(x), Untouched(x)
  PROVE  Progress(x)'
BY DEF Untouched, Progress, Fresh, Served

(* What settling the futures of S does to each of them.                     *)
LEMMA SettledFuture ==
  ASSUME NEW x \in Requests, NEW S, NEW outcome
  PROVE  /\ future[x] # "pending" => Settled(future, S, outcome)[x] = future[x]
         /\ x \notin S => Settled(future, S, outcome)[x] = future[x]
         /\ Settled(future, S, outcome)[x] \in {future[x], outcome}
         /\ x \in S => Settled(future, S, outcome)[x] # "pending" \/ outcome = "pending"
BY DEF Settled

(* submit puts r in the queue or fails its future, and touches other items  *)
(* only to evict them.                                                      *)
LEMMA EnqueueProgress ==
  ASSUME TypeOK, NEW r \in Requests, Enqueue(r)
  PROVE  /\ future'[r] \in {"pending", "exception"}
         /\ future'[r] = "pending" => r \in queue'
         /\ future'[r] = "exception" => queue' = queue
         /\ \A x \in Requests \ {r} :
              /\ x \in queue' => x \in queue
              /\ \/ future'[x] = future[x]
                 \/ /\ future[x] = "pending" /\ future'[x] = "exception"
                    /\ x \in queue /\ x \notin queue'
              /\ future'[x] = "pending" => future[x] = "pending" /\ (x \in queue => x \in queue')
<1>1. \A x \in Requests : Failed(future, Victims)[x] =
                           IF x \in Victims /\ future[x] = "pending" THEN "exception" ELSE future[x]
  BY DEF Failed, Settled
<1>2. Failed(future, Victims) = [x \in Requests |-> Failed(future, Victims)[x]]
  BY DEF Failed, Settled
<1>3. CASE life = "stopped" \/ (Full /\ Victims = {})
  BY <1>3 DEF Enqueue, TypeOK
<1>4. CASE ~(life = "stopped" \/ (Full /\ Victims = {}))
  <2>1. /\ future' = [Failed(future, Victims) EXCEPT ![r] = "pending"]
        /\ queue' = (queue \ Victims) \union {r}
    BY <1>4 DEF Enqueue
  <2>2. future'[r] = "pending" /\ r \in queue' /\ Victims \subseteq queue
    BY <2>1, <1>2 DEF Victims, Low
  <2>3. ASSUME NEW x \in Requests \ {r}
        PROVE  /\ x \in queue' => x \in queue
               /\ \/ future'[x] = future[x]
                  \/ /\ future[x] = "pending" /\ future'[x] = "exception"
                     /\ x \in queue /\ x \notin queue'
               /\ future'[x] = "pending" => future[x] = "pending" /\ (x \in queue => x \in queue')
    <3>1. future'[x] = Failed(future, Victims)[x]
      BY <2>1, <1>2
    <3> QED
      BY <2>1, <2>2, <3>1, <1>1
  <2> QED
    BY <2>2, <2>3
<1> QED
  BY <1>3, <1>4

(* Every step keeps the progress of every request: that of its own request, *)
(* and that of the others, which it leaves untouched.                       *)
LEMMA ProgressStep ==
  ASSUME TypeOK, WorkerInv, \A r \in Requests : Progress(r), [Next]_vars
  PROVE  WorkerInv' /\ \A x \in Requests : Progress(x)'
<1> USE NoneAssumption, ArrivalsAssumption DEF Served
<1> DEFINE All == WorkerInv' /\ \A x \in Requests : Progress(x)'
<1>0. ASSUME NEW r \in Requests, Progress(r)', UNCHANGED worker,
             \A x \in Requests \ {r} : Untouched(x)
      PROVE  All
  BY <1>0, UntouchedProgress DEF WorkerInv
<1>1. ASSUME NEW r \in Requests, NEW kind \in Arrivals, Arrive(r, kind) PROVE All
  <2>1. \A x \in Requests \ {r} : Untouched(x)
    BY <1>1 DEF Arrive, Record, Goto, Untouched, Progress, TypeOK, limiter, history
  <2>2. Progress(r)'
    BY <1>1 DEF Arrive, Record, Goto, Progress, Fresh, TypeOK, limiter, history, Final
  <2> QED
    BY <1>0, <1>1, <2>1, <2>2 DEF Arrive, limiter
<1>2. ASSUME NEW r \in Requests, NEW kind \in Arrivals, SubmitChat(r, kind) PROVE All
  <2>0. Enqueue(r) /\ UNCHANGED worker
    BY <1>2 DEF SubmitChat
  <2>1. \A x \in Requests \ {r} : Untouched(x)
    BY <1>2, <2>0, EnqueueProgress DEF SubmitChat, Goto, Untouched, Progress, TypeOK, history
  <2>2. Progress(r)'
    BY <1>2, <2>0, EnqueueProgress DEF SubmitChat, Goto, Progress, Fresh, TypeOK, history, Final
  <2> QED
    BY <1>0, <2>0, <2>1, <2>2
<1>3. ASSUME NEW r \in Requests, Reserve(r) PROVE All
  <2>1. \A x \in Requests \ {r} : Untouched(x)
    BY <1>3 DEF Reserve, Goto, Untouched, Progress, TypeOK, limiter
  <2>2. Progress(r)'
    BY <1>3 DEF Reserve, Goto, Progress, Fresh, TypeOK, limiter, Final
  <2> QED
    BY <1>0, <1>3, <2>1, <2>2 DEF Reserve, limiter
<1>4. ASSUME NEW r \in Requests, ReserveFails(r) PROVE All
  <2>1. \A x \in Requests \ {r} : Untouched(x)
    BY <1>4 DEF ReserveFails, Goto, Untouched, Progress, TypeOK, limiter, history
  <2>2. Progress(r)'
    BY <1>4 DEF ReserveFails, Goto, Progress, Fresh, TypeOK, limiter, history, Final
  <2> QED
    BY <1>0, <1>4, <2>1, <2>2 DEF ReserveFails, limiter
<1>5. ASSUME NEW r \in Requests, MarkDispatching(r) PROVE All
  <2>0. UNCHANGED <<worker, req>> /\ writes' = [writes EXCEPT ![r] = @ \ {"dispatching"}]
    BY <1>5 DEF MarkDispatching
  <2>1. CASE pc[r] = "mark" /\ req[r].via = "tx"
    <3>0. Enqueue(r) /\ Goto(r, "waiting") /\ UNCHANGED aired
      BY <1>5, <2>1 DEF MarkDispatching
    <3>1. \A x \in Requests \ {r} : Untouched(x)
      BY <2>0, <3>0, EnqueueProgress DEF Goto, Untouched, Progress, TypeOK
    <3>2. Progress(r)'
      BY <2>0, <2>1, <3>0, EnqueueProgress DEF Goto, Progress, Fresh, TypeOK, Final
    <3> QED
      BY <1>0, <2>0, <3>1, <3>2
  <2>2. CASE pc[r] = "mark" /\ req[r].via = "admin"
    <3>0. /\ Goto(r, "admin") /\ aired' = [aired EXCEPT ![r] = @ + 1]
          /\ UNCHANGED <<future, queue>>
      BY <1>5, <2>2 DEF MarkDispatching
    <3>1. \A x \in Requests \ {r} : Untouched(x)
      BY <2>0, <3>0 DEF Goto, Untouched, Progress, TypeOK
    <3>2. Progress(r)'
      BY <2>0, <2>2, <3>0 DEF Goto, Progress, Fresh, TypeOK, Final
    <3> QED
      BY <1>0, <2>0, <3>1, <3>2
  <2>3. CASE pc[r] # "mark"
    <3>0. UNCHANGED <<future, queue, pc, aired>>
      BY <1>5, <2>3 DEF MarkDispatching
    <3>1. \A x \in Requests \ {r} : Untouched(x)
      BY <2>0, <3>0 DEF Untouched, Progress, TypeOK
    <3>2. Progress(r)'
      BY <1>5, <2>0, <2>3, <3>0 DEF MarkDispatching, Progress, Fresh, TypeOK, Final
    <3> QED
      BY <1>0, <2>0, <3>1, <3>2
  <2> QED
    BY <1>5, <2>1, <2>2, <2>3 DEF MarkDispatching
<1>6. ASSUME NEW r \in Requests, MarkDispatchingFails(r) PROVE All
  <2>1. \A x \in Requests \ {r} : Untouched(x)
    BY <1>6 DEF MarkDispatchingFails, Goto, Untouched, Progress, TypeOK, limiter, history
  <2>2. Progress(r)'
    BY <1>6 DEF MarkDispatchingFails, Goto, Progress, Fresh, TypeOK, limiter, history, Final
  <2> QED
    BY <1>0, <1>6, <2>1, <2>2 DEF MarkDispatchingFails, limiter
<1>7. ASSUME NEW r \in Requests, Resume(r) PROVE All
  <2>0. UNCHANGED <<worker, queue, req, aired>>
    BY <1>7 DEF Resume, limiter, history
  <2>1. \A x \in Requests : \/ future'[x] = future[x]
                            \/ future[x] = "pending" /\ future'[x] = "cancelled"
    BY <1>7, SettledFuture DEF Resume
  <2>2. \A x \in Requests \ {r} : Untouched(x)
    BY <1>7, <2>0, <2>1 DEF Resume, Record, Goto, Untouched, Progress, TypeOK
  <2>3. Progress(r)'
    BY <1>7, <2>0, <2>1 DEF Resume, Record, Goto, OutcomeOf, Progress, Fresh, TypeOK, Final
  <2> QED
    BY <1>0, <2>0, <2>2, <2>3
<1>8. ASSUME NEW r \in Requests, TimeOut(r) PROVE All
  <2>0. UNCHANGED <<worker, queue, req, aired>>
    BY <1>8 DEF TimeOut, limiter, history
  <2>1. \A x \in Requests : \/ future'[x] = future[x]
                            \/ future[x] = "pending" /\ future'[x] = "cancelled"
    BY <1>8, SettledFuture DEF TimeOut
  <2>2. /\ \A x \in Requests \ {r} : pc'[x] = pc[x] /\ writes'[x] = writes[x]
        /\ \/ pc'[r] = "done" /\ writes'[r] = writes[r]
           \/ /\ pc'[r] = "final" /\ writes'[r] = writes[r] \union {"uncertain"}
              /\ req[r].via # "http"
    BY <1>8 DEF TimeOut, Record, Goto, TypeOK
  <2>3. pc[r] = "waiting" /\ future'[r] # "pending"
    BY <1>8, SettledFuture DEF TimeOut, TimesOut
  <2>4. \A x \in Requests \ {r} : Untouched(x)
    BY <2>0, <2>1, <2>2 DEF Untouched, Progress
  <2>5. Progress(r)'
    BY <2>0, <2>1, <2>2, <2>3 DEF Progress, Fresh, Final
  <2> QED
    BY <1>0, <2>0, <2>4, <2>5
<1>9. ASSUME NEW r \in Requests, AdminDone(r) PROVE All
  <2>1. \A x \in Requests \ {r} : Untouched(x)
    BY <1>9 DEF AdminDone, Record, Goto, Untouched, Progress, TypeOK, limiter, history
  <2>2. Progress(r)'
    BY <1>9 DEF AdminDone, Record, Goto, Progress, Fresh, TypeOK, limiter, history, Final
  <2> QED
    BY <1>0, <1>9, <2>1, <2>2 DEF AdminDone, limiter
<1>10. ASSUME NEW r \in Requests, NEW status \in Final, RecordResult(r, status) PROVE All
  <2>1. \A x \in Requests \ {r} : Untouched(x)
    BY <1>10 DEF RecordResult, Goto, Untouched, Progress, TypeOK, limiter, history
  <2>2. Progress(r)'
    BY <1>10 DEF RecordResult, Goto, Progress, Fresh, TypeOK, limiter, history, Final
  <2> QED
    BY <1>0, <1>10, <2>1, <2>2 DEF RecordResult, limiter
<1>11. ASSUME NEW r \in Requests, Take(r) PROVE All
  <2>0. /\ UNCHANGED <<req, pc, writes, aired>> /\ worker = Idle
        /\ r \in queue /\ queue' = queue \ {r}
    BY <1>11 DEF Take, handlers, history
  <2>1. \/ UNCHANGED worker
        \/ worker' = [item |-> r, step |-> "publish"] /\ UNCHANGED future
    BY <1>11 DEF Take
  <2>2. /\ \A x \in Requests \ {r} : future'[x] = future[x]
        /\ \/ future'[r] = future[r]
           \/ future[r] = "pending" /\ future'[r] \in {"error", "exception"}
        /\ future'[r] = "pending" => worker'.item = r
    BY <1>11, SettledFuture DEF Take, Failed, PassedOver
  <2>3. \A x \in Requests \ {r} : Untouched(x)
    BY <2>0, <2>1, <2>2 DEF Untouched, Progress, TypeOK, Idle
  <2>4. Progress(r)'
    BY <2>0, <2>1, <2>2 DEF Progress, Fresh, TypeOK, Idle, Final
  <2>5. WorkerInv'
    BY <2>0, <2>1 DEF WorkerInv, Idle
  <2> QED
    BY <2>3, <2>4, <2>5, UntouchedProgress
<1>12. ASSUME NEW outcome \in {"sent", "error", "exception"}, Return(outcome),
              worker.step # "idle", outcome = "sent" => worker.step = "air"
       PROVE  All
  <2>0. PICK r \in Requests : r = worker.item
    BY <1>12 DEF WorkerInv, TypeOK
  <2>1. UNCHANGED <<req, pc, writes, aired, queue>> /\ worker' = Idle
    BY <1>12 DEF Return, handlers, history
  <2>2. /\ \A x \in Requests \ {r} : future'[x] = future[x]
        /\ future'[r] \in {future[r], outcome} /\ future'[r] # "pending"
    <3>1. future' = Settled(future, {r}, outcome)
      BY <1>12, <2>0 DEF Return
    <3> QED
      BY <1>12, <3>1 DEF Settled
  <2>3. \A x \in Requests \ {r} : Untouched(x)
    BY <2>0, <2>1, <2>2 DEF Untouched, Progress, TypeOK, Idle
  <2>4. Progress(r)'
    <3>1. /\ aired[r] = IF worker.step = "air" THEN 1 ELSE 0
          /\ future'[r] = "sent" => aired[r] = 1
      BY <1>12, <2>0, <2>2 DEF Progress
    <3>2. worker'.item # r
      BY <2>0, <2>1 DEF Idle
    <3> QED
      BY <1>12, <2>0, <2>1, <2>2, <3>1, <3>2 DEF Progress, Fresh
  <2>5. WorkerInv'
    BY <2>1 DEF WorkerInv, Idle
  <2> QED
    BY <2>3, <2>4, <2>5, UntouchedProgress
<1>13. CASE Publish
  <2>1. CASE worker' = [worker EXCEPT !.step = "send"]
             /\ UNCHANGED <<handlers, future, table, queue, counter, seq, life, history>>
    <3>1. /\ worker'.item = worker.item /\ worker'.step = "send" /\ worker.step = "publish"
          /\ worker.item # None
      BY <1>13, <2>1 DEF Publish, WorkerInv, TypeOK
    <3>2. \A x \in Requests : Progress(x)'
      BY <2>1, <3>1 DEF Progress, Fresh, handlers, history
    <3> QED
      BY <3>1, <3>2 DEF WorkerInv
  <2> QED
    BY <1>12, <1>13, <2>1 DEF Publish
<1>14. CASE Send
  <2>1. CASE worker' = [worker EXCEPT !.step = "air"]
             /\ aired' = [aired EXCEPT ![worker.item] = @ + 1]
             /\ UNCHANGED <<handlers, future, table, queue, counter, seq, life, pruned>>
    <3>1. /\ worker'.item = worker.item /\ worker'.step = "air" /\ worker.step = "send"
          /\ worker.item # None
      BY <1>14, <2>1 DEF Send, WorkerInv, TypeOK
    <3>2. \A x \in Requests : Progress(x)'
      BY <2>1, <3>1 DEF Progress, Fresh, handlers, TypeOK
    <3> QED
      BY <3>1, <3>2 DEF WorkerInv
  <2> QED
    BY <1>12, <1>14, <2>1 DEF Send
<1>15. CASE Finish
  BY <1>12, <1>15 DEF Finish
<1>16. CASE Close
  <2>0. UNCHANGED <<worker, queue, req, aired>>
    BY <1>16 DEF Close, limiter, history
  <2>1. \A x \in Requests : \/ future'[x] = future[x]
                            \/ future[x] = "pending" /\ future'[x] = "cancelled"
    BY <1>16, SettledFuture DEF Close
  <2>2. ASSUME NEW x \in Requests PROVE Progress(x)'
    BY <1>16, <2>0, <2>1 DEF Close, Mqtt, Progress, Fresh, TypeOK, Final
  <2> QED
    BY <2>0, <2>2 DEF WorkerInv
<1>17. CASE Stop
  <2>0. /\ UNCHANGED <<req, aired, writes>> /\ queue' = {} /\ worker' = Idle
        /\ pc' = [r \in Requests |-> IF r \in Mqtt THEN "done" ELSE pc[r]]
    BY <1>17 DEF Stop, history
  <2>1. ASSUME NEW x \in Requests
        PROVE  /\ \/ future'[x] = future[x]
                  \/ future[x] = "pending" /\ future'[x] = "cancelled"
               /\ x \in queue \/ worker.item = x => future'[x] # "pending"
    BY <1>17, SettledFuture DEF Stop
  <2>2. ASSUME NEW x \in Requests PROVE Progress(x)'
    BY <2>0, <2>1 DEF Mqtt, Progress, Fresh, Idle, TypeOK, Final
  <2> QED
    BY <2>0, <2>2 DEF WorkerInv, Idle
<1>18. CASE Start \/ UNCHANGED vars
  BY <1>18 DEF Start, vars, handlers, limiter, history, Progress, Fresh, WorkerInv
<1>19. CASE Crash
  BY <1>19 DEF Crash, Progress, Fresh, Idle, WorkerInv, TypeOK, history
<1> QED
  BY <1>1, <1>2, <1>3, <1>4, <1>5, <1>6, <1>7, <1>8, <1>9, <1>10, <1>11, <1>13, <1>14, <1>15,
     <1>16, <1>17, <1>18, <1>19 DEF Next, SteadyNext, Handler, Worker

-----------------------------------------------------------------------------
(* Who may act for an identifier, and what becomes of its row.             *)

(* r neither comes to hold its identifier nor changes it, stays on the air  *)
(* if it was, and has nothing new to record if it was done recording.       *)
Recorded(r) == writes[r] \subseteq {"uncertain"} /\ pc[r] \in {"final", "done"}

Steady(r) ==
  /\ Holds(r)' => Holds(r)
  /\ pc[r] # "new" => req'[r] = req[r] /\ pc'[r] # "new"
  /\ aired[r] > 0 => aired'[r] > 0
  /\ Recorded(r) => Recorded(r)'
  /\ pc[r] \notin {"new", "mark"} /\ Served(r) => Served(r)'
  /\ Holds(r) /\ Early(r) => Early(r)' \/ ledger' = Marked(req[r].id, "dispatching")

(* An insertion: the reservation of r is admitted.                          *)
Inserts(r) ==
  LET c == req[r].id IN
  /\ Reserve(r) /\ c \in Ids /\ ~HasRow(c)
  /\ ledger' = Kept(Inserted(c, req[r].fingerprint))
  /\ pruned' = pruned \union Excess(Inserted(c, req[r].fingerprint))
  /\ next_row' = next_row + 1
  /\ req' = req /\ pc[r] # "new" /\ pc'[r] # "new"
  /\ aired' = aired
  /\ ~Recorded(r) \/ Recorded(r)'

(* An update: r records a status for its identifier.                        *)
Updates(r, status) ==
  /\ status \in writes[r] /\ status \in Final \union {"dispatching"}
  /\ ledger' = Marked(req[r].id, status)
  /\ UNCHANGED <<next_row, pruned>>
  /\ \A x \in Requests : Steady(x)
  /\ status \in {"completed", "failed"} => Recorded(r)'

(* Whatever settles futures, drops items and moves the worker leaves the    *)
(* requests steady that it neither airs nor queues.                         *)
LEMMA SteadyFrame ==
  ASSUME NEW x \in Requests, req'[x] = req[x], pc'[x] = pc[x], writes'[x] = writes[x],
         aired'[x] = aired[x], x \in queue' => x \in queue,
         worker'.item = x => ~Served(x)
  PROVE  Steady(x)
BY DEF Steady, Holds, Fresh, Served, Recorded, Early

(* Every step inserts a row, updates one, or leaves the ledger alone; and    *)
(* nobody but the request of an insertion comes to hold an identifier.      *)
LEMMA LedgerStep ==
  ASSUME TypeOK, WorkerInv, \A r \in Requests : Progress(r), [Next]_vars
  PROVE  \/ \E r \in Requests : Inserts(r) /\ \A x \in Requests \ {r} : Steady(x)
         \/ \E r \in Requests, status \in Final \union {"dispatching"} : Updates(r, status)
         \/ UNCHANGED <<table, pruned>> /\ \A x \in Requests : Steady(x)
<1> USE NoneAssumption, ArrivalsAssumption DEF Served, table, Early
<1> DEFINE Goal ==
      \/ \E r \in Requests : Inserts(r) /\ \A x \in Requests \ {r} : Steady(x)
      \/ \E r \in Requests, status \in Final \union {"dispatching"} : Updates(r, status)
      \/ UNCHANGED <<table, pruned>> /\ \A x \in Requests : Steady(x)
<1>1. ASSUME NEW r \in Requests, NEW kind \in Arrivals, Arrive(r, kind) PROVE Goal
  <2>1. \A x \in Requests \ {r} : Steady(x)
    BY <1>1, SteadyFrame DEF Arrive, Record, Goto, Progress, TypeOK, limiter, history, Fresh
  <2>2. Steady(r)
    BY <1>1 DEF Arrive, Record, Goto, Steady, Holds, Recorded, Fresh, Progress, Final, TypeOK,
       limiter, history
  <2> QED
    BY <1>1, <2>1, <2>2 DEF Arrive, table, history
<1>2. ASSUME NEW r \in Requests, NEW kind \in Arrivals, SubmitChat(r, kind) PROVE Goal
  <2>0. Enqueue(r) /\ UNCHANGED <<worker, table, pruned>>
    BY <1>2 DEF SubmitChat, table, history
  <2>1. \A x \in Requests \ {r} : Steady(x)
    BY <1>2, <2>0, EnqueueProgress, SteadyFrame DEF SubmitChat, Goto, TypeOK, history, Fresh
  <2>2. Steady(r)
    <3>1. pc[r] = "new" /\ aired[r] = 0 /\ aired' = aired
      BY <1>2 DEF SubmitChat, Progress, Fresh, history
    <3>2. ~Holds(r)'
      BY <1>2 DEF SubmitChat, Holds, TypeOK
    <3> QED
      BY <3>1, <3>2 DEF Steady, Holds, Recorded
  <2> QED
    BY <2>0, <2>1, <2>2
<1>3. ASSUME NEW r \in Requests, Reserve(r) PROVE Goal
  <2>1. \A x \in Requests \ {r} : Steady(x)
    BY <1>3, SteadyFrame DEF Reserve, Goto, TypeOK, limiter, Fresh
  <2>2. pc[r] # "new" /\ ~Recorded(r) /\ Fresh(r) /\ ~Holds(r)
    BY <1>3 DEF Reserve, Progress, Recorded, Holds, Final, Fresh
  <2>3. CASE req[r].id # None /\ ~Reserved(req[r].id, req[r].fingerprint)
    <3>1. req[r].id \in Ids
      BY <2>2, <2>3 DEF Progress, Kinds
    <3>2. Inserts(r)
      BY <1>3, <2>2, <2>3, <3>1 DEF Inserts, Reserve, Reserved, Goto, TypeOK
    <3> QED
      BY <2>1, <3>2
  <2>4. CASE req[r].id = None \/ Reserved(req[r].id, req[r].fingerprint)
    <3>1. UNCHANGED <<table, pruned>>
      BY <1>3, <2>4 DEF Reserve, table
    <3>2. ~Holds(r)' /\ pc'[r] # "new" /\ req' = req /\ UNCHANGED <<aired, queue, worker>>
      BY <1>3, <2>2, <2>4 DEF Reserve, Goto, Holds, Fresh, Progress, Final, TypeOK, limiter
    <3>3. Steady(r)
      BY <2>2, <3>2 DEF Steady, Fresh
    <3> QED
      BY <2>1, <3>1, <3>3
  <2> QED
    BY <2>3, <2>4
<1>4. ASSUME NEW r \in Requests, ReserveFails(r) PROVE Goal
  <2>1. \A x \in Requests \ {r} : Steady(x)
    BY <1>4, SteadyFrame DEF ReserveFails, Goto, TypeOK, limiter, history, Fresh
  <2>2. Steady(r)
    BY <1>4 DEF ReserveFails, Goto, Steady, Holds, Recorded, Fresh, Progress, Final, TypeOK,
       limiter, history
  <2> QED
    BY <1>4, <2>1, <2>2 DEF ReserveFails, table, history
<1>5. ASSUME NEW r \in Requests, MarkDispatching(r) PROVE Goal
  <2>0. /\ UNCHANGED <<worker, req, next_row, pruned>> /\ "dispatching" \in writes[r]
        /\ writes' = [writes EXCEPT ![r] = @ \ {"dispatching"}]
        /\ ledger' = Marked(req[r].id, "dispatching")
    BY <1>5 DEF MarkDispatching
  <2>1. \A x \in Requests \ {r} : /\ x \in queue' => x \in queue
                                 /\ pc'[x] = pc[x] /\ aired'[x] = aired[x]
    BY <1>5, EnqueueProgress DEF MarkDispatching, Goto, TypeOK
  <2>2. \A x \in Requests \ {r} : Steady(x)
    BY <2>0, <2>1, SteadyFrame DEF TypeOK, Fresh
  <2>3. Steady(r)
    <3>1. /\ pc[r] # "new" /\ ~Recorded(r) /\ pc'[r] # "new" /\ aired[r] = 0
          /\ pc[r] # "mark" => queue' = queue
      BY <1>5, <2>0 DEF MarkDispatching, Goto, Progress, Recorded, Fresh, TypeOK
    <3>2. req[r].via # "http" /\ (req[r].id # None => Holds(r))
      BY <2>0, <3>1 DEF Progress, Holds
    <3> QED
      BY <2>0, <3>1, <3>2 DEF Steady, Holds
  <2>4. Updates(r, "dispatching")
    BY <2>0, <2>2, <2>3 DEF Updates
  <2> QED
    BY <2>4
<1>6. ASSUME NEW r \in Requests, MarkDispatchingFails(r) PROVE Goal
  <2>1. \A x \in Requests \ {r} : Steady(x)
    BY <1>6, SteadyFrame DEF MarkDispatchingFails, Goto, TypeOK, limiter, history, Fresh
  <2>2. Steady(r)
    BY <1>6 DEF MarkDispatchingFails, Goto, Steady, Holds, Recorded, Fresh, Progress, Final,
       TypeOK, limiter, history
  <2> QED
    BY <1>6, <2>1, <2>2 DEF MarkDispatchingFails, table, history
<1>7. ASSUME NEW r \in Requests, Resume(r) \/ TimeOut(r) \/ AdminDone(r) PROVE Goal
  <2>0. /\ UNCHANGED <<worker, queue, req, aired, table, pruned>>
        /\ pc[r] \in {"waiting", "admin"}
        /\ pc'[r] \in {"record", "final", "done"}
        /\ \A x \in Requests \ {r} : pc'[x] = pc[x] /\ writes'[x] = writes[x]
        /\ req[r].via = "http" => writes'[r] = {} \/ pc[r] = "admin"
    BY <1>7 DEF Resume, TimeOut, TimesOut, AdminDone, Record, Goto, limiter, history, table,
       TypeOK, Progress
  <2>1. \A x \in Requests \ {r} : Steady(x)
    BY <2>0, SteadyFrame DEF Fresh
  <2>2. Steady(r)
    BY <2>0 DEF Steady, Holds, Recorded, Fresh
  <2> QED
    BY <2>0, <2>1, <2>2
<1>10. ASSUME NEW r \in Requests, NEW status \in Final, RecordResult(r, status) PROVE Goal
  <2>1. \A x \in Requests \ {r} : Steady(x)
    BY <1>10, SteadyFrame DEF RecordResult, Goto, TypeOK, limiter, history, Fresh
  <2>2. /\ status \in writes[r] /\ UNCHANGED <<req, queue, worker, aired, next_row, pruned>>
        /\ writes'[r] = writes[r] \ {status} /\ pc'[r] \in {pc[r], "done"}
    BY <1>10 DEF RecordResult, Goto, limiter, history, TypeOK
  <2>3. pc[r] \in {"record", "final", "done"}
    BY <2>2 DEF Progress, TypeOK, Final
  <2>4. Steady(r)
    BY <2>2, <2>3 DEF Steady, Holds, Recorded, Fresh
  <2>5. status \in {"completed", "failed"} => Recorded(r)'
    <3>1. status \in {"completed", "failed"} => writes'[r] \subseteq {"uncertain"}
      BY <2>2 DEF Progress, TypeOK, Final
    <3>2. pc[r] = "record" => pc'[r] = "done"
      BY <1>10, <2>2 DEF RecordResult, Goto, Progress, TypeOK
    <3> QED
      BY <2>2, <2>3, <3>1, <3>2 DEF Recorded
  <2>6. CASE ledger' = Marked(req[r].id, status)
    BY <2>1, <2>2, <2>4, <2>5, <2>6 DEF Updates
  <2>7. CASE UNCHANGED ledger
    BY <2>1, <2>2, <2>4, <2>7
  <2> QED
    BY <1>10, <2>6, <2>7 DEF RecordResult
<1>11. ASSUME NEW r \in Requests, Take(r) PROVE Goal
  BY <1>11, SteadyFrame DEF Take, handlers, history, table, Fresh, Idle
<1>12. ASSUME NEW outcome, Return(outcome) PROVE Goal
  BY <1>12, SteadyFrame DEF Return, handlers, history, table, Idle
<1>13. CASE Publish
  <2>1. CASE worker' = [worker EXCEPT !.step = "send"]
             /\ UNCHANGED <<handlers, future, table, queue, counter, seq, life, history>>
    <3>1. worker'.item = worker.item
      BY <2>1 DEF TypeOK
    <3> QED
      BY <2>1, <3>1, SteadyFrame DEF handlers, history, table, Fresh
  <2> QED
    BY <1>12, <1>13, <2>1 DEF Publish
<1>14. CASE Send
  <2>1. CASE worker' = [worker EXCEPT !.step = "air"]
             /\ aired' = [aired EXCEPT ![worker.item] = @ + 1]
             /\ UNCHANGED <<handlers, future, table, queue, counter, seq, life, pruned>>
    <3>1. worker'.item = worker.item
      BY <2>1 DEF TypeOK
    <3>2. ASSUME NEW x \in Requests PROVE Steady(x)
      <4>1. CASE x = worker.item
        BY <2>1, <3>1, <4>1 DEF Steady, Holds, Recorded, Fresh, handlers, TypeOK
      <4>2. CASE x # worker.item
        BY <2>1, <3>1, <4>2, SteadyFrame DEF handlers, TypeOK
      <4> QED
        BY <4>1, <4>2
    <3> QED
      BY <2>1, <3>2 DEF table
  <2> QED
    BY <1>12, <1>14, <2>1 DEF Send
<1>15. CASE Finish
  BY <1>12, <1>15 DEF Finish
<1>16. CASE Close
  <2>1. ASSUME NEW x \in Requests PROVE Steady(x)
    BY <1>16 DEF Close, Mqtt, Steady, Holds, Recorded, Fresh, Progress, Final, limiter, history,
       TypeOK
  <2> QED
    BY <1>16, <2>1 DEF Close, table, history
<1>17. CASE Stop
  <2>1. ASSUME NEW x \in Requests PROVE Steady(x)
    BY <1>17 DEF Stop, Mqtt, Steady, Holds, Recorded, Fresh, Idle, history, TypeOK
  <2> QED
    BY <1>17, <2>1 DEF Stop, table, history
<1>18. CASE Start \/ UNCHANGED vars
  <2>1. ASSUME NEW x \in Requests PROVE Steady(x)
    BY <1>18 DEF Start, vars, handlers, limiter, history, Steady, Holds, Recorded, Fresh
  <2> QED
    BY <1>18, <2>1 DEF Start, vars, table, history
<1>19. CASE Crash
  <2>1. ASSUME NEW x \in Requests PROVE Steady(x)
    BY <1>19 DEF Crash, Steady, Holds, Recorded, Fresh, Idle, history, TypeOK
  <2> QED
    BY <1>19, <2>1 DEF Crash, table, history
<1> QED
  BY <1>1, <1>2, <1>3, <1>4, <1>5, <1>6, <1>7, <1>10, <1>11, <1>13, <1>14, <1>15,
     <1>16, <1>17, <1>18, <1>19 DEF Next, SteadyNext, Handler, Worker

(* What an insertion leaves in each row.                                    *)
LEMMA InsertedRow ==
  ASSUME TypeOK, NEW q \in Requests, Inserts(q), NEW d \in Ids
  PROVE  LET new == [row |-> next_row + 1, fingerprint |-> req[q].fingerprint,
                     status |-> "admitted"] IN
         /\ d # req[q].id => ledger'[d] \in {ledger[d], NoRow}
         /\ d # req[q].id /\ d \notin pruned' => ledger'[d] = ledger[d]
         /\ d = req[q].id => ledger'[d] \in {new, NoRow}
         /\ d = req[q].id /\ d \notin pruned' => ledger'[d] = new
<1> DEFINE c == req[q].id
           rows == Inserted(c, req[q].fingerprint)
           new == [row |-> next_row + 1, fingerprint |-> req[q].fingerprint,
                   status |-> "admitted"]
<1>1. ledger' = Kept(rows) /\ pruned' = pruned \union Excess(rows) /\ c \in Ids
  BY DEF Inserts
<1>2. rows[d] = IF d = c THEN new ELSE ledger[d]
  BY <1>1 DEF Inserted, TypeOK
<1>3. ledger'[d] = IF d \in Excess(rows) THEN NoRow ELSE rows[d]
  BY <1>1 DEF Kept
<1> HIDE DEF rows, new
<1>4. /\ d # c => ledger'[d] \in {ledger[d], NoRow}
      /\ d # c /\ d \notin pruned' => ledger'[d] = ledger[d]
      /\ d = c => ledger'[d] \in {new, NoRow}
      /\ d = c /\ d \notin pruned' => ledger'[d] = new
  BY <1>1, <1>2, <1>3
<1> QED
  BY <1>4 DEF new

(* ... and what that means for the statuses.                                *)
LEMMA InsertedStatus ==
  ASSUME TypeOK, NEW q \in Requests, Inserts(q), NEW d \in Ids
  PROVE  /\ ledger'[d] = ledger[d] \/ ledger'[d].status \in {"admitted", "none"}
         /\ d = req[q].id /\ d \notin pruned' => ledger'[d].status = "admitted"
         /\ d = req[q].id /\ ~(ledger'[d].row > 0) => ledger'[d].status = "none"
         /\ d # req[q].id => ledger'[d] = ledger[d] \/ ledger'[d].status = "none"
<1> DEFINE new == [row |-> next_row + 1, fingerprint |-> req[q].fingerprint,
                   status |-> "admitted"]
<1>1. NoRow.status = "none" /\ new.status = "admitted" /\ new.row = next_row + 1
  BY DEF NoRow
<1>2. next_row + 1 > 0
  BY DEF TypeOK
<1>3. /\ d # req[q].id => ledger'[d] \in {ledger[d], NoRow}
      /\ d = req[q].id => ledger'[d] \in {new, NoRow}
      /\ d = req[q].id /\ d \notin pruned' => ledger'[d] = new
  BY InsertedRow
<1> HIDE DEF new
<1> QED
  BY <1>1, <1>2, <1>3

(* What an update does to each row.                                         *)
LEMMA MarkedRow ==
  ASSUME TypeOK, NEW c, NEW status, NEW d \in Ids
  PROVE  LET rows == Marked(c, status) IN
         /\ rows[d].row = ledger[d].row /\ rows[d].fingerprint = ledger[d].fingerprint
         /\ d # c => rows[d] = ledger[d]
         /\ rows[d].status \in {ledger[d].status, status}
         /\ d = c /\ HasRow(d) /\ c # None => rows[d].status = status
         /\ ~HasRow(d) => rows[d] = ledger[d]
<1>1. ledger[d] = [row |-> ledger[d].row, fingerprint |-> ledger[d].fingerprint,
                   status |-> ledger[d].status]
  BY DEF TypeOK, Rows
<1> QED
  BY <1>1 DEF Marked, TypeOK

(* The identifier of a holder is one of Ids.                                *)
LEMMA HolderId ==
  ASSUME NEW r \in Requests, Progress(r), Holds(r)
  PROVE  req[r].id \in Ids
BY ArrivalsAssumption DEF Progress, Holds, Kinds

(* Who records an outcome for an identifier holds it.                       *)
LEMMA RecorderHolds ==
  ASSUME NEW r \in Requests, NEW status \in writes[r], Progress(r),
         status \in Final \union {"dispatching"}, req[r].id # None
  PROVE  Holds(r)
BY DEF Progress, Holds, Final

(* A row has one holder, and it keeps that one.                             *)
LEMMA ReservationsStep ==
  ASSUME CInv, [Next]_vars
  PROVE  Reservations'
<1> DEFINE Owned(r) == /\ HasRow(req[r].id) /\ ledger[req[r].id].fingerprint = req[r].fingerprint
                       /\ \A s \in Requests : Holds(s) /\ req[s].id = req[r].id => s = r
<1> USE DEF CInv
<1>1. ASSUME NEW x \in Requests, Steady(x), Holds(x)'
      PROVE  Holds(x) /\ req'[x] = req[x]
  BY <1>1 DEF Steady, Holds
<1>2. ASSUME NEW q \in Requests, Inserts(q), \A x \in Requests \ {q} : Steady(x),
             NEW r \in Requests, Holds(r)', req'[r].id \notin pruned'
      PROVE  Owned(r)'
  <2> DEFINE c == req[q].id
  <2>0. c \in Ids /\ ~HasRow(c) /\ req' = req /\ pruned \subseteq pruned'
    BY <1>2 DEF Inserts
  <2>1. ASSUME NEW x \in Requests, Holds(x)', req[x].id \notin pruned, req[x].id = c
        PROVE  x = q
    BY <1>1, <1>2, <2>0, <2>1 DEF Reservations
  <2>2. CASE r = q
    <3>1. ledger'[c] = [row |-> next_row + 1, fingerprint |-> req[q].fingerprint,
                        status |-> "admitted"]
      BY <1>2, <2>0, <2>2, InsertedRow
    <3>2. next_row + 1 > 0
      BY DEF TypeOK
    <3> QED
      BY <1>2, <2>0, <2>1, <2>2, <3>1, <3>2 DEF HasRow
  <2>3. CASE r # q
    <3>1. Holds(r) /\ req[r].id \notin pruned /\ req[r].id \in Ids /\ Owned(r)
      BY <1>1, <1>2, <2>0, <2>3, HolderId DEF Reservations
    <3>2. req[r].id # c
      BY <2>0, <3>1
    <3>3. ledger'[req[r].id] = ledger[req[r].id]
      BY <1>2, <2>0, <3>1, <3>2, InsertedRow
    <3>4. ASSUME NEW s \in Requests, Holds(s)', req[s].id = req[r].id PROVE s = r
      BY <1>1, <1>2, <3>1, <3>2, <3>4
    <3> QED
      BY <2>0, <3>1, <3>3, <3>4 DEF HasRow
  <2> QED
    BY <2>2, <2>3
<1>3. ASSUME \A x \in Requests : Steady(x), UNCHANGED pruned,
             \A c \in Ids : /\ ledger'[c].row = ledger[c].row
                            /\ ledger'[c].fingerprint = ledger[c].fingerprint,
             NEW r \in Requests, Holds(r)', req'[r].id \notin pruned'
      PROVE  Owned(r)'
  <2>1. Holds(r) /\ req'[r] = req[r] /\ req[r].id \notin pruned /\ req[r].id \in Ids /\ Owned(r)
    BY <1>1, <1>3, HolderId DEF Reservations
  <2>2. ASSUME NEW s \in Requests, Holds(s)', req'[s].id = req'[r].id PROVE s = r
    BY <1>1, <1>3, <2>1, <2>2
  <2> QED
    BY <1>3, <2>1, <2>2 DEF HasRow
<1>4. ASSUME NEW q \in Requests, NEW status, Updates(q, status),
             NEW r \in Requests, Holds(r)', req'[r].id \notin pruned'
      PROVE  Owned(r)'
  BY <1>3, <1>4, MarkedRow DEF Updates
<1>5. ASSUME NEW r \in Requests, Holds(r)', req'[r].id \notin pruned' PROVE Owned(r)'
  BY <1>2, <1>3, <1>4, <1>5, LedgerStep DEF table
<1> QED
  BY <1>5 DEF Reservations

(* An outcome on record leaves the holder of the row nothing to record but  *)
(* 'uncertain'.                                                             *)
LEMMA OutcomesStep ==
  ASSUME CInv, [Next]_vars
  PROVE  Outcomes'
<1> USE DEF CInv
<1> SUFFICES ASSUME NEW r \in Requests, Holds(r)', req'[r].id \notin pruned',
                    ledger'[req'[r].id].status \in {"completed", "failed"}
             PROVE  Recorded(r)'
  BY DEF Outcomes, Recorded
<1>1. ASSUME Steady(r), req[r].id \notin pruned,
             ledger'[req[r].id].status = ledger[req[r].id].status
      PROVE  Recorded(r)'
  <2>1. Holds(r) /\ req'[r] = req[r]
    BY <1>1 DEF Steady, Holds
  <2>2. Recorded(r)
    BY <1>1, <2>1 DEF Outcomes, Recorded
  <2> QED
    BY <1>1, <2>2 DEF Steady
<1>2. ASSUME NEW q \in Requests, Inserts(q), \A x \in Requests \ {q} : Steady(x)
      PROVE  Recorded(r)'
  <2> DEFINE c == req[q].id
  <2>0. c \in Ids /\ ~HasRow(c) /\ req' = req /\ pruned \subseteq pruned'
    BY <1>2 DEF Inserts
  <2>1. r # q
    <3>1. SUFFICES ASSUME r = q PROVE FALSE
      OBVIOUS
    <3>2. ledger'[c].status = "admitted"
      BY <1>2, <2>0, <3>1, InsertedStatus
    <3> QED
      BY <2>0, <3>1, <3>2
  <2>2. Holds(r) /\ req[r].id \notin pruned /\ req[r].id \in Ids /\ HasRow(req[r].id)
    BY <1>2, <2>0, <2>1, HolderId DEF Steady, Reservations
  <2>3. ledger'[req[r].id] = ledger[req[r].id]
    BY <1>2, <2>0, <2>2, InsertedRow
  <2> QED
    BY <1>1, <1>2, <2>0, <2>1, <2>2, <2>3
<1>3. ASSUME NEW q \in Requests, NEW status, Updates(q, status)
      PROVE  Recorded(r)'
  <2>0. /\ Steady(r) /\ pruned' = pruned /\ ledger' = Marked(req[q].id, status)
        /\ status \in writes[q] /\ status \in Final \union {"dispatching"}
        /\ status \in {"completed", "failed"} => Recorded(q)'
    BY <1>3 DEF Updates
  <2>1. Holds(r) /\ req'[r] = req[r] /\ req[r].id \notin pruned /\ req[r].id \in Ids
    BY <2>0, HolderId DEF Steady, Holds
  <2>2. CASE req[q].id # req[r].id
    <3>1. ledger'[req[r].id] = ledger[req[r].id]
      BY <2>0, <2>1, <2>2, MarkedRow
    <3> QED
      BY <1>1, <2>0, <2>1, <3>1
  <2>3. CASE req[q].id = req[r].id
    <3>1. Holds(q)
      BY <2>0, <2>1, <2>3, RecorderHolds DEF Holds
    <3>2. q = r /\ HasRow(req[r].id)
      BY <2>1, <2>3, <3>1 DEF Reservations
    <3>3. ledger'[req[r].id].status = status
      BY <2>0, <2>1, <2>3, <3>2, MarkedRow DEF Holds
    <3> QED
      BY <2>0, <2>1, <3>2, <3>3
  <2> QED
    BY <2>2, <2>3
<1>4. CASE UNCHANGED <<table, pruned>> /\ \A x \in Requests : Steady(x)
  <2>1. req'[r] = req[r]
    BY <1>4 DEF Steady, Holds
  <2> QED
    BY <1>1, <1>4, <2>1 DEF table
<1> QED
  BY <1>2, <1>3, <1>4, LedgerStep

(* The holder of a row is as early, or as late, as the row says.           *)
LEMMA OrdersStep ==
  ASSUME CInv, [Next]_vars
  PROVE  Orders'
<1> USE DEF CInv
<1> SUFFICES ASSUME NEW r \in Requests, Holds(r)', req'[r].id \notin pruned'
             PROVE  /\ ledger'[req'[r].id].status = "admitted" => Early(r)'
                    /\ ledger'[req'[r].id].status = "failed" => Served(r)'
  BY DEF Orders
<1> DEFINE c == req[r].id
           Good == /\ ledger'[req'[r].id].status = "admitted" => Early(r)'
                   /\ ledger'[req'[r].id].status = "failed" => Served(r)'
<1>1. ASSUME Steady(r), c \notin pruned
      PROVE  /\ Holds(r) /\ req'[r] = req[r] /\ c \in Ids /\ HasRow(c)
             /\ Early(r) /\ ledger'[c].status = "admitted" => Early(r)'
             /\ ledger[c].status = "failed" => Served(r)'
  <2>1. Holds(r) /\ req'[r] = req[r]
    BY <1>1 DEF Steady, Holds
  <2>2. c \in Ids /\ HasRow(c)
    BY <1>1, <2>1, HolderId DEF Reservations
  <2>3. ledger' = Marked(c, "dispatching") => ledger'[c].status = "dispatching"
    BY <2>2, NoneAssumption, MarkedRow
  <2>4. ledger[c].status = "failed" => Served(r) /\ pc[r] \notin {"new", "mark"}
    BY <1>1, <2>1 DEF Orders, Outcomes
  <2> QED
    BY <1>1, <2>1, <2>2, <2>3, <2>4 DEF Steady
<1>2. ASSUME Steady(r), c \notin pruned, ledger'[c].status = ledger[c].status
      PROVE  Good
  BY <1>1, <1>2 DEF Orders
<1>3. ASSUME NEW q \in Requests, Inserts(q), \A x \in Requests \ {q} : Steady(x)
      PROVE  Good
  <2>0. req' = req /\ pruned \subseteq pruned'
    BY <1>3 DEF Inserts
  <2>1. CASE r = q
    <3>1. ledger'[c].status = "admitted"
      BY <1>3, <2>0, <2>1, InsertedStatus DEF Inserts
    <3>2. Early(r)'
      BY <1>3, <2>1 DEF Inserts, Reserve, Goto, Early, Fresh, Progress, TypeOK, limiter
    <3> QED
      BY <2>0, <3>1, <3>2
  <2>2. CASE r # q
    <3>1. Steady(r) /\ c \notin pruned
      BY <1>3, <2>0, <2>2
    <3>2. c # req[q].id /\ c \in Ids
      BY <1>1, <1>3, <3>1 DEF Inserts
    <3>3. ledger'[c] = ledger[c]
      BY <1>3, <2>0, <3>2, InsertedRow
    <3> QED
      BY <1>2, <3>1, <3>3
  <2> QED
    BY <2>1, <2>2
<1>4. ASSUME NEW q \in Requests, NEW status \in Final \union {"dispatching"},
             Updates(q, status)
      PROVE  Good
  <2>0. /\ Steady(r) /\ pruned' = pruned /\ ledger' = Marked(req[q].id, status)
        /\ status \in writes[q]
    BY <1>4 DEF Updates
  <2>1. c \notin pruned
    BY <2>0 DEF Steady, Holds
  <2>2. CASE ledger'[c].status = ledger[c].status
    BY <1>2, <2>0, <2>1, <2>2
  <2>3. CASE ledger'[c].status # ledger[c].status
    <3>1. req[q].id = c /\ ledger'[c].status = status
      BY <1>1, <2>0, <2>1, <2>3, MarkedRow
    <3>2. Holds(q)
      BY <1>1, <2>0, <2>1, <3>1, NoneAssumption, RecorderHolds
    <3>3. q = r
      BY <1>1, <2>0, <2>1, <3>1, <3>2 DEF Reservations
    <3>4. status = "failed" => Served(r) /\ pc[r] \notin {"new", "mark"}
      BY <2>0, <3>3 DEF Progress
    <3>5. status # "admitted"
      BY DEF Final
    <3> QED
      BY <1>1, <2>0, <2>1, <3>1, <3>4, <3>5 DEF Steady
  <2> QED
    BY <2>2, <2>3
<1>5. CASE UNCHANGED <<table, pruned>> /\ \A x \in Requests : Steady(x)
  <2>1. Steady(r) /\ c \notin pruned /\ ledger' = ledger
    BY <1>5 DEF Steady, Holds, table
  <2> QED
    BY <1>2, <2>1
<1> QED
  BY <1>3, <1>4, <1>5, LedgerStep

(* A command that went to the radio stays one that went to the radio, and    *)
(* only such a command is recorded as completed.                            *)
LEMMA CompletedStep ==
  ASSUME CInv, [Next]_vars
  PROVE  CompletedWasAired'
<1> USE DEF CInv
<1>1. ASSUME NEW x \in Requests, Steady(x), NEW c, x \in Aired(c) PROVE x \in Aired(c)'
  BY <1>1 DEF Steady, Aired, Commands
<1>2. ASSUME NEW q \in Requests, Inserts(q), \A x \in Requests \ {q} : Steady(x),
             NEW c \in Ids, ledger'[c].status = "completed"
      PROVE  Aired(c)' # {}
  <2>1. q \in Aired(c) => q \in Aired(c)'
    BY <1>2 DEF Inserts, Reserve, Goto, Aired, Commands, TypeOK
  <2>2. ledger[c].status = "completed"
    BY <1>2, InsertedStatus
  <2>3. PICK x \in Requests : x \in Aired(c)
    BY <2>2 DEF CompletedWasAired, Aired, Commands
  <2> QED
    BY <1>1, <1>2, <2>1, <2>3
<1>3. ASSUME \A x \in Requests : Steady(x), NEW c \in Ids, ledger[c].status = "completed"
      PROVE  Aired(c)' # {}
  <2>1. PICK x \in Requests : x \in Aired(c)
    BY <1>3 DEF CompletedWasAired, Aired, Commands
  <2> QED
    BY <1>1, <1>3, <2>1
<1>4. ASSUME NEW q \in Requests, NEW status, Updates(q, status),
             NEW c \in Ids, ledger'[c].status = "completed"
      PROVE  Aired(c)' # {}
  <2>0. /\ \A x \in Requests : Steady(x)
        /\ ledger' = Marked(req[q].id, status)
        /\ status \in writes[q]
    BY <1>4 DEF Updates
  <2>1. ledger[c].status # "completed" => req[q].id = c /\ status = "completed"
    BY <1>4, <2>0, MarkedRow
  <2>2. CASE req[q].id = c /\ status = "completed"
    <3>1. q \in Aired(c)
      BY <2>0, <2>2 DEF Aired, Commands, Progress
    <3> QED
      BY <1>1, <2>0, <3>1
  <2> QED
    BY <1>3, <1>4, <2>0, <2>1, <2>2
<1>5. ASSUME NEW c \in Ids, ledger'[c].status = "completed" PROVE Aired(c)' # {}
  BY <1>2, <1>3, <1>4, <1>5, LedgerStep DEF table
<1> QED
  BY <1>5 DEF CompletedWasAired

(* A row has a number and a status; where there is none, nothing is left.   *)
LEMMA RowsStep ==
  ASSUME CInv, [Next]_vars
  PROVE  RowsInv'
<1> USE DEF CInv
<1> SUFFICES ASSUME NEW c \in Ids
             PROVE  IF ledger'[c].row > 0
                    THEN ledger'[c].status # "none" /\ ledger'[c].row <= next_row'
                    ELSE ledger'[c].status = "none" /\ ledger'[c].fingerprint = None
  BY DEF RowsInv, HasRow
<1>0. next_row \in Nat /\ ledger[c].row \in Nat
  BY DEF TypeOK, Rows
<1> DEFINE Sound == IF ledger'[c].row > 0
                    THEN ledger'[c].status # "none" /\ ledger'[c].row <= next_row'
                    ELSE ledger'[c].status = "none" /\ ledger'[c].fingerprint = None
<1>1. ASSUME NEW q \in Requests, Inserts(q) PROVE Sound
  <2> DEFINE new == [row |-> next_row + 1, fingerprint |-> req[q].fingerprint,
                     status |-> "admitted"]
  <2>1. ledger'[c] \in {ledger[c], new, NoRow} /\ next_row' = next_row + 1
    BY <1>1, InsertedRow DEF Inserts
  <2> QED
    BY <1>0, <2>1 DEF RowsInv, HasRow, NoRow
<1>2. ASSUME NEW q \in Requests, NEW status, Updates(q, status) PROVE Sound
  <2>1. status # "none"
    BY <1>2 DEF Updates, Final
  <2> QED
    BY <1>2, <2>1, MarkedRow DEF Updates, RowsInv, HasRow
<1>3. CASE UNCHANGED table
  BY <1>3 DEF RowsInv, HasRow, table
<1> QED
  BY <1>1, <1>2, <1>3, LedgerStep

-----------------------------------------------------------------------------
(* The theorems.                                                           *)

(* The inductive invariant holds at the start.                              *)
LEMMA InitCInv == Init => CInv
<1> SUFFICES ASSUME Init PROVE CInv
  OBVIOUS
<1>1. TypeOK
  BY DEF Init, TypeOK, NoRow, Rows, Idle
<1>2. WorkerInv /\ \A r \in Requests : Progress(r) /\ ~Holds(r)
  BY NoneAssumption DEF Init, WorkerInv, Idle, Progress, Fresh, Holds
<1>3. CompletedWasAired /\ RowsInv
  BY DEF Init, CompletedWasAired, RowsInv, HasRow, NoRow
<1> QED
  BY <1>1, <1>2, <1>3 DEF CInv, Reservations, Outcomes, Orders

(* Every step keeps it.                                                     *)
LEMMA StepCInv == CInv /\ [Next]_vars => CInv'
<1> SUFFICES ASSUME CInv, [Next]_vars PROVE CInv'
  OBVIOUS
<1>1. TypeOK' /\ WorkerInv' /\ \A r \in Requests : Progress(r)'
  BY TypeStep, ProgressStep DEF CInv
<1> QED
  BY <1>1, ReservationsStep, OutcomesStep, OrdersStep, CompletedStep, RowsStep DEF CInv

(* It holds in every reachable state.                                       *)
LEMMA Invariance == Spec => []CInv
BY InitCInv, StepCInv, PTL DEF Spec

(* Every reachable state is well typed.                                     *)
THEOREM CommandsTyped == Spec => []TypeOK
<1>1. CInv => TypeOK
  BY DEF CInv
<1> QED
  BY <1>1, Invariance, PTL

(* What went to the radio for an identifier holds it.                       *)
LEMMA AiredHolds ==
  ASSUME NEW c \in Ids, NEW r \in Aired(c)
  PROVE  r \in Requests /\ Holds(r) /\ req[r].id = c /\ aired[r] > 0
BY NoneAssumption DEF Aired, Commands, Holds, Fresh

(* While the ledger keeps its row, a command is handed to the radio at most *)
(* once, whatever the duplicates, the time-outs, the closings, the crashes  *)
(* and the failures of storage (reserve_command).                           *)
THEOREM CommandsAtMostOnce == Spec => []AtMostOnce
<1>1. CInv => AtMostOnce
  <2> SUFFICES ASSUME CInv, NEW c \in Ids \ pruned, NEW r \in Aired(c)
               PROVE  aired[r] = 1 /\ \A s \in Aired(c) : r = s
    BY DEF AtMostOnce
  <2>1. aired[r] <= 1 /\ aired[r] \in Nat
    BY AiredHolds DEF CInv, Progress, TypeOK
  <2> QED
    BY <2>1, AiredHolds DEF CInv, Reservations
<1> QED
  BY <1>1, Invariance, PTL

(* ... and with the content its row was made for.                           *)
THEOREM CommandsAiredAsReserved == Spec => []AiredAsReserved
<1>1. CInv => AiredAsReserved
  BY AiredHolds DEF CInv, Reservations, AiredAsReserved
<1> QED
  BY <1>1, Invariance, PTL

(* A command is recorded as completed only if it went to the radio.         *)
THEOREM CompletedCommandsWereAired == Spec => []CompletedWasAired
<1>1. CInv => CompletedWasAired
  BY DEF CInv
<1> QED
  BY <1>1, Invariance, PTL

(* A pending future is in the queue or with the worker: no eviction, drop   *)
(* or stop of the limiter forgets one.                                      *)
THEOREM WaitersServed == Spec => []WaitersAreServed
<1>1. CInv => WaitersAreServed
  BY DEF CInv, Progress, WaitersAreServed
<1> QED
  BY <1>1, Invariance, PTL

(* A recorded outcome is kept, or replaced by 'uncertain' when the closing  *)
(* of the dispatcher interrupts the handler that recorded it.               *)
THEOREM OutcomesKept == Spec => OutcomeIsKept
<1> DEFINE Lasting == \A c \in Ids \ pruned' :
                      ledger[c].status \in {"completed", "failed"}
                        => ledger'[c].status \in {ledger[c].status, "uncertain"}
<1>1. CInv /\ [Next]_vars => [Lasting]_vars
  <2> SUFFICES ASSUME CInv, [Next]_vars, NEW c \in Ids \ pruned',
                      ledger[c].status \in {"completed", "failed"}
               PROVE  ledger'[c].status \in {ledger[c].status, "uncertain"}
    OBVIOUS
  <2> USE DEF CInv
  <2>1. ASSUME NEW q \in Requests, Inserts(q) PROVE ledger'[c] = ledger[c]
    <3>1. c # req[q].id
      BY <2>1 DEF Inserts, RowsInv
    <3> QED
      BY <2>1, <3>1, InsertedRow
  <2>2. ASSUME NEW q \in Requests, NEW status, Updates(q, status)
        PROVE  ledger'[c].status \in {ledger[c].status, "uncertain"}
    <3>1. CASE req[q].id # c
      BY <2>2, <3>1, MarkedRow DEF Updates
    <3>2. CASE req[q].id = c
      <4>1. Holds(q) /\ c \notin pruned
        BY <2>2, <3>2, NoneAssumption, RecorderHolds DEF Updates
      <4>2. status = "uncertain"
        BY <2>2, <3>2, <4>1 DEF Outcomes, Updates
      <4> QED
        BY <2>2, <4>2, MarkedRow DEF Updates
    <3> QED
      BY <3>1, <3>2
  <2> QED
    BY <2>1, <2>2, LedgerStep DEF table
<1> QED
  BY <1>1, Invariance, PTL DEF Spec, OutcomeIsKept

-----------------------------------------------------------------------------
(* The refinement of CommandContract.                                       *)

(* A step executes nothing, or one request for the first time: the worker   *)
(* hands over its item, or a marked administrative command starts.          *)
Airs(r) ==
  /\ aired[r] = 0 /\ aired' = [aired EXCEPT ![r] = @ + 1]
  /\ pc[r] # "new" /\ UNCHANGED <<req, pruned>>
  /\ \/ worker.item = r /\ UNCHANGED ledger
     \/ "dispatching" \in writes[r] /\ ledger' = Marked(req[r].id, "dispatching")

(* Every step is one or the other.                                          *)
LEMMA AiringStep ==
  ASSUME CInv, [Next]_vars
  PROVE  UNCHANGED aired \/ \E r \in Requests : Airs(r)
<1> USE DEF CInv
<1>1. ASSUME NEW r \in Requests, MarkDispatching(r)
      PROVE  UNCHANGED aired \/ Airs(r)
  BY <1>1 DEF MarkDispatching, Airs, Progress, Fresh, TypeOK
<1>2. CASE Send
  <2>1. UNCHANGED aired \/ aired' = [aired EXCEPT ![worker.item] = @ + 1]
    BY <1>2 DEF Send, Return, history
  <2>2. worker.item \in Requests
    BY <1>2 DEF Send, WorkerInv, TypeOK
  <2>3. aired[worker.item] = 0 /\ pc[worker.item] # "new"
    BY <1>2, <2>2 DEF Send, Progress, Fresh
  <2> QED
    BY <1>2, <2>1, <2>2, <2>3 DEF Send, Return, Airs, handlers, table, history
<1>3. ASSUME NEW r \in Requests, NEW kind \in Arrivals, Arrive(r, kind) \/ SubmitChat(r, kind)
      PROVE  UNCHANGED aired
  BY <1>3 DEF Arrive, SubmitChat, history
<1>4. ASSUME NEW r \in Requests,
             \/ Reserve(r) \/ ReserveFails(r) \/ MarkDispatchingFails(r) \/ Resume(r)
             \/ TimeOut(r) \/ AdminDone(r) \/ Take(r)
             \/ \E status \in Final : RecordResult(r, status)
      PROVE  UNCHANGED aired
  BY <1>4 DEF Reserve, ReserveFails, MarkDispatchingFails, Resume, TimeOut, AdminDone, Take,
     RecordResult, history
<1>5. CASE Publish \/ Finish \/ Close \/ Stop \/ Start \/ Crash \/ UNCHANGED vars
  BY <1>5 DEF Publish, Finish, Return, Close, Stop, Start, Crash, vars, history
<1> QED
  BY <1>1, <1>2, <1>3, <1>4, <1>5 DEF Next, SteadyNext, Handler, Worker

(* A request that arrived keeps what it carries.                            *)
LEMMA RequestsLast ==
  ASSUME CInv, [Next]_vars, NEW r \in Requests, pc[r] # "new"
  PROVE  req'[r] = req[r] /\ pc'[r] # "new"
BY LedgerStep DEF CInv, Inserts, Updates, Steady

(* Whoever is not executed by a step stays as executed as it was.           *)
LEMMA SameAired ==
  ASSUME CInv, [Next]_vars, NEW c \in Ids, NEW r \in Requests, aired'[r] = aired[r]
  PROVE  /\ r \in Aired(c)' <=> r \in Aired(c)
         /\ r \in Aired(c) => Run(r)' = Run(r)
<1>1. pc[r] = "new" => aired[r] = 0
  BY DEF CInv, Progress, Fresh
<1> QED
  BY <1>1, RequestsLast DEF Aired, Commands, Run

(* A step that executes nothing leaves the executions of what is known.     *)
LEMMA SameRuns ==
  ASSUME CInv, [Next]_vars, UNCHANGED aired, NEW c \in Ids
  PROVE  {Run(r) : r \in Aired(c)}' = {Run(r) : r \in Aired(c)}
<1>1. Aired(c) \subseteq Requests /\ Aired(c)' \subseteq Requests
  BY DEF Aired, Commands
<1>2. Aired(c)' = Aired(c) /\ \A r \in Aired(c) : Run(r)' = Run(r)
  BY <1>1, SameAired
<1> QED
  BY <1>2

(* The newest row is never in excess.                                       *)
LEMMA NewestKept ==
  ASSUME CInv, NEW c \in Ids, NEW fp
  PROVE  c \notin Excess(Inserted(c, fp))
<1> DEFINE rows == Inserted(c, fp)
<1>1. rows[c].row = next_row + 1 /\ \A d \in Ids \ {c} : rows[d] = ledger[d]
  BY DEF Inserted, CInv, TypeOK
<1>2. \A d \in Ids : ledger[d].row \in Nat /\ (ledger[d].row > 0 => ledger[d].row <= next_row)
  BY DEF CInv, RowsInv, HasRow, TypeOK, Rows
<1>3. next_row \in Nat
  BY DEF CInv, TypeOK
<1>4. {d \in Ids : rows[d].row > rows[c].row} = {}
  BY <1>1, <1>2, <1>3
<1> QED
  BY <1>4, FS_EmptySet, LimitsAssumption DEF Excess

(* What is on record of an identifier that is not forgotten.                *)
LEMMA EntryOf ==
  ASSUME NEW c \in Ids \ pruned
  PROVE  /\ Entry[c] = [status |-> ledger[c].status, content |-> ledger[c].fingerprint]
         /\ Runs[c] = {Run(r) : r \in Aired(c)}
BY DEF Entry, Runs

(* An insertion admits a command, or is the second one of an identifier     *)
(* that was forgotten; the rows in excess are forgotten.                    *)
LEMMA InsertsRefines ==
  ASSUME CInv, [Next]_vars, UNCHANGED aired, NEW q \in Requests, Inserts(q)
  PROVE  Contract!Next
<1> DEFINE c == req[q].id
           fp == req[q].fingerprint
           F == Excess(Inserted(c, fp))
<1>1. c \in Ids /\ ~HasRow(c) /\ pruned' = pruned \union F /\ F \subseteq Ids
  BY DEF Inserts, Excess
<1>2. fp \in Fingerprints
  BY ArrivalsAssumption DEF Inserts, CInv, Progress, Kinds
<1>3. ASSUME NEW d \in Ids \ F PROVE Runs'[d] = Runs[d]
  BY <1>1, <1>3, SameRuns DEF Runs
<1>4. ASSUME NEW d \in Ids \ F, d # c PROVE Entry'[d] = Entry[d]
  <2>1. d \notin pruned => ledger'[d] = ledger[d]
    BY <1>1, <1>4, InsertedRow DEF CInv
  <2> QED
    BY <1>1, <1>4, <2>1 DEF Entry
<1>5. ASSUME NEW d \in F PROVE Entry'[d] = Contract!Forgotten /\ Runs'[d] = {}
  BY <1>1, <1>5 DEF Entry, Runs, Contract!Forgotten
<1>6. Runs' = [d \in Ids |-> IF d \in F THEN {} ELSE Runs[d]]
  BY <1>3, <1>5 DEF Runs
<1>7. CASE c \in pruned
  <2>1. \A d \in Ids \ F : Entry'[d] = Entry[d]
    BY <1>1, <1>4, <1>7 DEF Entry
  <2>2. Contract!Forget(F)
    BY <1>5, <1>6, <2>1 DEF Contract!Forget, Contract!Forgetting, Entry
  <2> QED
    BY <1>1, <2>2 DEF Contract!Next
<1>8. CASE c \notin pruned
  <2>1. c \notin F
    BY <1>1, NewestKept
  <2>2. Entry[c] = Contract!Unknown
    <3>1. ledger[c].status = "none" /\ ledger[c].fingerprint = None
      BY <1>1 DEF CInv, RowsInv
    <3>2. Entry[c] = [status |-> ledger[c].status, content |-> ledger[c].fingerprint]
      BY <1>1, <1>8, EntryOf
    <3> QED
      BY <3>1, <3>2 DEF Contract!Unknown
  <2>3. Entry'[c] = [status |-> "admitted", content |-> fp]
    <3>1. c \in Ids /\ c \notin pruned'
      BY <1>1, <1>8, <2>1
    <3>2. ledger'[c] = [row |-> next_row + 1, fingerprint |-> fp, status |-> "admitted"]
      BY <3>1, InsertedRow DEF CInv
    <3>3. ledger'[c].status = "admitted" /\ ledger'[c].fingerprint = fp
      BY <3>2
    <3> QED
      BY <3>1, <3>3 DEF Entry
  <2>4. Contract!Admit(c, fp, F)
    <3> DEFINE kept == [Entry EXCEPT ![c] = [status |-> "admitted", content |-> fp]]
    <3>1. \A d \in Ids \ F : Entry'[d] = kept[d]
      BY <1>1, <1>4, <2>3 DEF Entry
    <3>2. Entry' = [d \in Ids |-> IF d \in F THEN Contract!Forgotten ELSE kept[d]]
      BY <1>5, <3>1 DEF Entry
    <3> QED
      BY <1>6, <2>1, <2>2, <3>2 DEF Contract!Admit, Contract!Forgetting
  <2> QED
    BY <1>1, <1>2, <2>4 DEF Contract!Next
<1> QED
  BY <1>7, <1>8

(* What an update leaves on record.                                         *)
LEMMA MarkedEntry ==
  ASSUME TypeOK, NEW c \in Ids, NEW status, ledger' = Marked(c, status), UNCHANGED pruned,
         NoneAssumption
  PROVE  Entry' = IF c \in pruned \/ ~HasRow(c) THEN Entry
                  ELSE [Entry EXCEPT ![c].status = status]
<1> DEFINE new == [Entry EXCEPT ![c].status = status]
<1>1. \A d \in Ids \ {c} : ledger'[d] = ledger[d]
  BY MarkedRow
<1>2. c \in pruned \/ ~HasRow(c) => Entry'[c] = Entry[c]
  BY MarkedRow DEF Entry
<1>3. c \notin pruned /\ HasRow(c) => Entry'[c] = new[c]
  <2>1. c # None
    OBVIOUS
  <2>2. HasRow(c) => ledger'[c].status = status /\ ledger'[c].fingerprint = ledger[c].fingerprint
    BY <2>1, MarkedRow
  <2> QED
    BY <2>2 DEF Entry
<1>4. \A d \in Ids \ {c} : Entry'[d] = Entry[d]
  BY <1>1 DEF Entry
<1> QED
  BY <1>2, <1>3, <1>4 DEF Entry

(* An update records what may follow what is on record.                     *)
LEMMA UpdatesRefines ==
  ASSUME CInv, [Next]_vars, UNCHANGED aired,
         NEW q \in Requests, NEW status \in Final \union {"dispatching"}, Updates(q, status)
  PROVE  [Contract!Next]_(Contract!promise)
<1> USE NoneAssumption DEF CInv
<1> DEFINE c == req[q].id
<1>0. /\ status \in writes[q] /\ ledger' = Marked(c, status) /\ pruned' = pruned
      /\ pc[q] # "new" /\ req[q].via # "http"
  BY DEF Updates, Progress, Final
<1>1. UNCHANGED Runs
  BY <1>0, SameRuns DEF Runs
<1>2. CASE c \notin Ids
  <2>1. UNCHANGED ledger
    BY <1>0, <1>2, HolderId, RecorderHolds DEF Marked
  <2> QED
    BY <1>0, <1>1, <2>1 DEF Contract!promise, Entry
<1>3. CASE c \in Ids /\ (c \in pruned \/ ~HasRow(c))
  BY <1>0, <1>1, <1>3, MarkedEntry DEF Contract!promise
<1>4. CASE c \in Ids /\ c \notin pruned /\ HasRow(c)
  <2>1. Entry' = [Entry EXCEPT ![c].status = status]
    BY <1>0, <1>4, MarkedEntry
  <2>2. Holds(q)
    BY <1>0, <1>4, RecorderHolds
  <2>3. Entry[c].status = ledger[c].status /\ Runs[c] = {Run(r) : r \in Aired(c)}
    <3>1. Entry[c] = [status |-> ledger[c].status, content |-> ledger[c].fingerprint]
      BY <1>4 DEF Entry
    <3> QED
      BY <1>4, <3>1 DEF Runs
  <2>4. ledger[c].status = "admitted" => status # "completed"
    BY <1>0, <1>4, <2>2 DEF Orders, Early
  <2>5. status = "completed" => Runs[c] # {}
    <3>1. status = "completed" => q \in Aired(c)
      BY <1>0 DEF Progress, Aired, Commands
    <3> QED
      BY <2>3, <3>1
  <2>6. ledger[c].status \in {"completed", "failed"} => status = "uncertain"
    BY <1>0, <1>4, <2>2 DEF Outcomes
  <2>7. ledger[c].status \in {"admitted", "dispatching", "completed", "failed", "uncertain"}
    BY <1>4 DEF RowsInv, TypeOK, Rows, Final
  <2>8. status \in {"dispatching", "completed", "failed", "uncertain"}
    BY DEF Final
  <2>9. status \in Contract!Successors(c)
    BY <2>3, <2>4, <2>5, <2>6, <2>7, <2>8 DEF Contract!Successors
  <2>10. Contract!Record(c, status)
    BY <1>1, <2>1, <2>9 DEF Contract!Record
  <2> QED
    BY <1>4, <2>8, <2>10 DEF Contract!Next
<1> QED
  BY <1>2, <1>3, <1>4

(* The first execution of a request executes its command, and nothing of    *)
(* the identifier was executed before.                                      *)
LEMMA AirsRefines ==
  ASSUME CInv, [Next]_vars, NEW r \in Requests, Airs(r)
  PROVE  [Contract!Next]_(Contract!promise)
<1> USE NoneAssumption DEF CInv
<1> DEFINE c == req[r].id
<1>1. /\ UNCHANGED <<req, pruned>> /\ pc[r] # "new" /\ aired[r] = 0 /\ aired'[r] = 1
      /\ \A x \in Requests \ {r} : aired'[x] = aired[x]
  BY DEF Airs, TypeOK
<1>2. ledger' \in {ledger, Marked(c, "dispatching")}
  BY DEF Airs
<1>3. ASSUME NEW d \in Ids, d # c \/ req[r].via = "http" PROVE Runs'[d] = Runs[d]
  <2>1. Aired(d) \subseteq Requests \ {r} /\ Aired(d)' \subseteq Requests \ {r}
    BY <1>1, <1>3 DEF Aired, Commands
  <2>2. Aired(d)' = Aired(d) /\ \A x \in Aired(d) : Run(x)' = Run(x)
    BY <1>1, <2>1, SameAired
  <2> QED
    BY <1>1, <2>2 DEF Runs
<1>4. c \in Ids \union {None}
  BY <1>1, ArrivalsAssumption DEF Progress, Kinds
<1>5. "dispatching" \in writes[r] => req[r].via # "http"
  BY <1>1 DEF Progress
<1>6. CASE c = None \/ req[r].via = "http"
  <2>1. UNCHANGED ledger
    BY <1>5, <1>6 DEF Airs, Marked
  <2>2. UNCHANGED Runs
    BY <1>3, <1>6 DEF Runs
  <2> QED
    BY <1>1, <2>1, <2>2 DEF Contract!promise, Entry
<1>7. CASE c \in pruned
  <2>1. \A d \in Ids : Runs'[d] = Runs[d]
    BY <1>1, <1>3, <1>7 DEF Runs
  <2>2. UNCHANGED Entry
    <3>1. \A d \in Ids \ {c} : ledger'[d] = ledger[d]
      BY <1>2, MarkedRow
    <3> QED
      BY <1>1, <1>7, <3>1 DEF Entry
  <2> QED
    BY <2>1, <2>2 DEF Contract!promise, Runs
<1>8. CASE c \in Ids /\ c \notin pruned /\ req[r].via # "http"
  <2>1. Holds(r)
    BY <1>1, <1>8 DEF Airs, Holds, Fresh
  <2>2. /\ HasRow(c) /\ ledger[c].fingerprint = req[r].fingerprint
        /\ \A s \in Requests : Holds(s) /\ req[s].id = c => s = r
    BY <1>8, <2>1 DEF Reservations
  <2>3. Aired(c) = {} /\ Aired(c)' = {r}
    <3>1. \A x \in Aired(c) : x = r
      BY <1>8, <2>2, AiredHolds
    <3>2. r \in Aired(c)'
      BY <1>1, <1>8, RequestsLast DEF Aired, Commands
    <3>3. \A x \in Requests \ {r} : x \in Aired(c)' <=> x \in Aired(c)
      BY <1>1, <1>8, SameAired
    <3> QED
      BY <1>1, <3>1, <3>2, <3>3 DEF Aired, Commands
  <2>4. Runs[c] = {} /\ Runs' = [Runs EXCEPT ![c] = {Run(r)'}]
    <3>1. Runs[c] = {} /\ Runs'[c] = {Run(r)'}
      BY <1>1, <1>8, <2>3 DEF Runs
    <3> QED
      BY <1>3, <3>1 DEF Runs
  <2>5. Entry[c] = [status |-> ledger[c].status, content |-> req[r].fingerprint]
    BY <1>8, <2>2, EntryOf
  <2>6. ledger[c].status \in {"admitted", "dispatching", "failed", "uncertain"}
    <3>1. ledger[c].status # "completed"
      BY <1>8, <2>3 DEF CompletedWasAired
    <3> QED
      BY <1>8, <2>2, <3>1 DEF RowsInv, TypeOK, Rows, Final
  <2>7. ledger[c].status # "failed"
    <3>1. "dispatching" \in writes[r] => ledger[c].status # "failed"
      BY <1>8, <2>1 DEF Outcomes
    <3>2. worker.item = r => ledger[c].status # "failed"
      BY <1>8, <2>1 DEF Orders, Served
    <3> QED
      BY <3>1, <3>2 DEF Airs
  <2>8. /\ Entry' \in {Entry, [Entry EXCEPT ![c].status = "dispatching"]}
        /\ Entry'[c].status # "admitted"
    <3>1. CASE worker.item = r /\ UNCHANGED ledger
      <4>1. ledger[c].status # "admitted"
        BY <1>8, <2>1, <3>1 DEF Orders, Early, Fresh
      <4> QED
        BY <1>1, <1>8, <3>1, <4>1 DEF Entry
    <3>2. CASE ledger' = Marked(c, "dispatching")
      <4>1. Entry' = [Entry EXCEPT ![c].status = "dispatching"]
        BY <1>1, <1>8, <2>2, <3>2, MarkedEntry
      <4> QED
        BY <1>8, <4>1 DEF Entry
    <3> QED
      BY <3>1, <3>2 DEF Airs
  <2>9. Run(r)'.content = Entry[c].content
    BY <1>1, <2>5 DEF Run
  <2>10. Contract!Execute(c)
    <3>1. Entry[c].status \in {"admitted", "dispatching", "uncertain"}
      BY <2>5, <2>6, <2>7
    <3>2. Run(r)' \in Runs'[c]
      BY <1>8, <2>4 DEF Runs
    <3> QED
      BY <2>4, <2>8, <2>9, <3>1, <3>2 DEF Contract!Execute
  <2> QED
    BY <1>8, <2>10 DEF Contract!Next
<1> QED
  BY <1>4, <1>6, <1>7, <1>8

(* Every step of the bridge is a step of the contract or none.              *)
LEMMA ContractStep ==
  ASSUME CInv, [Next]_vars
  PROVE  [Contract!Next]_(Contract!promise)
<1>1. ASSUME NEW r \in Requests, Airs(r) PROVE [Contract!Next]_(Contract!promise)
  BY <1>1, AirsRefines
<1>2. ASSUME UNCHANGED aired, UNCHANGED <<ledger, pruned>> PROVE UNCHANGED Contract!promise
  BY <1>2, SameRuns DEF Entry, Runs, Contract!promise
<1>3. CASE UNCHANGED aired
  BY <1>2, <1>3, LedgerStep, InsertsRefines, UpdatesRefines DEF CInv, table
<1> QED
  BY <1>1, <1>3, AiringStep

(* The handlers, the ledger and the queue keep the promise of               *)
(* CommandContract: while an identifier is remembered, one execution of the *)
(* content it was first sent with, after 'dispatching', never after         *)
(* 'failed', and before 'completed' (reserve_command, CommandLedgerPolicy,  *)
(* _handle_tx_request, _worker_loop).                                       *)
THEOREM CommandsImplementContract == Spec => CommandsAreHonest
<1>1. Init => Contract!Init
  BY DEF Init, Entry, Runs, NoRow, Aired, Commands, Contract!Init, Contract!Unknown
<1>2. CInv /\ [Next]_vars => [Contract!Next]_(Contract!promise)
  BY ContractStep
<1> QED
  BY <1>1, <1>2, Invariance, PTL DEF Spec, CommandsAreHonest, Contract!Spec

-----------------------------------------------------------------------------
(* r will not go to the radio: it has been submitted or given up, the       *)
(* worker does not have it, and if it is queued its future is cancelled.    *)
Barred(r) ==
  /\ pc[r] \notin {"new", "reserve", "mark"}
  /\ worker.item # r
  /\ aired[r] = 0
  /\ r \in queue => future[r] = "cancelled"

(* Nobody revives a cancelled future, and no other request's submission     *)
(* brings r into the queue.                                                 *)
LEMMA EnqueueBars ==
  ASSUME TypeOK, NEW r \in Requests, NEW q \in Requests, q # r, Enqueue(q)
  PROVE  /\ r \in queue' => r \in queue
         /\ future[r] = "cancelled" => future'[r] = "cancelled"
<1>1. CASE UNCHANGED <<queue, counter>> /\ future' = [future EXCEPT ![q] = "exception"]
  BY <1>1 DEF TypeOK
<1>2. CASE /\ future' = [Failed(future, Victims) EXCEPT ![q] = "pending"]
           /\ queue' = (queue \ Victims) \union {q}
  <2>1. Failed(future, Victims)[r] = "cancelled" \/ future[r] # "cancelled"
    BY DEF Failed, Settled
  <2>2. future'[r] = Failed(future, Victims)[r]
    BY <1>2 DEF Failed, Settled
  <2> QED
    BY <1>2, <2>1, <2>2
<1> QED
  BY <1>1, <1>2 DEF Enqueue

(* What is barred stays barred.                                             *)
LEMMA BarredStep ==
  ASSUME CInv, NEW r \in Requests, Barred(r), [Next]_vars
  PROVE  Barred(r)'
<1>0. TypeOK /\ WorkerInv /\ Progress(r)
  BY DEF CInv
<1> DEFINE Still == /\ pc'[r] \notin {"new", "reserve", "mark"}
                    /\ worker'.item # r
                    /\ aired'[r] = 0
                    /\ r \in queue' => r \in queue
                    /\ future[r] = "cancelled" => future'[r] = "cancelled"
<1>1. ASSUME NEW q \in Requests, NEW kind \in Arrivals, Arrive(q, kind) PROVE Still
  BY <1>0, <1>1 DEF Arrive, Record, Goto, Barred, limiter, history, TypeOK
<1>2. ASSUME NEW q \in Requests, NEW kind \in Arrivals, SubmitChat(q, kind) PROVE Still
  <2>1. q # r
    BY <1>2 DEF SubmitChat, Barred
  <2> QED
    BY <1>0, <1>2, <2>1, EnqueueBars DEF SubmitChat, Goto, Barred, history, TypeOK
<1>3. ASSUME NEW q \in Requests, Reserve(q) \/ ReserveFails(q) PROVE Still
  <2>1. UNCHANGED <<worker, queue, future, aired>>
    BY <1>3 DEF Reserve, ReserveFails, limiter, history
  <2>2. pc'[r] \in {pc[r], "done"}
    BY <1>0, <1>3 DEF Reserve, ReserveFails, Goto, Barred, TypeOK
  <2> QED
    BY <2>1, <2>2 DEF Barred
<1>4. ASSUME NEW q \in Requests, MarkDispatching(q) PROVE Still
  <2>1. CASE q = r
    <3>1. UNCHANGED <<pc, future, queue, aired, worker>>
      BY <1>4, <2>1 DEF MarkDispatching, Barred
    <3> QED
      BY <3>1 DEF Barred
  <2>2. CASE q # r
    <3>1. UNCHANGED worker /\ pc'[r] = pc[r] /\ aired'[r] = aired[r]
      BY <1>0, <1>4, <2>2 DEF MarkDispatching, Goto, TypeOK
    <3>2. Enqueue(q) \/ UNCHANGED <<future, queue>>
      BY <1>4 DEF MarkDispatching
    <3> QED
      BY <1>0, <2>2, <3>1, <3>2, EnqueueBars DEF Barred
  <2> QED
    BY <2>1, <2>2
<1>5. ASSUME NEW q \in Requests, MarkDispatchingFails(q) PROVE Still
  BY <1>0, <1>5 DEF MarkDispatchingFails, Goto, Barred, limiter, history, TypeOK
<1>6. ASSUME NEW q \in Requests, Resume(q) PROVE Still
  <2>1. UNCHANGED <<worker, queue, aired>>
    BY <1>6 DEF Resume, limiter, history
  <2>2. pc'[r] \in {pc[r], "done", "record", "final"}
    BY <1>0, <1>6 DEF Resume, Record, Goto, TypeOK
  <2>3. future[r] = "cancelled" => future'[r] = "cancelled"
    BY <1>6 DEF Resume, Settled
  <2> QED
    BY <2>1, <2>2, <2>3 DEF Barred
<1>7. ASSUME NEW q \in Requests, TimeOut(q) PROVE Still
  <2>1. UNCHANGED <<worker, queue, aired>>
    BY <1>7 DEF TimeOut, limiter, history
  <2>2. pc'[r] \in {pc[r], "done", "final"}
    BY <1>0, <1>7 DEF TimeOut, Record, Goto, TypeOK
  <2>3. future[r] = "cancelled" => future'[r] = "cancelled"
    BY <1>7 DEF TimeOut, Settled
  <2> QED
    BY <2>1, <2>2, <2>3 DEF Barred
<1>8. ASSUME NEW q \in Requests, AdminDone(q) PROVE Still
  <2>1. pc'[r] \in {pc[r], "final"}
    BY <1>0, <1>8 DEF AdminDone, Record, Goto, TypeOK
  <2> QED
    BY <1>8, <2>1 DEF AdminDone, Barred, limiter, history
<1>9. ASSUME NEW q \in Requests, NEW status \in Final, RecordResult(q, status) PROVE Still
  <2>1. pc'[r] \in {pc[r], "done"}
    BY <1>0, <1>9 DEF RecordResult, Goto, TypeOK
  <2> QED
    BY <1>9, <2>1 DEF RecordResult, Barred, limiter, history
<1>10. ASSUME NEW q \in Requests, Take(q) PROVE Still
  <2>1. UNCHANGED <<pc, aired>> /\ queue' = queue \ {q}
    BY <1>10 DEF Take, handlers, history
  <2>2. worker'.item # r
    <3>1. q = r => PassedOver(q)
      BY <1>10 DEF Take, Barred, PassedOver
    <3> QED
      BY <1>10, <3>1 DEF Take, Barred
  <2>3. future[r] = "cancelled" => future'[r] = "cancelled"
    BY <1>10 DEF Take, Failed, Settled
  <2> QED
    BY <2>1, <2>2, <2>3 DEF Barred
<1>11. CASE Publish \/ Send \/ Finish
  <2>1. UNCHANGED <<pc, queue>>
    BY <1>11 DEF Publish, Send, Finish, Return, handlers
  <2>2. r # None
    BY NoneAssumption
  <2>3. worker'.item # r
    BY <1>0, <1>11, <2>2 DEF Publish, Send, Finish, Return, Idle, Barred, TypeOK
  <2>4. aired'[r] = 0
    BY <1>0, <1>11 DEF Publish, Send, Finish, Return, Barred, history, TypeOK
  <2>5. future[r] = "cancelled" => future'[r] = "cancelled"
    BY <1>11 DEF Publish, Send, Finish, Return, Settled
  <2> QED
    BY <2>1, <2>3, <2>4, <2>5 DEF Barred
<1>12. CASE Close
  <2>1. pc'[r] \in {pc[r], "final", "done"}
    BY <1>12 DEF Close
  <2>2. future[r] = "cancelled" => future'[r] = "cancelled"
    BY <1>12 DEF Close, Settled
  <2> QED
    BY <1>12, <2>1, <2>2 DEF Close, Barred, limiter, history
<1>13. CASE Stop \/ Crash
  <2>1. pc'[r] \notin {"new", "reserve", "mark"} /\ queue' = {} /\ worker' = Idle
    BY <1>13 DEF Stop, Crash, Barred
  <2>2. aired'[r] = 0 /\ r # None
    BY <1>13, NoneAssumption DEF Stop, Crash, Barred, history
  <2> QED
    BY <2>1, <2>2 DEF Barred, Idle
<1>14. CASE Start \/ UNCHANGED vars
  BY <1>14 DEF Start, vars, handlers, limiter, history, Barred
<1>15. Still \/ Barred(r)'
  BY <1>1, <1>2, <1>3, <1>4, <1>5, <1>6, <1>7, <1>8, <1>9, <1>10, <1>11, <1>12, <1>13,
     <1>14 DEF Next, SteadyNext, Worker, Handler
<1>16. Still => Barred(r)'
  BY DEF Barred
<1> QED
  BY <1>15, <1>16

(* An item cancelled while it is queued never goes to the radio, whatever   *)
(* ends, stops or starts again (cancel_by_request_id, _worker_loop).        *)
THEOREM CancelledStayUnsent == Spec => CancelledIsNotSent
<1>1. ASSUME NEW r \in Requests
      PROVE  Spec => []((r \in queue /\ future[r] = "cancelled") => [](aired[r] = 0))
  <2>1. CInv /\ r \in queue /\ future[r] = "cancelled" => Barred(r)
    BY DEF CInv, Progress, Fresh, Barred
  <2>2. CInv /\ Barred(r) /\ [Next]_vars => Barred(r)'
    BY BarredStep
  <2>3. Barred(r) => aired[r] = 0
    BY DEF Barred
  <2> QED
    BY <2>1, <2>2, <2>3, Invariance, PTL DEF Spec
<1> QED
  BY <1>1 DEF CancelledIsNotSent
-----------------------------------------------------------------------------
(* Nobody forgets an open command, between a start and a stop and without   *)
(* failures of storage: what remains to be done for it is in somebody's      *)
(* hands, and it is what the fairness of FairSteadySpec is about.           *)

(* The handler of r, or a write it left, takes the command c further.       *)
Attends(r, c) ==
  /\ pc[r] # "new" /\ req[r].via # "http" /\ req[r].id = c
  /\ IF ledger[c].status = "admitted" THEN pc[r] = "mark"
     ELSE pc[r] \in {"waiting", "admin"} \/ writes[r] \intersect Final # {}
Open(c) == ledger[c].status \in {"admitted", "dispatching"}
Attended ==
  /\ \A r \in Requests : /\ "admitted" \in writes[r] => pc[r] = "reserve"
                         /\ "dispatching" \in writes[r] => pc[r] = "mark"
  /\ \A c \in Ids : Open(c) => \E r \in Requests : Attends(r, c)

(* A step of q attends as before to the commands whose row it leaves alone, *)
(* if it attended to none of them itself.                                   *)
LEMMA AttendedFrame ==
  ASSUME NEW q \in Requests, NEW c \in Ids, ~Attends(q, c),
         Open(c) => \E r \in Requests : Attends(r, c),
         ledger'[c].status = ledger[c].status, Open(c)',
         \A x \in Requests \ {q} : /\ pc[x] # "new" => req'[x] = req[x]
                                  /\ pc'[x] = pc[x] /\ writes'[x] = writes[x]
  PROVE  \E r \in Requests : Attends(r, c)'
<1>1. PICK r \in Requests \ {q} : Attends(r, c)
  BY DEF Open
<1>2. Attends(r, c)'
  BY <1>1 DEF Attends
<1> QED
  BY <1>2

(* Every step of the running bridge leaves the open commands attended.      *)
LEMMA AttendedStep ==
  ASSUME CInv, Attended, ~StorageFaults, [SteadyNext]_vars
  PROVE  Attended'
<1> USE NoneAssumption, ArrivalsAssumption DEF CInv
<1> DEFINE Mine(r) == /\ "admitted" \in writes[r] => pc[r] = "reserve"
                      /\ "dispatching" \in writes[r] => pc[r] = "mark"
           Others(q) == \A x \in Requests \ {q} : /\ pc[x] # "new" => req'[x] = req[x]
                                                 /\ pc'[x] = pc[x] /\ writes'[x] = writes[x]
<1>0. ASSUME NEW q \in Requests, Others(q), Mine(q)',
             \A c \in Ids : Open(c)' =>
               \/ Attends(q, c)'
               \/ ~Attends(q, c) /\ ledger'[c].status = ledger[c].status
      PROVE  Attended'
  <2>1. \A x \in Requests : Mine(x)'
    BY <1>0 DEF Attended
  <2>2. ASSUME NEW c \in Ids, Open(c)' PROVE \E r \in Requests : Attends(r, c)'
    BY <1>0, <2>2, AttendedFrame DEF Attended
  <2> QED
    BY <2>1, <2>2 DEF Attended
<1>1. ASSUME NEW q \in Requests, NEW kind \in Arrivals, Arrive(q, kind) PROVE Attended'
  <2>1. Others(q) /\ Mine(q)' /\ UNCHANGED ledger
    BY <1>1 DEF Arrive, Record, Goto, Progress, TypeOK, table
  <2>2. \A c \in Ids : ~Attends(q, c)
    BY <1>1 DEF Arrive, Attends
  <2> QED
    BY <1>0, <2>1, <2>2
<1>2. ASSUME NEW q \in Requests, NEW kind \in Arrivals, SubmitChat(q, kind) PROVE Attended'
  <2>1. Others(q) /\ Mine(q)' /\ UNCHANGED ledger
    BY <1>2 DEF SubmitChat, Goto, Progress, TypeOK, table
  <2>2. \A c \in Ids : ~Attends(q, c)
    BY <1>2 DEF SubmitChat, Attends
  <2> QED
    BY <1>0, <2>1, <2>2
<1>3. ASSUME NEW q \in Requests, Reserve(q) PROVE Attended'
  <2> DEFINE d == req[q].id
             fp == req[q].fingerprint
  <2>1. Others(q) /\ pc[q] = "reserve" /\ writes[q] = {"admitted"} /\ req' = req
    BY <1>3 DEF Reserve, Goto, Attended, Progress, TypeOK
  <2>2. Mine(q)' /\ ~(\E c \in Ids : Attends(q, c))
    BY <1>3, <2>1 DEF Reserve, Goto, Attends, Final, TypeOK
  <2>3. CASE d # None /\ ~Reserved(d, fp)
    <3>1. d \in Ids /\ req[q].via # "http"
      BY <2>1, <2>3 DEF Progress, Kinds
    <3>2. Inserts(q)
      BY <1>3, <2>1, <2>3, <3>1 DEF Inserts, Reserve, Reserved, Goto, TypeOK, Recorded
    <3>3. pc'[q] = "mark"
      BY <1>3, <2>1, <2>3 DEF Reserve, Goto, TypeOK
    <3>4. ASSUME NEW c \in Ids, Open(c)' PROVE Attends(q, c)' \/ ledger'[c].status = ledger[c].status
      <4>1. CASE c = d
        <5>1. ledger'[c].status = "admitted"
          BY <3>1, <3>2, <3>4, <4>1, InsertedStatus DEF Open, RowsInv, Inserts
        <5> QED
          BY <2>1, <3>1, <3>3, <4>1, <5>1 DEF Attends
      <4>2. CASE c # d
        BY <3>2, <3>4, <4>2, InsertedStatus DEF Open
      <4> QED
        BY <4>1, <4>2
    <3> QED
      BY <1>0, <2>1, <2>2, <3>4
  <2>4. CASE d = None \/ Reserved(d, fp)
    <3>1. UNCHANGED ledger
      BY <1>3, <2>4 DEF Reserve, table
    <3> QED
      BY <1>0, <2>1, <2>2, <3>1
  <2> QED
    BY <2>3, <2>4
<1>4. ASSUME NEW q \in Requests, MarkDispatching(q) PROVE Attended'
  <2>1. /\ pc[q] = "mark" /\ writes[q] = {"dispatching"} /\ req' = req
        /\ req[q].via # "http" /\ ledger' = Marked(req[q].id, "dispatching")
    BY <1>4 DEF MarkDispatching, Attended, Progress
  <2>2. Others(q) /\ pc'[q] \in {"waiting", "admin"} /\ writes'[q] = {}
    BY <1>4, <2>1 DEF MarkDispatching, Goto, TypeOK
  <2>3. ASSUME NEW c \in Ids, Open(c)'
        PROVE  Attends(q, c)' \/ (~Attends(q, c) /\ ledger'[c].status = ledger[c].status)
    <3>1. CASE c = req[q].id
      <4>1. HasRow(c)
        BY <2>1, <2>3, MarkedRow DEF Open, RowsInv
      <4>2. ledger'[c].status = "dispatching"
        BY <2>1, <3>1, <4>1, MarkedRow
      <4> QED
        BY <2>1, <2>2, <3>1, <4>2 DEF Attends
    <3>2. CASE c # req[q].id
      BY <2>1, <3>2, MarkedRow DEF Attends
    <3> QED
      BY <3>1, <3>2
  <2> QED
    BY <1>0, <2>2, <2>3
<1>5. ASSUME NEW q \in Requests, Resume(q) \/ TimeOut(q) \/ AdminDone(q) PROVE Attended'
  <2>1. UNCHANGED <<req, ledger>> /\ Others(q) /\ writes[q] = {} /\ pc[q] \in {"waiting", "admin"}
    BY <1>5 DEF Resume, TimeOut, TimesOut, AdminDone, Record, Goto, Progress, table, TypeOK
  <2>2. \/ req[q].via = "http" /\ writes'[q] = {}
        \/ \E status \in Final : writes'[q] = {status} /\ pc'[q] # "new"
    BY <1>5, <2>1 DEF Resume, TimeOut, AdminDone, Record, Goto, OutcomeOf, Final, TypeOK, Progress
  <2>3. Mine(q)'
    BY <2>2 DEF Final
  <2>4. ASSUME NEW c \in Ids, Open(c)' PROVE Attends(q, c)' \/ ~Attends(q, c)
    BY <2>1, <2>2 DEF Attends
  <2> QED
    BY <1>0, <2>1, <2>3, <2>4
<1>6. ASSUME NEW q \in Requests, NEW status \in Final, RecordResult(q, status) PROVE Attended'
  <2>1. /\ status \in writes[q] /\ ledger' = Marked(req[q].id, status) /\ req' = req
        /\ Others(q) /\ writes'[q] = writes[q] \ {status}
    BY <1>6 DEF RecordResult, Goto, TypeOK
  <2>2. "admitted" \notin writes[q] /\ "dispatching" \notin writes[q]
    BY <2>1 DEF Attended, Progress, Final
  <2>3. ASSUME NEW c \in Ids, Open(c)'
        PROVE  ~Attends(q, c) /\ ledger'[c].status = ledger[c].status
    <3>1. c # req[q].id
      <4>1. SUFFICES ASSUME c = req[q].id PROVE FALSE
        OBVIOUS
      <4>2. HasRow(c)
        BY <2>1, <2>3, MarkedRow DEF Open, RowsInv
      <4>3. ledger'[c].status = status
        BY <2>1, <4>1, <4>2, MarkedRow
      <4> QED
        BY <2>3, <4>3 DEF Open, Final
    <3> QED
      BY <2>1, <3>1, MarkedRow DEF Attends
  <2> QED
    BY <1>0, <2>1, <2>2, <2>3
<1>7. CASE UNCHANGED <<handlers, table>>
  BY <1>7 DEF handlers, table, Attended, Attends, Open
<1>8. \/ \E q \in Requests :
            \/ \E kind \in Arrivals : Arrive(q, kind) \/ SubmitChat(q, kind)
            \/ Reserve(q) \/ MarkDispatching(q)
            \/ Resume(q) \/ TimeOut(q) \/ AdminDone(q)
            \/ \E status \in Final : RecordResult(q, status)
      \/ UNCHANGED <<handlers, table>>
  BY DEF SteadyNext, Handler, Worker, ReserveFails, MarkDispatchingFails, Take, Publish, Send,
     Finish, Return, vars
<1> QED
  BY <1>1, <1>2, <1>3, <1>4, <1>5, <1>6, <1>7, <1>8

(* Between a start and a stop, and while the database answers, an open      *)
(* command is never orphaned: an 'admitted' row has a handler about to mark *)
(* it and a 'dispatching' one a handler that waits for the radio, or whose  *)
(* outcome is being written (_handle_tx_request, CommandLedgerPolicy).      *)
THEOREM CommandsAttended ==
  ASSUME ~StorageFaults
  PROVE  FairSteadySpec => [](\A c \in Ids : Open(c) => \E r \in Requests : Attends(r, c))
<1>1. Init => CInv /\ Attended
  BY InitCInv DEF Init, Attended, Open, NoRow
<1>2. (CInv /\ Attended) /\ [SteadyNext]_vars => (CInv /\ Attended)'
  <2>1. [SteadyNext]_vars => [Next]_vars
    BY DEF Next
  <2> QED
    BY <2>1, StepCInv, AttendedStep
<1>3. CInv /\ Attended => \A c \in Ids : Open(c) => \E r \in Requests : Attends(r, c)
  BY DEF Attended
<1> QED
  BY <1>1, <1>2, <1>3, PTL DEF FairSteadySpec
=============================================================================
