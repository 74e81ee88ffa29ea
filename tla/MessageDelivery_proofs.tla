----------------------- MODULE MessageDelivery_proofs -----------------------
(***************************************************************************)
(* Proofs about MessageDelivery, for every value of its constants.         *)
(*                                                                         *)
(* The inductive invariant IInv joins the types (TypeOK), the data that a  *)
(* running call or ACK handler relies on (ItemsInUse), the owner of every  *)
(* code (CodesAreOwned) and the ACK behind every delivery                  *)
(* (ReceiptsAreBacked). The last two are what makes the receipts           *)
(* inductive: consume_pending_ack shows as delivered whatever message the  *)
(* code correlates with, so every place that holds a correlation has to    *)
(* hold one that was on the air.                                           *)
(***************************************************************************)
EXTENDS MessageDelivery, TLAPS

(* A running call has a message, and so has an ACK about to be published.  *)
ItemsInUse ==
  /\ \A p \in Callers : pc[p] # "idle" \/ code[p] # None => item[p] # None
  /\ \A c \in Codes : rx[c] = "deliver" => rx_msg[c] # None

(* The parts of TypeOK about execute_tx and about the retry loop.           *)
CallsTyped ==
  /\ pc \in [Callers -> Steps]
  /\ item \in [Callers -> Msgs \union {None}]
  /\ code \in [Callers -> Codes \union {None}]
  /\ sent_ok \in [Callers -> BOOLEAN]
  /\ revoke \in [Callers -> BOOLEAN]
LoopTyped == next_attempt \in Nat /\ batch \in [Msgs -> Rows]

(* An empty row is a row, and a batch without items a batch.               *)
LEMMA RowTypes ==
  /\ NoRow \in Rows
  /\ NoBatch \in [Msgs -> Rows]
BY DEF NoRow, Rows, NoBatch

(* The status that _write_message or update_delivery leaves is a status.   *)
LEMMA WrittenType ==
  ASSUME NEW m \in Msgs, NEW s \in Statuses, TypeOK
  PROVE  Written(m, s) \in Statuses /\ Updated(m, s) \in Statuses
BY DEF Written, Updated, Statuses, TypeOK

(* schedule_retry leaves well-typed tables.                                *)
LEMMA ScheduledType ==
  ASSUME TypeOK, NEW m \in Msgs, NEW k \in Nat, NEW marked \in BOOLEAN
  PROVE  /\ ScheduledRows(m, k) \in [Msgs -> Rows]
         /\ ScheduledMessages(m, k, marked) \in [Msgs -> Statuses]
<1>1. NewRow(k) \in Rows
  BY RetriesAssumption DEF NewRow, Rows, TypeOK
<1>2. Updated(m, "retrying") \in Statuses
  BY WrittenType DEF Statuses
<1> QED
  BY <1>1, <1>2 DEF ScheduledRows, ScheduledMessages, TypeOK

(* The locals of a call stay typed when execute_tx starts ...              *)
LEMMA BeginType ==
  ASSUME CallsTyped, NEW p \in Callers, NEW m \in Msgs, Begin(p, m)
  PROVE  CallsTyped'
BY DEF Begin, CallsTyped, Steps

(* ... when it returns ...                                                 *)
LEMMA EndType ==
  ASSUME CallsTyped, NEW p \in Callers, End(p)
  PROVE  CallsTyped'
BY DEF End, CallsTyped, Steps

(* ... and when an exception leaves it.                                    *)
LEMMA ThrowType ==
  ASSUME CallsTyped, LoopTyped, NEW p \in Callers, Throw(p)
  PROVE  CallsTyped' /\ LoopTyped'
<1>1. CallsTyped'
  BY EndType DEF Throw
<1>2. LoopTyped'
  BY RowTypes DEF Throw, LoopTyped, loop
<1> QED
  BY <1>1, <1>2

(* So do the tables and the locals of the loop over a pass of it.          *)
LEMMA DispatchType ==
  ASSUME TypeOK, NEW D \in [Msgs -> Rows], NEW rows \in [Msgs -> Rows],
         NEW msgs \in [Msgs -> Statuses], Dispatch(D, rows, msgs)
  PROVE  /\ pending_retries' \in [Msgs -> Rows]
         /\ messages' \in [Msgs -> Statuses]
         /\ CallsTyped' /\ LoopTyped'
<1> DEFINE Pending == {m \in Msgs : HasRow(D, m)}
           Lost    == {m \in Pending : BusyHistory /\ msgs[m] = "delivered"}
<1>1. PICK settled \in SUBSET Pending, missed \in SUBSET Lost, marked \in [Msgs -> Marked] :
        LET Seen(m) == msgs[m] = "delivered" /\ m \notin missed
            Exhausted(m) == ~Seen(m) /\ OutOfAttempts(D[m])
        IN
        /\ \A m \in settled : Seen(m) \/ Exhausted(m)
        /\ pending_retries' = [m \in Msgs |-> IF m \in settled THEN NoRow ELSE rows[m]]
        /\ messages' = [m \in Msgs |->
                          IF m \in settled /\ Exhausted(m) /\ marked[m] /\ msgs[m] # "absent"
                          THEN Written(m, "failed") ELSE msgs[m]]
        /\ \/ /\ settled = Pending \/ StorageFaults
              /\ batch' = NoBatch
              /\ next_attempt' = 0
              /\ End("loop")
           \/ \E m \in Pending \ settled :
                /\ ~Seen(m) /\ ~Exhausted(m)
                /\ batch' = [n \in Msgs |-> IF n \in settled \union {m} THEN NoRow ELSE D[n]]
                /\ next_attempt' = D[m].attempt + 1
                /\ Begin("loop", m)
  BY DEF Dispatch
<1>2. pending_retries' \in [Msgs -> Rows]
  BY <1>1, RowTypes
<1>3. messages' \in [Msgs -> Statuses]
  BY <1>1, WrittenType DEF Statuses
<1>4. CallsTyped /\ "loop" \in Callers
  BY DEF CallsTyped, TypeOK, Callers
<1>5. CASE /\ batch' = NoBatch
           /\ next_attempt' = 0
           /\ End("loop")
  BY <1>2, <1>3, <1>4, <1>5, RowTypes, EndType DEF LoopTyped
<1>6. CASE \E m \in Pending \ settled :
             /\ batch' = [n \in Msgs |-> IF n \in settled \union {m} THEN NoRow ELSE D[n]]
             /\ next_attempt' = D[m].attempt + 1
             /\ Begin("loop", m)
  <2>1. PICK m \in Msgs :
             /\ batch' = [n \in Msgs |-> IF n \in settled \union {m} THEN NoRow ELSE D[n]]
             /\ next_attempt' = D[m].attempt + 1
             /\ Begin("loop", m)
    BY <1>6
  <2>2. LoopTyped'
    BY <2>1, RowTypes DEF LoopTyped, Rows
  <2> QED
    BY <1>2, <1>3, <1>4, <2>1, <2>2, BeginType
<1> QED
  BY <1>1, <1>5, <1>6

(* p takes up a call or drops one: it holds no code.                        *)
Fresh(p) ==
  /\ code' = [code EXCEPT ![p] = None]
  /\ \/ pc' = [pc EXCEPT ![p] = "idle"] /\ item' = [item EXCEPT ![p] = None]
     \/ \E m \in Msgs : pc' = [pc EXCEPT ![p] = "queued"] /\ item' = [item EXCEPT ![p] = m]

(* Whatever starts or ends a call leaves it without a code.                *)
LEMMA FreshCalls ==
  /\ \A p \in Callers, m \in Msgs : Begin(p, m) => Fresh(p)
  /\ \A p \in Callers : End(p) => Fresh(p)
  /\ \A p \in Callers : Throw(p) => Fresh(p)
BY DEF Begin, End, Throw, Fresh

(* So does a pass of the loop, for the call of the loop.                   *)
LEMMA FreshDispatch ==
  ASSUME NEW D, NEW rows, NEW msgs, Dispatch(D, rows, msgs)
  PROVE  Fresh("loop")
<1>1. \/ End("loop")
      \/ \E m \in Msgs : Begin("loop", m)
  BY DEF Dispatch
<1> QED
  BY <1>1 DEF Begin, End, Fresh

(* Every step keeps the types, one case per action.                        *)
LEMMA TypeStep == ASSUME TypeOK, ItemsInUse, [Next]_vars PROVE TypeOK'
<1> USE NoneAssumption, RetriesAssumption, CapacityAssumption, CallersAssumption,
        SwitchAssumption
<1>0. CallsTyped /\ LoopTyped /\ "loop" \in Callers /\ "worker" \in Callers
      /\ Resenders \subseteq Callers
  BY DEF CallsTyped, LoopTyped, TypeOK, Callers
<1>1. ASSUME NEW p \in Callers, ExecuteTx(p) PROVE TypeOK'
  <2> item[p] \in Msgs \/ pc[p] = "idle"
    BY DEF TypeOK, ItemsInUse
  <2>1. CASE Refuse(p)
    BY <2>1 DEF Refuse, Goto, Steps, tables, config, loop, acks, mesh, TypeOK
  <2>2. CASE PublishQueued(p)
    BY <2>2 DEF PublishQueued, Goto, Steps, Written, Statuses, config, loop, acks, mesh, TypeOK
  <2>3. CASE PublishQueuedFails(p)
    <3>1. CallsTyped' /\ LoopTyped'
      BY <2>3, <1>0, ThrowType DEF PublishQueuedFails
    <3>2. UNCHANGED <<tables, tracker, config, acks, mesh>>
      BY <2>3 DEF PublishQueuedFails
    <3> QED
      BY <3>1, <3>2 DEF CallsTyped, LoopTyped, tables, config, acks, mesh, TypeOK
  <2>4. CASE Transmit(p)
    <3>1. PICK c \in Codes \union {None} :
             /\ code' = [code EXCEPT ![p] = c]
             /\ onAir' = [onAir EXCEPT ![item[p]] = @ \union ({c} \ {None})]
      BY <2>4 DEF Transmit
    <3>2. onAir' \in [Msgs -> SUBSET Codes]
      BY <3>1 DEF TypeOK
    <3>3. spent' \in [Msgs -> 0..MaxSpent]
      BY <2>4 DEF Transmit, TypeOK
    <3>4. code' \in [Callers -> Codes \union {None}]
      BY <3>1 DEF TypeOK
    <3> QED
      BY <2>4, <3>2, <3>3, <3>4 DEF Transmit, Goto, Steps, tables, config, loop, acks, TypeOK
  <2>5. CASE SendFails(p)
    BY <2>5 DEF SendFails, Goto, Steps, tables, config, loop, acks, mesh, TypeOK
  <2>6. CASE Register(p)
    BY <2>6 DEF Register, Goto, Steps, tables, config, loop, acks, mesh, TypeOK
  <2>7. CASE SavePendingAck(p)
    BY <2>7 DEF SavePendingAck, Goto, Steps, PrunedAcks, PrunedEvents, config, loop, acks, mesh, TypeOK
  <2>8. CASE SavePendingAckFails(p)
    BY <2>8 DEF SavePendingAckFails, Goto, Steps, tables, config, loop, acks, mesh, TypeOK
  <2>9. CASE ScheduleFirst(p)
    <3>1. item[p] \in Msgs
      BY <2>9 DEF ScheduleFirst, TypeOK, ItemsInUse
    <3>2. pending_retries' \in [Msgs -> Rows] /\ messages' \in [Msgs -> Statuses]
      <4>1. PICK marked \in Marked : messages' = ScheduledMessages(item[p], 1, marked)
        BY <2>9 DEF ScheduleFirst
      <4>2. pending_retries' = ScheduledRows(item[p], 1) /\ marked \in BOOLEAN
        BY <2>9 DEF ScheduleFirst, Marked
      <4> QED
        BY <3>1, <4>1, <4>2, ScheduledType
    <3>3. tracker' \in [Codes -> Msgs \union {None}]
      BY <2>9 DEF ScheduleFirst, Resumed, TypeOK
    <3> QED
      BY <2>9, <3>2, <3>3 DEF ScheduleFirst, Goto, Steps, config, loop, acks, mesh, TypeOK
  <2>10. CASE ScheduleFirstFails(p)
    <3>1. CallsTyped' /\ LoopTyped'
      BY <2>10, <1>0, ThrowType DEF ScheduleFirstFails
    <3>2. tracker' \in [Codes -> Msgs \union {None}]
      BY <2>10 DEF ScheduleFirstFails, Resumed, TypeOK
    <3>3. UNCHANGED <<tables, config, acks, mesh>>
      BY <2>10 DEF ScheduleFirstFails
    <3> QED
      BY <3>1, <3>2, <3>3 DEF CallsTyped, LoopTyped, tables, config, acks, mesh, TypeOK
  <2>11. CASE PublishOutcome(p)
    BY <2>11 DEF PublishOutcome, Goto, Steps, Written, Statuses, Outcome, config, loop, acks, mesh, TypeOK
  <2> QED
    BY <1>1, <2>1, <2>2, <2>3, <2>4, <2>5, <2>6, <2>7, <2>8, <2>9, <2>10, <2>11 DEF ExecuteTx
<1>2. CASE WorkerDone
  BY <1>2, <1>0, EndType DEF WorkerDone, CallsTyped, tables, config, loop, acks, mesh, TypeOK
<1>3. CASE Poll
  <2> DEFINE Due == {m \in Msgs : HasRow(pending_retries, m) /\ pending_retries[m].due}
             D == [m \in Msgs |-> IF m \in Due THEN pending_retries[m] ELSE NoRow]
  <2>1. D \in [Msgs -> Rows]
    BY RowTypes DEF TypeOK
  <2>2. Dispatch(D, pending_retries, messages)
    BY <1>3 DEF Poll
  <2> HIDE DEF D
  <2>3. /\ pending_retries' \in [Msgs -> Rows] /\ messages' \in [Msgs -> Statuses]
        /\ CallsTyped' /\ LoopTyped'
    BY <2>1, <2>2, DispatchType DEF TypeOK
  <2> QED
    BY <1>3, <2>3 DEF Poll, CallsTyped, LoopTyped, config, acks, mesh, TypeOK
<1>4. CASE LoopDone
  <2>1. item["loop"] \in Msgs
    BY <1>0, <1>4 DEF LoopDone, TypeOK, ItemsInUse
  <2>2. PICK marked \in Marked :
          Dispatch(batch, ScheduledRows(item["loop"], next_attempt),
                   ScheduledMessages(item["loop"], next_attempt, marked))
    BY <1>4 DEF LoopDone
  <2>3. /\ ScheduledRows(item["loop"], next_attempt) \in [Msgs -> Rows]
        /\ ScheduledMessages(item["loop"], next_attempt, marked) \in [Msgs -> Statuses]
    BY <2>1, <1>0, ScheduledType DEF LoopTyped, Marked
  <2>4. /\ pending_retries' \in [Msgs -> Rows] /\ messages' \in [Msgs -> Statuses]
        /\ CallsTyped' /\ LoopTyped'
    BY <2>2, <2>3, DispatchType DEF TypeOK
  <2> QED
    BY <1>4, <2>4 DEF LoopDone, CallsTyped, LoopTyped, config, acks, mesh, TypeOK
<1>5. CASE LoopDoneFails
  <2>1. CallsTyped' /\ LoopTyped'
    BY <1>5, <1>0, ThrowType DEF LoopDoneFails
  <2> QED
    BY <1>5, <2>1 DEF LoopDoneFails, CallsTyped, LoopTyped, tables, config, acks, mesh, TypeOK
<1>6. ASSUME NEW r \in Resenders, ResendDone(r) PROVE TypeOK'
  <2>1. item[r] \in Msgs
    BY <1>0, <1>6 DEF ResendDone, TypeOK, ItemsInUse
  <2>2. pending_retries' \in [Msgs -> Rows] /\ messages' \in [Msgs -> Statuses]
    <3>1. CASE UNCHANGED <<pending_retries, messages>>
      BY <3>1 DEF TypeOK
    <3>2. CASE /\ pending_retries' = ScheduledRows(item[r], 1)
               /\ \E marked \in Marked : messages' = ScheduledMessages(item[r], 1, marked)
      <4>1. PICK marked \in Marked : messages' = ScheduledMessages(item[r], 1, marked)
        BY <3>2
      <4>2. marked \in BOOLEAN
        BY DEF Marked
      <4> QED
        BY <2>1, <3>2, <4>1, <4>2, ScheduledType
    <3> QED
      BY <1>6, <3>1, <3>2 DEF ResendDone
  <2>3. CallsTyped'
    BY <1>0, <1>6, EndType DEF ResendDone
  <2>4. UNCHANGED <<pending_acks, delivery_events, tracker, config, loop, acks, mesh>>
    BY <1>6 DEF ResendDone
  <2> QED
    BY <2>2, <2>3, <2>4 DEF CallsTyped, config, loop, acks, mesh, TypeOK
<1>7. ASSUME NEW m \in Msgs, FallDue(m) PROVE TypeOK'
  <2>1. [pending_retries[m] EXCEPT !.due = TRUE] \in Rows
    <3>1. \A row \in Rows : [row EXCEPT !.due = TRUE] \in Rows
      BY DEF Rows
    <3>2. pending_retries[m] \in Rows
      BY DEF TypeOK
    <3> QED
      BY <3>1, <3>2
  <2>2. pending_retries' \in [Msgs -> Rows]
    BY <1>7, <2>1 DEF FallDue, TypeOK
  <2> QED
    BY <1>7, <2>2 DEF FallDue, config, calls, loop, acks, mesh, TypeOK
<1>8. ASSUME NEW m \in Msgs, ExpireEvent(m) PROVE TypeOK'
  BY <1>8 DEF ExpireEvent, config, calls, loop, acks, mesh, TypeOK
<1>9. ASSUME NEW c \in Codes, HandleAck(c) PROVE TypeOK'
  <2>1. CASE RxAck(c)
    BY <2>1 DEF RxAck, tables, config, calls, loop, TypeOK
  <2>2. CASE ConsumePendingAck(c)
    BY <2>2 DEF ConsumePendingAck, PrunedAcks, PrunedEvents, Correlated, Statuses,
       config, calls, loop, mesh, TypeOK
  <2>3. CASE PublishDelivered(c)
    BY <2>3, RowTypes DEF PublishDelivered, ItemsInUse, Statuses, config, calls, loop, mesh, TypeOK
  <2>4. CASE AckHandlingFails(c)
    BY <2>4 DEF AckHandlingFails, tables, config, calls, loop, mesh, TypeOK
  <2>5. CASE ExpireTracker(c)
    BY <2>5 DEF ExpireTracker, tables, config, calls, loop, acks, mesh, TypeOK
  <2>6. CASE ExpirePendingAck(c)
    BY <2>6 DEF ExpirePendingAck, config, calls, loop, acks, mesh, TypeOK
  <2> QED
    BY <1>9, <2>1, <2>2, <2>3, <2>4, <2>5, <2>6 DEF HandleAck
<1>10. ASSUME NEW m \in Msgs, Submit(m) PROVE TypeOK'
  BY <1>0, <1>10, BeginType DEF Submit, CallsTyped, tables, config, loop, acks, TypeOK
<1>11. ASSUME NEW m \in Msgs, Cancel(m) PROVE TypeOK'
  <2>1. Updated(m, "cancelled") \in Statuses
    BY WrittenType DEF Statuses
  <2> QED
    BY <1>11, <2>1, RowTypes DEF Cancel, config, calls, loop, acks, mesh, TypeOK
<1>12. ASSUME NEW m \in Msgs, ClearFeed(m) PROVE TypeOK'
  BY <1>12 DEF ClearFeed, Statuses, config, calls, loop, acks, mesh, TypeOK
<1>13. ASSUME NEW r \in Resenders, NEW m \in Msgs, Resend(r, m) PROVE TypeOK'
  <2>1. Updated(m, "queued") \in Statuses
    BY WrittenType DEF Statuses
  <2>2. CallsTyped'
    BY <1>0, <1>13, BeginType DEF Resend
  <2> QED
    BY <1>13, <2>1, <2>2, RowTypes DEF Resend, CallsTyped, config, loop, acks, TypeOK
<1>14. ASSUME NEW r \in Resenders, NEW m \in Msgs, ResendFails(r, m) PROVE TypeOK'
  BY <1>14, RowTypes DEF ResendFails, config, calls, loop, acks, mesh, TypeOK
<1>15. CASE UpdateConfig
  BY <1>15 DEF UpdateConfig, tables, calls, loop, acks, mesh, TypeOK
<1>16. CASE Restart
  <2>1. PICK stale \in SUBSET {m \in Msgs : HasRow(pending_retries, m)} :
          /\ pending_retries' = [m \in Msgs |->
                                   IF m \in stale THEN NoRow
                                   ELSE [pending_retries[m] EXCEPT !.due = FALSE]]
          /\ messages' = [m \in Msgs |->
                            IF m \in stale /\ messages[m] \notin {"absent", "delivered"}
                            THEN "failed" ELSE messages[m]]
    BY <1>16 DEF Restart
  <2>2. pending_retries' \in [Msgs -> Rows]
    BY <2>1, RowTypes DEF Rows, TypeOK
  <2>3. messages' \in [Msgs -> Statuses]
    BY <2>1 DEF Statuses, TypeOK
  <2>4. LoopTyped'
    BY <1>16, RowTypes DEF Restart, LoopTyped
  <2> QED
    BY <1>16, <2>2, <2>3, <2>4 DEF Restart, PrunedAcks, PrunedEvents, Steps, LoopTyped,
       config, mesh, TypeOK
<1>17. CASE UNCHANGED vars
  BY <1>17 DEF vars, tables, config, calls, loop, acks, mesh, TypeOK
<1> QED
  BY <1>1, <1>2, <1>3, <1>4, <1>5, <1>6, <1>7, <1>8, <1>9, <1>10, <1>11, <1>12, <1>13,
     <1>14, <1>15, <1>16, <1>17 DEF Next, System, Operator

(* Every step keeps ItemsInUse.                                            *)
LEMMA ItemsStep == ASSUME TypeOK, ItemsInUse, [Next]_vars PROVE ItemsInUse'
<1> USE NoneAssumption
<1>0. "loop" \in Callers /\ "worker" \in Callers /\ Resenders \subseteq Callers
  BY DEF Callers
<1>1. ASSUME NEW p \in Callers, Fresh(p), UNCHANGED acks PROVE ItemsInUse'
  BY <1>1 DEF Fresh, ItemsInUse, TypeOK, acks
<1>2. ASSUME UNCHANGED <<calls, acks>> PROVE ItemsInUse'
  BY <1>2 DEF ItemsInUse, calls, acks
<1>3. ASSUME NEW p \in Callers, ExecuteTx(p) PROVE ItemsInUse'
  <2>1. CASE PublishQueuedFails(p) \/ ScheduleFirstFails(p)
    BY <2>1, <1>1, FreshCalls DEF PublishQueuedFails, ScheduleFirstFails
  <2>2. CASE Refuse(p) \/ PublishQueued(p) \/ SendFails(p) \/ SavePendingAck(p)
             \/ SavePendingAckFails(p) \/ ScheduleFirst(p) \/ PublishOutcome(p)
    <3>1. pc[p] # "idle" /\ UNCHANGED <<item, acks>> /\ \E s : Goto(p, s)
      BY <2>2 DEF Refuse, PublishQueued, SendFails, SavePendingAck, SavePendingAckFails,
         ScheduleFirst, PublishOutcome, acks
    <3>2. code' \in {code, [code EXCEPT ![p] = None]}
      BY <2>2 DEF Refuse, PublishQueued, SendFails, SavePendingAck, SavePendingAckFails,
         ScheduleFirst, PublishOutcome
    <3> QED
      BY <3>1, <3>2 DEF Goto, ItemsInUse, TypeOK, acks
  <2>3. CASE Transmit(p)
    BY <2>3 DEF Transmit, Goto, ItemsInUse, TypeOK, acks
  <2>4. CASE Register(p)
    BY <2>4 DEF Register, Goto, ItemsInUse, TypeOK, acks
  <2> QED
    BY <1>3, <2>1, <2>2, <2>3, <2>4 DEF ExecuteTx
<1>4. CASE WorkerDone \/ Poll \/ LoopDone \/ LoopDoneFails
  BY <1>0, <1>1, <1>4, FreshCalls, FreshDispatch DEF WorkerDone, Poll, LoopDone, LoopDoneFails
<1>5. ASSUME NEW r \in Resenders, ResendDone(r) PROVE ItemsInUse'
  BY <1>0, <1>1, <1>5, FreshCalls DEF ResendDone
<1>6. ASSUME NEW m \in Msgs, FallDue(m) \/ ExpireEvent(m) \/ Cancel(m) \/ ClearFeed(m)
      PROVE  ItemsInUse'
  BY <1>2, <1>6 DEF FallDue, ExpireEvent, Cancel, ClearFeed
<1>7. ASSUME NEW m \in Msgs, Submit(m) PROVE ItemsInUse'
  BY <1>0, <1>1, <1>7, FreshCalls DEF Submit
<1>8. ASSUME NEW r \in Resenders, NEW m \in Msgs, Resend(r, m) \/ ResendFails(r, m)
      PROVE  ItemsInUse'
  BY <1>0, <1>1, <1>2, <1>8, FreshCalls DEF Resend, ResendFails
<1>9. ASSUME NEW c \in Codes, HandleAck(c) PROVE ItemsInUse'
  <2>1. CASE RxAck(c)
    BY <2>1 DEF RxAck, ItemsInUse, TypeOK, calls
  <2>2. CASE ConsumePendingAck(c)
    BY <2>2 DEF ConsumePendingAck, ItemsInUse, TypeOK, calls
  <2>3. CASE PublishDelivered(c)
    BY <2>3 DEF PublishDelivered, ItemsInUse, TypeOK, calls
  <2>4. CASE AckHandlingFails(c)
    BY <2>4 DEF AckHandlingFails, ItemsInUse, TypeOK, calls
  <2>5. CASE ExpireTracker(c) \/ ExpirePendingAck(c)
    BY <2>5, <1>2 DEF ExpireTracker, ExpirePendingAck
  <2> QED
    BY <1>9, <2>1, <2>2, <2>3, <2>4, <2>5 DEF HandleAck
<1>10. CASE UpdateConfig
  BY <1>2, <1>10 DEF UpdateConfig
<1>11. CASE Restart
  BY <1>11 DEF Restart, ItemsInUse
<1>12. CASE UNCHANGED vars
  BY <1>2, <1>12 DEF vars
<1> QED
  BY <1>3, <1>4, <1>5, <1>6, <1>7, <1>8, <1>9, <1>10, <1>11, <1>12 DEF Next, System, Operator

(* The correlation of each code, in the three places that hold one.         *)
LEMMA OwnedStep ==
  ASSUME TypeOK, ItemsInUse, CodesAreOwned, [Next]_vars
  PROVE  CodesAreOwned'
<1> USE NoneAssumption
<1> DEFINE ACKS == <<tracker, pending_acks, rx_msg, onAir>>
<1>0. "loop" \in Callers /\ "worker" \in Callers /\ Resenders \subseteq Callers
  BY DEF Callers
<1>1. ASSUME NEW p \in Callers, Fresh(p), UNCHANGED ACKS PROVE CodesAreOwned'
  BY <1>1 DEF Fresh, CodesAreOwned, TypeOK
<1>2. ASSUME UNCHANGED ACKS, UNCHANGED <<code, item>> PROVE CodesAreOwned'
  BY <1>2 DEF CodesAreOwned
<1>3. ASSUME NEW p \in Callers, ExecuteTx(p) PROVE CodesAreOwned'
  <2>1. CASE PublishQueuedFails(p)
    BY <2>1, <1>1, FreshCalls DEF PublishQueuedFails, tables, mesh, acks
  <2>2. CASE Refuse(p) \/ PublishQueued(p) \/ SavePendingAckFails(p) \/ PublishOutcome(p)
    BY <2>2, <1>2 DEF Refuse, PublishQueued, SavePendingAckFails, PublishOutcome,
       tables, acks, mesh
  <2>3. CASE Transmit(p)
    <3>1. PICK c \in Codes \union {None} :
             /\ code' = [code EXCEPT ![p] = c]
             /\ onAir' = [onAir EXCEPT ![item[p]] = @ \union ({c} \ {None})]
      BY <2>3 DEF Transmit
    <3>2. item[p] \in Msgs
      BY <2>3 DEF Transmit, ItemsInUse, TypeOK
    <3>3. \A m \in Msgs : onAir[m] \subseteq onAir'[m]
      BY <3>1 DEF TypeOK
    <3>4. c # None => c \in onAir'[item[p]]
      BY <3>1, <3>2 DEF TypeOK
    <3>5. UNCHANGED <<tracker, pending_acks, rx_msg, item>>
      BY <2>3 DEF Transmit, tables, acks
    <3>6. \A q \in Callers : code'[q] # None => code'[q] \in onAir'[item[q]]
      BY <3>1, <3>2, <3>3, <3>4 DEF CodesAreOwned, TypeOK, ItemsInUse
    <3> QED
      BY <3>3, <3>5, <3>6 DEF CodesAreOwned, TypeOK
  <2>4. CASE SendFails(p)
    BY <2>4 DEF SendFails, CodesAreOwned, TypeOK, tables, acks, mesh
  <2>5. CASE Register(p)
    BY <2>5 DEF Register, CodesAreOwned, TypeOK, tables, acks, mesh
  <2>6. CASE SavePendingAck(p)
    BY <2>6 DEF SavePendingAck, PrunedAcks, CodesAreOwned, TypeOK, acks, mesh
  <2>7. CASE ScheduleFirst(p)
    BY <2>7 DEF ScheduleFirst, Resumed, CodesAreOwned, TypeOK, acks, mesh
  <2>8. CASE ScheduleFirstFails(p)
    <3>1. Fresh(p)
      BY <2>8, FreshCalls DEF ScheduleFirstFails
    <3>2. UNCHANGED <<pending_acks, rx_msg, onAir>>
      BY <2>8 DEF ScheduleFirstFails, tables, acks, mesh
    <3>3. \A c \in Codes : tracker'[c] # None => tracker'[c] = tracker[c]
      BY <2>8 DEF ScheduleFirstFails, Resumed, TypeOK
    <3> QED
      BY <3>1, <3>2, <3>3 DEF Fresh, CodesAreOwned, TypeOK
  <2> QED
    BY <1>3, <2>1, <2>2, <2>3, <2>4, <2>5, <2>6, <2>7, <2>8 DEF ExecuteTx
<1>4. CASE WorkerDone \/ Poll \/ LoopDone \/ LoopDoneFails
  BY <1>0, <1>1, <1>4, FreshCalls, FreshDispatch
  DEF WorkerDone, Poll, LoopDone, LoopDoneFails, tables, acks, mesh
<1>5. ASSUME NEW r \in Resenders, ResendDone(r) PROVE CodesAreOwned'
  BY <1>0, <1>1, <1>5, FreshCalls DEF ResendDone, acks, mesh
<1>6. ASSUME NEW m \in Msgs, FallDue(m) \/ ExpireEvent(m) \/ Cancel(m) \/ ClearFeed(m)
      PROVE  CodesAreOwned'
  BY <1>2, <1>6 DEF FallDue, ExpireEvent, Cancel, ClearFeed, calls, acks, mesh
<1>7. ASSUME NEW m \in Msgs, Submit(m) PROVE CodesAreOwned'
  BY <1>0, <1>1, <1>7, FreshCalls DEF Submit, tables, acks
<1>8. ASSUME NEW r \in Resenders, NEW m \in Msgs, Resend(r, m) \/ ResendFails(r, m)
      PROVE  CodesAreOwned'
  BY <1>0, <1>1, <1>2, <1>8, FreshCalls DEF Resend, ResendFails, calls, acks, mesh
<1>9. ASSUME NEW c \in Codes, HandleAck(c) PROVE CodesAreOwned'
  <2>1. CASE RxAck(c)
    BY <2>1 DEF RxAck, CodesAreOwned, TypeOK, tables, calls
  <2>2. CASE ConsumePendingAck(c)
    BY <2>2 DEF ConsumePendingAck, PrunedAcks, Correlated, CodesAreOwned, TypeOK, calls, mesh
  <2>3. CASE PublishDelivered(c)
    BY <2>3 DEF PublishDelivered, CodesAreOwned, TypeOK, calls, mesh
  <2>4. CASE AckHandlingFails(c)
    BY <2>4 DEF AckHandlingFails, CodesAreOwned, TypeOK, tables, calls, mesh
  <2>5. CASE ExpireTracker(c)
    BY <2>5 DEF ExpireTracker, CodesAreOwned, TypeOK, tables, calls, acks, mesh
  <2>6. CASE ExpirePendingAck(c)
    BY <2>6 DEF ExpirePendingAck, CodesAreOwned, TypeOK, calls, acks, mesh
  <2> QED
    BY <1>9, <2>1, <2>2, <2>3, <2>4, <2>5, <2>6 DEF HandleAck
<1>10. CASE UpdateConfig
  BY <1>2, <1>10 DEF UpdateConfig, tables, calls, acks, mesh
<1>11. CASE Restart
  BY <1>11 DEF Restart, PrunedAcks, CodesAreOwned, TypeOK, mesh
<1>12. CASE UNCHANGED vars
  BY <1>2, <1>12 DEF vars, tables, calls, acks, mesh
<1> QED
  BY <1>3, <1>4, <1>5, <1>6, <1>7, <1>8, <1>9, <1>10, <1>11, <1>12 DEF Next, System, Operator

-----------------------------------------------------------------------------
(* What a step does that handles no ACK, clears nothing and expires nothing.*)
Settling ==
  /\ Shown \subseteq Shown'
  /\ Shown' \subseteq Proven
  /\ UNCHANGED delivery_events

(* A write of any status but 'delivered' settles at most what is proven    *)
(* already (_write_message, update_delivery).                              *)
LEMMA WrittenSettles ==
  ASSUME TypeOK, NEW m \in Msgs, NEW s \in Statuses \ {"delivered"},
         UNCHANGED delivery_events,
         \/ messages' = [messages EXCEPT ![m] = Written(m, s)]
         \/ messages' = [messages EXCEPT ![m] = Updated(m, s)]
  PROVE  Settling
BY DEF Written, Updated, Settling, Shown, Proven, TypeOK

(* schedule_retry neither takes a delivery back nor makes one up.          *)
LEMMA ScheduledSettles ==
  ASSUME TypeOK, NEW m \in Msgs, NEW k \in Nat, NEW marked \in BOOLEAN
  PROVE  \A n \in Msgs :
           /\ messages[n] = "delivered" => ScheduledMessages(m, k, marked)[n] = "delivered"
           /\ ScheduledMessages(m, k, marked)[n] = "delivered" => n \in Proven
BY DEF ScheduledMessages, Written, Updated, Shown, Proven, TypeOK

(* A pass of the loop drops the rows of the items it settles, and marks     *)
(* those of them that it gives up.                                          *)
LEMMA DispatchTables ==
  ASSUME NEW D, NEW rows, NEW msgs, Dispatch(D, rows, msgs)
  PROVE  \E settled \in SUBSET Msgs, failed \in SUBSET Msgs :
           /\ pending_retries' = [m \in Msgs |-> IF m \in settled THEN NoRow ELSE rows[m]]
           /\ messages' = [m \in Msgs |-> IF m \in failed THEN Written(m, "failed")
                                                         ELSE msgs[m]]
           /\ ~StorageFaults
                => \A m \in settled \ failed : msgs[m] \in {"delivered", "absent"}
<1> DEFINE Pending == {m \in Msgs : HasRow(D, m)}
           Lost    == {m \in Pending : BusyHistory /\ msgs[m] = "delivered"}
<1>1. PICK settled \in SUBSET Pending, missed \in SUBSET Lost, marked \in [Msgs -> Marked] :
        LET Seen(m) == msgs[m] = "delivered" /\ m \notin missed
            Exhausted(m) == ~Seen(m) /\ OutOfAttempts(D[m])
        IN
        /\ \A m \in settled : Seen(m) \/ Exhausted(m)
        /\ pending_retries' = [m \in Msgs |-> IF m \in settled THEN NoRow ELSE rows[m]]
        /\ messages' = [m \in Msgs |->
                          IF m \in settled /\ Exhausted(m) /\ marked[m] /\ msgs[m] # "absent"
                          THEN Written(m, "failed") ELSE msgs[m]]
  BY DEF Dispatch
<1> DEFINE Seen(m) == msgs[m] = "delivered" /\ m \notin missed
           Exhausted(m) == ~Seen(m) /\ OutOfAttempts(D[m])
           failed == {m \in settled : Exhausted(m) /\ marked[m] /\ msgs[m] # "absent"}
<1>2. messages' = [m \in Msgs |-> IF m \in failed THEN Written(m, "failed") ELSE msgs[m]]
  BY <1>1
<1>3. ASSUME ~StorageFaults
      PROVE  \A m \in settled \ failed : msgs[m] \in {"delivered", "absent"}
  BY <1>1, <1>3 DEF Marked
<1>4. settled \in SUBSET Msgs /\ failed \in SUBSET Msgs
  OBVIOUS
<1>5. pending_retries' = [m \in Msgs |-> IF m \in settled THEN NoRow ELSE rows[m]]
  BY <1>1
<1> HIDE DEF failed
<1> QED
  BY <1>2, <1>3, <1>4, <1>5

(* Nor does a pass of the loop.                                            *)
LEMMA DispatchSettles ==
  ASSUME TypeOK, NEW D, NEW rows, NEW msgs \in [Msgs -> Statuses],
         \A n \in Msgs : /\ messages[n] = "delivered" => msgs[n] = "delivered"
                         /\ msgs[n] = "delivered" => n \in Proven,
         Dispatch(D, rows, msgs), UNCHANGED delivery_events
  PROVE  Settling
<1>1. PICK S \in SUBSET Msgs :
        messages' = [m \in Msgs |-> IF m \in S THEN Written(m, "failed") ELSE msgs[m]]
  BY DispatchTables
<1>2. \A m \in Msgs : messages'[m] \in {msgs[m], Written(m, "failed")}
  BY <1>1
<1>3. ASSUME NEW m \in Msgs, messages[m] = "delivered" PROVE messages'[m] = "delivered"
  <2>1. msgs[m] = "delivered" /\ Written(m, "failed") = "delivered"
    BY <1>3 DEF Written
  <2> QED
    BY <1>2, <2>1
<1>4. \A m \in Msgs : messages'[m] = "delivered" => m \in Proven
  BY <1>2 DEF Written, Shown, Proven
<1> QED
  BY <1>3, <1>4 DEF Settling, Shown

(* The steps that do not handle an ACK.                                     *)
LEMMA SettlingStep ==
  ASSUME TypeOK, ItemsInUse, [Next]_vars
  PROVE  \/ Settling
         \/ \E p \in Callers : SavePendingAck(p)
         \/ \E m \in Msgs : ClearFeed(m) \/ ExpireEvent(m)
         \/ \E c \in Codes : ConsumePendingAck(c) \/ PublishDelivered(c)
         \/ Restart
<1>0. "loop" \in Callers /\ "worker" \in Callers /\ Resenders \subseteq Callers
      /\ \A marked \in Marked : marked \in BOOLEAN
  BY DEF Callers, Marked
<1>1. ASSUME UNCHANGED <<messages, delivery_events>> PROVE Settling
  BY <1>1 DEF Settling, Shown, Proven
<1>2. ASSUME NEW p \in Callers, ExecuteTx(p), ~SavePendingAck(p) PROVE Settling
  <2>1. CASE Refuse(p) \/ PublishQueuedFails(p) \/ Transmit(p) \/ SendFails(p)
             \/ Register(p) \/ SavePendingAckFails(p) \/ ScheduleFirstFails(p)
    BY <2>1, <1>1 DEF Refuse, PublishQueuedFails, Transmit, SendFails, Register,
       SavePendingAckFails, ScheduleFirstFails, tables
  <2>2. CASE PublishQueued(p)
    <3>1. item[p] \in Msgs
      BY <2>2 DEF PublishQueued, ItemsInUse, TypeOK
    <3> QED
      BY <2>2, <3>1, WrittenSettles DEF PublishQueued, Statuses
  <2>3. CASE ScheduleFirst(p)
    <3>1. item[p] \in Msgs
      BY <2>3 DEF ScheduleFirst, ItemsInUse, TypeOK
    <3>2. PICK marked \in Marked : messages' = ScheduledMessages(item[p], 1, marked)
      BY <2>3 DEF ScheduleFirst
    <3>3. UNCHANGED delivery_events
      BY <2>3 DEF ScheduleFirst
    <3> QED
      BY <1>0, <3>1, <3>2, <3>3, ScheduledSettles DEF Settling, Shown, Proven
  <2>4. CASE PublishOutcome(p)
    <3>1. item[p] \in Msgs
      BY <2>4 DEF PublishOutcome, ItemsInUse, TypeOK
    <3>2. Outcome(p) \in Statuses \ {"delivered"}
      BY DEF Outcome, Statuses
    <3> QED
      BY <2>4, <3>1, <3>2, <1>1, WrittenSettles DEF PublishOutcome
  <2> QED
    BY <1>2, <2>1, <2>2, <2>3, <2>4 DEF ExecuteTx
<1>3. CASE WorkerDone \/ LoopDoneFails
  BY <1>1, <1>3 DEF WorkerDone, LoopDoneFails, tables
<1>4. CASE Poll
  <2>1. \A n \in Msgs : messages[n] = "delivered" => n \in Proven
    BY DEF Proven, Shown
  <2> QED
    BY <1>4, <2>1, DispatchSettles DEF Poll, TypeOK
<1>5. CASE LoopDone
  <2>1. item["loop"] \in Msgs /\ next_attempt \in Nat
    BY <1>0, <1>5 DEF LoopDone, ItemsInUse, TypeOK
  <2>2. PICK marked \in Marked :
          Dispatch(batch, ScheduledRows(item["loop"], next_attempt),
                   ScheduledMessages(item["loop"], next_attempt, marked))
    BY <1>5 DEF LoopDone
  <2>3. UNCHANGED delivery_events
    BY <1>5 DEF LoopDone
  <2> QED
    BY <1>0, <2>1, <2>2, <2>3, ScheduledType, ScheduledSettles, DispatchSettles
<1>6. ASSUME NEW r \in Resenders, ResendDone(r) PROVE Settling
  <2>1. item[r] \in Msgs /\ UNCHANGED delivery_events
    BY <1>0, <1>6 DEF ResendDone, ItemsInUse, TypeOK
  <2>2. CASE UNCHANGED messages
    BY <1>1, <2>1, <2>2
  <2>3. CASE \E marked \in Marked : messages' = ScheduledMessages(item[r], 1, marked)
    BY <1>0, <2>1, <2>3, ScheduledSettles DEF Settling, Shown, Proven
  <2> QED
    BY <1>6, <2>2, <2>3 DEF ResendDone
<1>7. ASSUME NEW m \in Msgs, FallDue(m) \/ Submit(m) PROVE Settling
  BY <1>1, <1>7 DEF FallDue, Submit, tables
<1>8. ASSUME NEW m \in Msgs, Cancel(m) PROVE Settling
  <2>1. PICK marked \in Marked :
          messages' = [messages EXCEPT ![m] = IF marked THEN Updated(m, "cancelled") ELSE @]
    BY <1>8 DEF Cancel
  <2>2. UNCHANGED delivery_events
    BY <1>8 DEF Cancel
  <2>3. CASE marked
    BY <2>1, <2>2, <2>3, WrittenSettles DEF Statuses
  <2>4. CASE ~marked
    BY <1>1, <2>1, <2>2, <2>4 DEF TypeOK
  <2> QED
    BY <2>3, <2>4
<1>9. ASSUME NEW r \in Resenders, NEW m \in Msgs, Resend(r, m) PROVE Settling
  BY <1>9, WrittenSettles DEF Resend, Statuses
<1>10. ASSUME NEW r \in Resenders, NEW m \in Msgs, ResendFails(r, m) PROVE Settling
  BY <1>1, <1>10 DEF ResendFails
<1>11. ASSUME NEW c \in Codes,
              RxAck(c) \/ AckHandlingFails(c) \/ ExpireTracker(c) \/ ExpirePendingAck(c)
       PROVE  Settling
  BY <1>1, <1>11 DEF RxAck, AckHandlingFails, ExpireTracker, ExpirePendingAck, tables
<1>12. CASE UpdateConfig \/ UNCHANGED vars
  BY <1>1, <1>12 DEF UpdateConfig, vars, tables
<1> QED
  BY <1>2, <1>3, <1>4, <1>5, <1>6, <1>7, <1>8, <1>9, <1>10, <1>11, <1>12
  DEF Next, System, Operator, HandleAck

(* _prune_acks drops the delivery events of delivered messages only, so    *)
(* nothing that was proven is forgotten.                                   *)
LEMMA PrunedProven == TypeOK => PrunedEvents \union Shown = Proven
BY DEF PrunedEvents, Shown, Proven, TypeOK

-----------------------------------------------------------------------------
(* A delivery is on record only for a message whose ACK was received.       *)
ReceiptsAreBacked ==
  /\ \A c \in Codes : rx[c] # "idle" => c \in heard
  /\ Proven \subseteq Acknowledged

IInv == TypeOK /\ ItemsInUse /\ CodesAreOwned /\ ReceiptsAreBacked

(* No step takes back a transmission or an ACK.                            *)
LEMMA HeardStep ==
  ASSUME TypeOK, [Next]_vars
  PROVE  /\ \A m \in Msgs : onAir[m] \subseteq onAir'[m]
         /\ heard \subseteq heard'
<1>1. CASE UNCHANGED <<onAir, heard>>
  BY <1>1
<1>2. ASSUME NEW p \in Callers, Transmit(p)
      PROVE  (\A m \in Msgs : onAir[m] \subseteq onAir'[m]) /\ heard \subseteq heard'
  BY <1>2 DEF Transmit, TypeOK
<1>3. ASSUME NEW c \in Codes, RxAck(c)
      PROVE  (\A m \in Msgs : onAir[m] \subseteq onAir'[m]) /\ heard \subseteq heard'
  BY <1>3 DEF RxAck
<1>4. \/ UNCHANGED <<onAir, heard>>
      \/ \E p \in Callers : Transmit(p)
      \/ \E c \in Codes : RxAck(c)
  BY DEF Next, System, Operator, ExecuteTx, HandleAck, vars, mesh, Refuse, PublishQueued,
     PublishQueuedFails, SendFails, Register, SavePendingAck, SavePendingAckFails,
     ScheduleFirst, ScheduleFirstFails, PublishOutcome, WorkerDone, Poll, LoopDone,
     LoopDoneFails, ResendDone, FallDue, ExpireEvent, ConsumePendingAck, PublishDelivered,
     AckHandlingFails, ExpireTracker, ExpirePendingAck, Submit, Cancel, ClearFeed, Resend,
     ResendFails, UpdateConfig, Restart
<1> QED
  BY <1>1, <1>2, <1>3, <1>4

(* Every step keeps ReceiptsAreBacked.                                     *)
LEMMA BackedStep == ASSUME IInv, [Next]_vars PROVE ReceiptsAreBacked'
<1> USE DEF IInv
<1>1. Acknowledged \subseteq Acknowledged'
  BY HeardStep DEF Acknowledged
<1>2. \A c \in Codes : rx'[c] # "idle" => c \in heard'
  <2>1. CASE UNCHANGED rx
    BY <2>1, HeardStep DEF ReceiptsAreBacked
  <2>2. ASSUME NEW c \in Codes, HandleAck(c)
        PROVE  \A d \in Codes : rx'[d] # "idle" => d \in heard'
    BY <2>2, HeardStep DEF HandleAck, RxAck, ConsumePendingAck, PublishDelivered,
       AckHandlingFails, ExpireTracker, ExpirePendingAck, acks, ReceiptsAreBacked, TypeOK
  <2>3. CASE Restart
    BY <2>3 DEF Restart
  <2> QED
    BY <2>1, <2>2, <2>3 DEF Next, System, Operator, ExecuteTx, vars, acks, Refuse, PublishQueued,
       PublishQueuedFails, Transmit, SendFails, Register, SavePendingAck, SavePendingAckFails,
       ScheduleFirst, ScheduleFirstFails, PublishOutcome, WorkerDone, Poll, LoopDone,
       LoopDoneFails, ResendDone, FallDue, ExpireEvent, Submit, Cancel, ClearFeed, Resend,
       ResendFails, UpdateConfig
<1>3. Proven' \subseteq Acknowledged'
  <2>1. CASE Settling
    BY <2>1, <1>1 DEF Settling, Proven, ReceiptsAreBacked
  <2>2. ASSUME NEW p \in Callers, SavePendingAck(p) PROVE Proven' \subseteq Acknowledged'
    BY <2>2, <1>1 DEF SavePendingAck, PrunedEvents, Shown, Proven, ReceiptsAreBacked
  <2>3. ASSUME NEW m \in Msgs, ClearFeed(m) \/ ExpireEvent(m)
        PROVE  Proven' \subseteq Acknowledged'
    BY <2>3, <1>1 DEF ClearFeed, ExpireEvent, Shown, Proven, ReceiptsAreBacked, TypeOK
  <2>4. ASSUME NEW c \in Codes, ConsumePendingAck(c) PROVE Proven' \subseteq Acknowledged'
    <3> DEFINE m == PrunedAcks[c]
    <3>1. Proven' \subseteq Proven \union ({m} \ {None})
      <4>1. \A n \in Msgs : messages'[n] = "delivered"
                            => messages[n] = "delivered" \/ n = m
        BY <2>4 DEF ConsumePendingAck
      <4>2. delivery_events' \subseteq delivery_events \union ({m} \ {None})
        BY <2>4 DEF ConsumePendingAck, PrunedEvents
      <4> QED
        BY <4>1, <4>2, NoneAssumption DEF Shown, Proven
    <3>2. m # None => m \in Msgs /\ c \in onAir[m] /\ c \in heard
      BY <2>4 DEF PrunedAcks, ConsumePendingAck, CodesAreOwned, ReceiptsAreBacked, TypeOK
    <3> QED
      BY <3>1, <3>2, <1>1 DEF Acknowledged, ReceiptsAreBacked
  <2>5. ASSUME NEW c \in Codes, PublishDelivered(c) PROVE Proven' \subseteq Acknowledged'
    <3>1. Proven' \subseteq Proven \union {rx_msg[c]}
      BY <2>5 DEF PublishDelivered, Shown, Proven, TypeOK
    <3>2. rx_msg[c] \in Msgs /\ c \in onAir[rx_msg[c]] /\ c \in heard
      BY <2>5 DEF PublishDelivered, ItemsInUse, CodesAreOwned, ReceiptsAreBacked, TypeOK
    <3> QED
      BY <3>1, <3>2, <1>1 DEF Acknowledged, ReceiptsAreBacked
  <2>6. CASE Restart
    <3>1. \A m \in Msgs : messages'[m] = "delivered" => messages[m] = "delivered"
      BY <2>6 DEF Restart
    <3> QED
      BY <2>6, <3>1, <1>1 DEF Restart, PrunedEvents, Shown, Proven, ReceiptsAreBacked
  <2> QED
    BY <2>1, <2>2, <2>3, <2>4, <2>5, <2>6, SettlingStep
<1> QED
  BY <1>2, <1>3 DEF ReceiptsAreBacked

(* The inductive invariant holds at first, ...                             *)
LEMMA InitIInv == Init => IInv
BY NoneAssumption, RetriesAssumption, CapacityAssumption, RowTypes
DEF Init, IInv, TypeOK, ItemsInUse, CodesAreOwned, ReceiptsAreBacked, Proven, Shown,
    Statuses, Steps

(* ... every step keeps it, ...                                            *)
LEMMA StepIInv == IInv /\ [Next]_vars => IInv'
BY TypeStep, ItemsStep, OwnedStep, BackedStep DEF IInv

(* ... so it always holds.                                                 *)
LEMMA Invariance == Spec => []IInv
<1>1. Init => IInv
  BY InitIInv
<1>2. IInv /\ [Next]_vars => IInv'
  BY StepIInv
<1> QED
  BY <1>1, <1>2, PTL DEF Spec

(* Every reachable state of the delivery of messages is well typed, whatever*)
(* the messages, codes, concurrent requests, capacities and faults.        *)
THEOREM TypeCorrect == Spec => []TypeOK
<1>1. IInv => TypeOK
  BY DEF IInv
<1> QED
  BY <1>1, Invariance, PTL

(* A message is shown as delivered only if an ACK with the code of one of its*)
(* own transmissions was received: consume_pending_ack, register, the      *)
(* expiries, the faults of storage and the restarts never make up a delivery.*)
THEOREM OnlyAckedIsDelivered == Spec => []DeliveredOnlyIfAcked
<1>1. IInv => DeliveredOnlyIfAcked
  BY DEF IInv, ReceiptsAreBacked, Proven, Shown, DeliveredOnlyIfAcked
<1> QED
  BY <1>1, Invariance, PTL

(* A delivered message stays delivered until its conversation is cleared: no*)
(* late status of execute_tx, of the retry loop, of cancel_retry or of a   *)
(* restart overwrites it (_write_message, update_delivery).                *)
THEOREM DeliveryIsFinal == Spec => DeliveredIsFinal
<1> DEFINE Final == \A m \in Msgs : messages[m] = "delivered"
                                     => messages'[m] \in {"delivered", "absent"}
<1>1. IInv /\ [Next]_vars => [Final]_vars
  <2> SUFFICES ASSUME IInv, [Next]_vars PROVE Final
    OBVIOUS
  <2> USE DEF IInv
  <2>1. CASE Settling
    BY <2>1 DEF Settling, Shown
  <2>2. ASSUME NEW p \in Callers, SavePendingAck(p) PROVE Final
    BY <2>2 DEF SavePendingAck
  <2>3. ASSUME NEW m \in Msgs, ClearFeed(m) \/ ExpireEvent(m) PROVE Final
    BY <2>3 DEF ClearFeed, ExpireEvent, TypeOK
  <2>4. ASSUME NEW c \in Codes, ConsumePendingAck(c) \/ PublishDelivered(c) PROVE Final
    BY <2>4 DEF ConsumePendingAck, PublishDelivered, TypeOK
  <2>5. CASE Restart
    BY <2>5 DEF Restart
  <2> QED
    BY <2>1, <2>2, <2>3, <2>4, <2>5, SettlingStep
<1> QED
  BY <1>1, Invariance, PTL DEF Spec, DeliveredIsFinal

-----------------------------------------------------------------------------
(* RetryingHasRow, while no write fails. The loop schedules an attempt      *)
(* number that makes a row.                                                 *)
LoopCounts == pc["loop"] # "idle" => next_attempt > 0

(* schedule_retry marks a message as retrying only with a row for it.      *)
LEMMA ScheduledRetrying ==
  ASSUME TypeOK, RetryingHasRow, NEW m \in Msgs, NEW k \in Nat \ {0}
  PROVE  \A n \in Msgs : ScheduledMessages(m, k, TRUE)[n] = "retrying"
                        => HasRow(ScheduledRows(m, k), n)
<1> TAKE n \in Msgs
<1>1. CASE MaySchedule(k) /\ n = m
  BY <1>1 DEF ScheduledRows, HasRow, NewRow, TypeOK
<1>2. CASE ~(MaySchedule(k) /\ n = m)
  BY <1>2 DEF ScheduledRows, ScheduledMessages, HasRow, RetryingHasRow, TypeOK
<1> QED
  BY <1>1, <1>2

(* A pass of the loop drops only rows of messages that it also takes out of*)
(* 'retrying'.                                                             *)
LEMMA DispatchRetrying ==
  ASSUME NEW D, NEW rows \in [Msgs -> Rows], NEW msgs \in [Msgs -> Statuses],
         ~StorageFaults, Dispatch(D, rows, msgs),
         \A n \in Msgs : msgs[n] = "retrying" => HasRow(rows, n)
  PROVE  RetryingHasRow'
<1>1. PICK settled \in SUBSET Msgs, failed \in SUBSET Msgs :
        /\ pending_retries' = [m \in Msgs |-> IF m \in settled THEN NoRow ELSE rows[m]]
        /\ messages' = [m \in Msgs |-> IF m \in failed THEN Written(m, "failed") ELSE msgs[m]]
        /\ \A m \in settled \ failed : msgs[m] \in {"delivered", "absent"}
  BY DispatchTables
<1>2. ASSUME NEW n \in Msgs, messages'[n] = "retrying" PROVE HasRow(pending_retries', n)
  <2>1. n \notin failed /\ msgs[n] = "retrying"
    BY <1>1, <1>2 DEF Written
  <2>2. n \notin settled
    BY <1>1, <2>1
  <2> QED
    BY <1>1, <2>1, <2>2 DEF HasRow
<1> QED
  BY <1>2 DEF RetryingHasRow

(* A pass of the loop leaves an attempt number above zero.                 *)
LEMMA DispatchCounts ==
  ASSUME TypeOK, NEW D \in [Msgs -> Rows], NEW rows, NEW msgs, Dispatch(D, rows, msgs)
  PROVE  LoopCounts'
<1>1. \/ End("loop")
      \/ \E m \in Msgs : next_attempt' = D[m].attempt + 1
  BY DEF Dispatch
<1>2. "loop" \in Callers
  BY DEF Callers
<1>3. CASE End("loop")
  BY <1>2, <1>3 DEF End, LoopCounts, TypeOK
<1>4. ASSUME NEW m \in Msgs, next_attempt' = D[m].attempt + 1 PROVE LoopCounts'
  BY <1>4 DEF LoopCounts, Rows
<1> QED
  BY <1>1, <1>3, <1>4

(* Every step keeps RetryingHasRow and LoopCounts, while no write fails.   *)
LEMMA RetryingStep ==
  ASSUME TypeOK, ItemsInUse, RetryingHasRow, LoopCounts, ~StorageFaults, [Next]_vars
  PROVE  RetryingHasRow' /\ LoopCounts'
<1> DEFINE Goal == RetryingHasRow' /\ LoopCounts'
<1>0. /\ "loop" \in Callers /\ "worker" \in Callers /\ Resenders \subseteq Callers
      /\ "loop" \notin Resenders /\ Marked = {TRUE}
  BY CallersAssumption DEF Callers, Marked
<1>1. ASSUME NEW p \in Callers, ExecuteTx(p) PROVE Goal
  <2>1. LoopCounts'
    <3>1. pc[p] # "idle" /\ UNCHANGED loop /\ \E s \in Steps : Goto(p, s)
      BY <1>1 DEF ExecuteTx, Refuse, PublishQueued, PublishQueuedFails, Transmit, SendFails,
         Register, SavePendingAck, SavePendingAckFails, ScheduleFirst, ScheduleFirstFails,
         PublishOutcome, Steps
    <3> QED
      BY <1>0, <3>1 DEF Goto, LoopCounts, loop, TypeOK
  <2>2. CASE UNCHANGED <<messages, pending_retries>>
    BY <2>1, <2>2 DEF RetryingHasRow, HasRow
  <2>3. CASE PublishQueued(p) \/ PublishOutcome(p)
    BY <2>1, <2>3 DEF PublishQueued, PublishOutcome, Outcome, Written, RetryingHasRow, HasRow,
       TypeOK
  <2>4. CASE ScheduleFirst(p)
    <3>1. item[p] \in Msgs
      BY <2>4 DEF ScheduleFirst, ItemsInUse, TypeOK
    <3>2. /\ pending_retries' = ScheduledRows(item[p], 1)
          /\ messages' = ScheduledMessages(item[p], 1, TRUE)
      BY <1>0, <2>4 DEF ScheduleFirst
    <3>3. \A n \in Msgs : ScheduledMessages(item[p], 1, TRUE)[n] = "retrying"
                         => HasRow(ScheduledRows(item[p], 1), n)
      <4>1. 1 \in Nat \ {0}
        OBVIOUS
      <4> QED
        BY <3>1, <4>1, ScheduledRetrying
    <3> QED
      BY <2>1, <3>2, <3>3 DEF RetryingHasRow, HasRow
  <2> QED
    BY <1>1, <2>2, <2>3, <2>4 DEF ExecuteTx, tables, Refuse, PublishQueuedFails, Transmit,
       SendFails, Register, SavePendingAck, SavePendingAckFails, ScheduleFirstFails
<1>2. ASSUME UNCHANGED <<messages, pending_retries, next_attempt>>,
             pc'["loop"] = pc["loop"]
      PROVE  Goal
  BY <1>2 DEF RetryingHasRow, HasRow, LoopCounts
<1>3. CASE WorkerDone
  BY <1>2, <1>3 DEF WorkerDone, End, tables, loop, TypeOK
<1>4. CASE Poll
  <2> DEFINE Due == {m \in Msgs : HasRow(pending_retries, m) /\ pending_retries[m].due}
             D == [m \in Msgs |-> IF m \in Due THEN pending_retries[m] ELSE NoRow]
  <2>1. D \in [Msgs -> Rows]
    BY RowTypes DEF TypeOK
  <2>2. Dispatch(D, pending_retries, messages)
    BY <1>4 DEF Poll
  <2> HIDE DEF D
  <2> QED
    BY <2>1, <2>2, DispatchRetrying, DispatchCounts DEF RetryingHasRow, TypeOK
<1>5. CASE LoopDone
  <2>1. item["loop"] \in Msgs /\ next_attempt \in Nat \ {0}
    BY <1>0, <1>5 DEF LoopDone, ItemsInUse, LoopCounts, TypeOK
  <2>2. Dispatch(batch, ScheduledRows(item["loop"], next_attempt),
                 ScheduledMessages(item["loop"], next_attempt, TRUE))
    BY <1>0, <1>5 DEF LoopDone
  <2> DEFINE rows == ScheduledRows(item["loop"], next_attempt)
             msgs == ScheduledMessages(item["loop"], next_attempt, TRUE)
  <2>3. rows \in [Msgs -> Rows] /\ msgs \in [Msgs -> Statuses] /\ batch \in [Msgs -> Rows]
    BY <2>1, ScheduledType DEF TypeOK
  <2>4. \A n \in Msgs : msgs[n] = "retrying" => HasRow(rows, n)
    BY <2>1, ScheduledRetrying
  <2> HIDE DEF rows, msgs
  <2>5. Dispatch(batch, rows, msgs)
    BY <2>2 DEF rows, msgs
  <2> QED
    BY <2>3, <2>4, <2>5, DispatchRetrying, DispatchCounts
<1>6. ASSUME NEW r \in Resenders, ResendDone(r) PROVE Goal
  <2>1. LoopCounts'
    BY <1>0, <1>6 DEF ResendDone, End, LoopCounts, loop, TypeOK
  <2>2. CASE UNCHANGED <<messages, pending_retries>>
    BY <2>1, <2>2 DEF RetryingHasRow, HasRow
  <2>3. CASE /\ pending_retries' = ScheduledRows(item[r], 1)
             /\ messages' = ScheduledMessages(item[r], 1, TRUE)
    <3>1. item[r] \in Msgs
      BY <1>0, <1>6 DEF ResendDone, ItemsInUse, TypeOK
    <3>2. \A n \in Msgs : ScheduledMessages(item[r], 1, TRUE)[n] = "retrying"
                         => HasRow(ScheduledRows(item[r], 1), n)
      <4>1. 1 \in Nat \ {0}
        OBVIOUS
      <4> QED
        BY <3>1, <4>1, ScheduledRetrying
    <3> QED
      BY <2>1, <2>3, <3>2 DEF RetryingHasRow, HasRow
  <2> QED
    BY <1>0, <1>6, <2>2, <2>3 DEF ResendDone
<1>7. ASSUME NEW m \in Msgs, FallDue(m) PROVE Goal
  BY <1>7 DEF FallDue, calls, loop, RetryingHasRow, HasRow, LoopCounts, Rows, TypeOK
<1>8. ASSUME NEW m \in Msgs, ExpireEvent(m) PROVE Goal
  BY <1>2, <1>8 DEF ExpireEvent, calls, loop
<1>9. ASSUME NEW m \in Msgs, Cancel(m) PROVE Goal
  <2>1. messages'[m] # "retrying" /\ \A n \in Msgs \ {m} : messages'[n] = messages[n]
    BY <1>0, <1>9 DEF Cancel, Updated, Written, TypeOK
  <2> QED
    BY <1>9, <2>1 DEF Cancel, calls, loop, RetryingHasRow, HasRow, LoopCounts, TypeOK
<1>10. ASSUME NEW m \in Msgs, ClearFeed(m) PROVE Goal
  BY <1>10 DEF ClearFeed, calls, loop, RetryingHasRow, HasRow, LoopCounts, TypeOK
<1>11. ASSUME NEW m \in Msgs, Submit(m) PROVE Goal
  BY <1>2, <1>11 DEF Submit, Begin, tables, loop, TypeOK
<1>12. ASSUME NEW r \in Resenders, NEW m \in Msgs, Resend(r, m) PROVE Goal
  <2>1. messages'[m] # "retrying" /\ \A n \in Msgs \ {m} : messages'[n] = messages[n]
    BY <1>12 DEF Resend, Updated, Written, TypeOK
  <2> QED
    BY <1>0, <1>12, <2>1 DEF Resend, Begin, loop, RetryingHasRow, HasRow, LoopCounts, TypeOK
<1>13. ASSUME NEW c \in Codes, HandleAck(c) PROVE Goal
  <2>1. CASE ConsumePendingAck(c)
    BY <2>1 DEF ConsumePendingAck, calls, loop, RetryingHasRow, HasRow, LoopCounts, TypeOK
  <2>2. CASE PublishDelivered(c)
    <3>1. \A n \in Msgs : messages'[n] = "retrying" => messages[n] = "retrying" /\ n # rx_msg[c]
      BY <2>2 DEF PublishDelivered, TypeOK
    <3> QED
      BY <2>2, <3>1 DEF PublishDelivered, calls, loop, RetryingHasRow, HasRow, LoopCounts, TypeOK
  <2>3. CASE RxAck(c) \/ AckHandlingFails(c) \/ ExpireTracker(c) \/ ExpirePendingAck(c)
    BY <1>2, <2>3 DEF RxAck, AckHandlingFails, ExpireTracker, ExpirePendingAck, tables,
       calls, loop
  <2> QED
    BY <1>13, <2>1, <2>2, <2>3 DEF HandleAck
<1>14. CASE UpdateConfig \/ UNCHANGED vars
  BY <1>2, <1>14 DEF UpdateConfig, vars, tables, calls, loop
<1>15. CASE Restart
  <2>1. PICK stale \in SUBSET {m \in Msgs : HasRow(pending_retries, m)} :
          /\ pending_retries' = [m \in Msgs |->
                                   IF m \in stale THEN NoRow
                                   ELSE [pending_retries[m] EXCEPT !.due = FALSE]]
          /\ messages' = [m \in Msgs |->
                            IF m \in stale /\ messages[m] \notin {"absent", "delivered"}
                            THEN "failed" ELSE messages[m]]
    BY <1>15 DEF Restart
  <2>2. LoopCounts'
    BY <1>0, <1>15 DEF Restart, LoopCounts
  <2>3. ASSUME NEW n \in Msgs, messages'[n] = "retrying" PROVE HasRow(pending_retries', n)
    <3>1. n \notin stale /\ messages[n] = "retrying"
      BY <2>1, <2>3
    <3>2. HasRow(pending_retries, n)
      BY <3>1 DEF RetryingHasRow
    <3>3. pending_retries'[n] = [pending_retries[n] EXCEPT !.due = FALSE]
      BY <2>1, <3>1
    <3>4. pending_retries[n] \in Rows
      BY DEF TypeOK
    <3>5. pending_retries'[n].attempt = pending_retries[n].attempt
      BY <3>3, <3>4 DEF Rows
    <3> QED
      BY <3>2, <3>5 DEF HasRow
  <2> QED
    BY <2>2, <2>3 DEF RetryingHasRow
<1> QED
  BY <1>0, <1>1, <1>3, <1>4, <1>5, <1>6, <1>7, <1>8, <1>9, <1>10, <1>11, <1>12, <1>13, <1>14,
     <1>15 DEF Next, System, Operator, LoopDoneFails, ResendFails

(* While no write of SQLite fails, a message shown as retrying has its row in*)
(* pending_retries, in every interleaving of execute_tx, the retry loop,   *)
(* cancel_retry, resend_message, ACKs and restarts.                        *)
THEOREM RetryingRowsExist == ASSUME ~StorageFaults PROVE Spec => []RetryingHasRow
<1>1. Init => RetryingHasRow /\ LoopCounts
  BY DEF Init, RetryingHasRow, LoopCounts, Callers
<1>2. IInv /\ RetryingHasRow /\ LoopCounts /\ [Next]_vars => RetryingHasRow' /\ LoopCounts'
  BY RetryingStep DEF IInv
<1> QED
  BY <1>1, <1>2, Invariance, PTL DEF Spec

-----------------------------------------------------------------------------
(* The receipts implement the contract.                                     *)
LEMMA ClaimOf ==
  ASSUME TypeOK, NEW c \in Codes
  PROVE  /\ rx[c] = "idle"    => Claim[c] = None
         /\ rx[c] = "consume" => Claim[c] = "open"
         /\ rx[c] = "deliver" => Claim[c] = rx_msg[c]
BY DEF Claim

(* A step that leaves the ACK handlers alone leaves their claims alone.    *)
LEMMA SameClaim ==
  ASSUME UNCHANGED acks
  PROVE  Claim' = Claim
BY DEF Claim, acks

(* A step that handles no ACK and sends nothing shows some messages.        *)
LEMMA SettlingRefines ==
  ASSUME Settling, UNCHANGED <<onAir, Claim>>
  PROVE  [Contract!Next]_(Contract!promise)
<1>1. Proven' = Proven
  BY DEF Settling, Proven
<1>2. Shown' = Shown \union Shown' /\ Shown' \in SUBSET Msgs
  BY DEF Settling, Shown
<1>3. Contract!Show(Shown')
  BY <1>1, <1>2 DEF Contract!Show, Settling
<1> QED
  BY <1>2, <1>3 DEF Contract!Next

(* Every step of the program is a step of the contract or none.            *)
LEMMA RefinementStep ==
  ASSUME IInv, [Next]_vars
  PROVE  [Contract!Next]_(Contract!promise)
<1> DEFINE Step == [Contract!Next]_(Contract!promise)
<1> USE DEF IInv
<1>1. ASSUME NEW p \in Callers, Transmit(p) PROVE Step
  <2>1. PICK c \in Codes \union {None} :
          onAir' = [onAir EXCEPT ![item[p]] = @ \union ({c} \ {None})]
    BY <1>1 DEF Transmit
  <2>2. item[p] \in Msgs
    BY <1>1 DEF Transmit, ItemsInUse, TypeOK
  <2>3. UNCHANGED <<Claim, Proven, Shown>>
    BY <1>1, SameClaim DEF Transmit, tables, Shown, Proven
  <2>4. CASE c = None
    BY <2>1, <2>3, <2>4 DEF Contract!promise, TypeOK
  <2>5. CASE c # None
    <3>1. onAir' = [onAir EXCEPT ![item[p]] = @ \union {c}] /\ c \in Codes
      BY <2>1, <2>5
    <3>2. Contract!Send(item[p], c)
      BY <2>3, <3>1 DEF Contract!Send
    <3> QED
      BY <2>2, <3>1, <3>2 DEF Contract!Next
  <2> QED
    BY <2>4, <2>5
<1>2. ASSUME NEW p \in Callers, SavePendingAck(p) PROVE Step
  <2>1. UNCHANGED <<Claim, onAir, Shown>>
    BY <1>2, SameClaim DEF SavePendingAck, Shown, mesh
  <2>2. UNCHANGED Proven
    BY <1>2, PrunedProven, <2>1 DEF SavePendingAck, Proven
  <2> QED
    BY <2>1, <2>2 DEF Contract!promise
<1>3. ASSUME NEW m \in Msgs, ClearFeed(m) PROVE Step
  <2>1. UNCHANGED <<Claim, onAir>>
    BY <1>3, SameClaim DEF ClearFeed, mesh
  <2>2. Shown' = Shown \ {m}
    BY <1>3 DEF ClearFeed, Shown, TypeOK
  <2>3. Proven' \in {Proven, Proven \ {m}}
    <3>1. UNCHANGED delivery_events
      BY <1>3 DEF ClearFeed
    <3>2. CASE m \in delivery_events
      BY <2>2, <3>1, <3>2 DEF Proven
    <3>3. CASE m \notin delivery_events
      BY <2>2, <3>1, <3>3 DEF Proven
    <3> QED
      BY <3>2, <3>3
  <2>4. Contract!Forget(m)
    BY <2>1, <2>2, <2>3 DEF Contract!Forget
  <2> QED
    BY <2>4 DEF Contract!Next
<1>4. ASSUME NEW m \in Msgs, ExpireEvent(m) PROVE Step
  <2>1. UNCHANGED <<Claim, onAir, Shown>>
    BY <1>4, SameClaim DEF ExpireEvent, Shown, mesh
  <2>2. CASE m \in Shown
    <3>1. UNCHANGED Proven
      BY <1>4, <2>1, <2>2 DEF ExpireEvent, Proven
    <3> QED
      BY <2>1, <3>1 DEF Contract!promise
  <2>3. CASE m \notin Shown
    <3>1. Proven' = Proven \ {m}
      BY <1>4, <2>1, <2>3 DEF ExpireEvent, Proven
    <3>2. Contract!Expire(m)
      BY <2>1, <2>3, <3>1 DEF Contract!Expire
    <3> QED
      BY <3>2 DEF Contract!Next
  <2> QED
    BY <2>2, <2>3
<1>5. ASSUME NEW c \in Codes, RxAck(c) PROVE Step
  <2>1. Claim[c] = None /\ Claim' = [Claim EXCEPT ![c] = "open"]
    BY <1>5 DEF RxAck, Claim, TypeOK
  <2>2. UNCHANGED <<onAir, Shown, Proven>>
    BY <1>5 DEF RxAck, tables, Shown, Proven
  <2>3. Contract!Hear(c)
    BY <1>5, <2>1, <2>2 DEF RxAck, Contract!Hear
  <2> QED
    BY <2>3 DEF Contract!Next
<1>6. ASSUME NEW c \in Codes, ConsumePendingAck(c) PROVE Step
  <2> DEFINE m == Correlated(c)
  <2>1. Claim[c] = "open" /\ Claim' = [Claim EXCEPT ![c] = m]
    BY <1>6 DEF ConsumePendingAck, Claim, TypeOK
  <2>2. UNCHANGED onAir
    BY <1>6 DEF ConsumePendingAck, mesh
  <2>3. CASE PrunedAcks[c] = None
    <3>1. UNCHANGED Shown
      BY <1>6, <2>3, NoneAssumption DEF ConsumePendingAck, Shown, TypeOK
    <3>2. UNCHANGED Proven
      BY <1>6, <2>3, <3>1, PrunedProven DEF ConsumePendingAck, Proven
    <3>3. CASE m = None
      <4>1. Claim' = [d \in Codes |-> IF d \in {c} THEN None ELSE Claim[d]]
        BY <2>1, <3>3 DEF Claim
      <4>2. Contract!Drop({c})
        BY <2>2, <3>1, <3>2, <4>1 DEF Contract!Drop
      <4> QED
        BY <4>2 DEF Contract!Next
    <3>4. CASE m # None
      <4>1. m \in Msgs /\ c \in onAir[m]
        BY <2>3, <3>4 DEF Correlated, CodesAreOwned, TypeOK
      <4>2. Contract!Settle(c, m)
        BY <2>1, <2>2, <3>1, <3>2, <4>1 DEF Contract!Settle
      <4> QED
        BY <4>1, <4>2 DEF Contract!Next
    <3> QED
      BY <3>3, <3>4
  <2>4. CASE PrunedAcks[c] # None
    <3>1. m = PrunedAcks[c] /\ m \in Msgs /\ c \in onAir[m]
      BY <2>4 DEF Correlated, PrunedAcks, CodesAreOwned, TypeOK
    <3>2. Shown' \in {Shown, Shown \union {m}}
      <4>1. messages' = [n \in Msgs |-> IF n = m /\ messages[n] # "absent"
                                        THEN "delivered" ELSE messages[n]]
        BY <1>6, <3>1 DEF ConsumePendingAck
      <4> HIDE DEF m
      <4>2. CASE messages[m] = "absent"
        BY <4>1, <4>2 DEF Shown, TypeOK
      <4>3. CASE messages[m] # "absent"
        BY <3>1, <4>1, <4>3 DEF Shown, TypeOK
      <4> QED
        BY <4>2, <4>3
    <3>3. Proven' = Proven \union {m}
      <4>1. delivery_events' = PrunedEvents \union {m}
        BY <1>6, <2>4, <3>1 DEF ConsumePendingAck
      <4> QED
        BY <3>2, <4>1, PrunedProven DEF Proven
    <3>4. Contract!Settle(c, m)
      BY <2>1, <2>2, <3>1, <3>2, <3>3 DEF Contract!Settle
    <3> QED
      BY <3>1, <3>4 DEF Contract!Next
  <2> QED
    BY <2>3, <2>4
<1>7. ASSUME NEW c \in Codes, PublishDelivered(c) PROVE Step
  <2>1. rx_msg[c] \in Msgs
    BY <1>7 DEF PublishDelivered, ItemsInUse, TypeOK
  <2>2. Claim[c] = rx_msg[c] /\ Claim' = [Claim EXCEPT ![c] = None]
    BY <1>7 DEF PublishDelivered, Claim, TypeOK
  <2>3. Shown' \in {Shown, Shown \union {rx_msg[c]}}
    <3>1. CASE messages[rx_msg[c]] = "absent"
      BY <1>7, <2>1, <3>1 DEF PublishDelivered, Shown, TypeOK
    <3>2. CASE messages[rx_msg[c]] # "absent"
      BY <1>7, <2>1, <3>2 DEF PublishDelivered, Shown, TypeOK
    <3> QED
      BY <3>1, <3>2
  <2>4. Proven' = Proven \union {rx_msg[c]}
    BY <1>7, <2>3 DEF PublishDelivered, Proven
  <2>5. UNCHANGED onAir
    BY <1>7 DEF PublishDelivered, mesh
  <2>6. Contract!Prove(c, rx_msg[c])
    BY <2>2, <2>3, <2>4, <2>5 DEF Contract!Prove
  <2> QED
    BY <2>1, <2>6 DEF Contract!Next
<1>8. ASSUME NEW c \in Codes, AckHandlingFails(c) PROVE Step
  <2>1. Claim' = [d \in Codes |-> IF d \in {c} THEN None ELSE Claim[d]]
    BY <1>8 DEF AckHandlingFails, Claim, TypeOK
  <2>2. UNCHANGED <<onAir, Shown, Proven>>
    BY <1>8 DEF AckHandlingFails, tables, mesh, Shown, Proven
  <2>3. Contract!Drop({c})
    BY <2>1, <2>2 DEF Contract!Drop
  <2> QED
    BY <2>3 DEF Contract!Next
<1>9. CASE Restart
  <2>1. Claim' = [d \in Codes |-> IF d \in Codes THEN None ELSE Claim[d]]
    BY <1>9 DEF Restart, Claim
  <2>2. UNCHANGED <<onAir, Shown>>
    BY <1>9 DEF Restart, mesh, Shown, TypeOK
  <2>3. UNCHANGED Proven
    BY <1>9, <2>2, PrunedProven DEF Restart, Proven
  <2>4. Contract!Drop(Codes)
    BY <2>1, <2>2, <2>3 DEF Contract!Drop
  <2> QED
    BY <2>4 DEF Contract!Next
<1>10. \/ UNCHANGED <<onAir, acks>>
       \/ \E p \in Callers : Transmit(p)
       \/ \E c \in Codes : RxAck(c) \/ ConsumePendingAck(c) \/ PublishDelivered(c)
                          \/ AckHandlingFails(c)
       \/ Restart
  BY DEF Next, System, Operator, ExecuteTx, HandleAck, vars, mesh, Refuse, PublishQueued,
     PublishQueuedFails, SendFails, Register, SavePendingAck, SavePendingAckFails,
     ScheduleFirst, ScheduleFirstFails, PublishOutcome, WorkerDone, Poll, LoopDone,
     LoopDoneFails, ResendDone, FallDue, ExpireEvent, ExpireTracker, ExpirePendingAck,
     Submit, Cancel, ClearFeed, Resend, ResendFails, UpdateConfig
<1> QED
  BY <1>1, <1>2, <1>3, <1>4, <1>5, <1>6, <1>7, <1>8, <1>9, <1>10, SettlingStep,
     SettlingRefines, SameClaim

(* The tracker, the four tables and the ACK handlers keep the promise of   *)
(* DeliveryContract: AckTracker.consume and consume_pending_ack settle every*)
(* ACK on at most one message that was on the air with its code.           *)
THEOREM ReceiptsImplementContract == Spec => ReceiptsAreHonest
<1>1. Init => Contract!Init
  BY DEF Init, Contract!Init, Claim, Proven, Shown
<1>2. IInv /\ [Next]_vars => [Contract!Next]_(Contract!promise)
  BY RefinementStep
<1> QED
  BY <1>1, <1>2, Invariance, PTL DEF Spec, ReceiptsAreHonest, Contract!Spec

-----------------------------------------------------------------------------
(* What _prune_acks leaves of a correlation; one that waits stays.          *)
LEMMA PrunedKeeps ==
  ASSUME TypeOK, NEW c \in Codes
  PROVE  /\ PrunedAcks[c] \in {pending_acks[c], None}
         /\ pending_acks[c] # None /\ Waiting(pending_acks[c])
              => PrunedAcks[c] = pending_acks[c]
<1>1. pending_acks[c] # None => pending_acks[c] \in Msgs
  BY DEF TypeOK
<1> QED
  BY <1>1 DEF PrunedAcks, Waiting

(* No registration, in memory or in the table, takes over a code whose     *)
(* owner waits; a restart puts the table in the place of the memory.        *)
THEOREM CodesAreKept == Spec => CodesKeepOwner
<1> DEFINE Kept == \A c \in Codes :
                     /\ pending_acks[c] # None /\ Waiting(pending_acks[c])
                          => pending_acks'[c] \in {pending_acks[c], None}
                     /\ tracker[c] # None
                          => tracker'[c] \in {tracker[c], None, pending_acks[c]}
<1>1. IInv /\ [Next]_vars => [Kept]_vars
  <2> SUFFICES ASSUME IInv, [Next]_vars PROVE Kept
    OBVIOUS
  <2>1. TypeOK /\ \A c \in Codes : pending_acks[c] \in Msgs \union {None}
    BY DEF IInv, TypeOK
  <2>2. ASSUME NEW p \in Callers, Register(p) PROVE Kept
    <3>1. UNCHANGED pending_acks
      BY <2>2 DEF Register, tables
    <3>2. ASSUME NEW c \in Codes, tracker[c] # None PROVE tracker'[c] = tracker[c]
      <4>1. CASE c = code[p] /\ RegisterResult(c, item[p]) = "registered"
        <5>1. tracker[c] = item[p]
          BY <3>2, <4>1 DEF RegisterResult
        <5> QED
          BY <2>1, <2>2, <4>1, <5>1 DEF Register, TypeOK
      <4>2. CASE ~(c = code[p] /\ RegisterResult(c, item[p]) = "registered")
        BY <2>1, <2>2, <4>2 DEF Register, TypeOK
      <4> QED
        BY <4>1, <4>2
    <3> QED
      BY <3>1, <3>2
  <2>3. ASSUME NEW p \in Callers, SavePendingAck(p) PROVE Kept
    <3>1. UNCHANGED tracker
      BY <2>3 DEF SavePendingAck
    <3>2. \/ pending_acks' = PrunedAcks
          \/ /\ PrunedAcks[code[p]] = None
             /\ pending_acks' = [PrunedAcks EXCEPT ![code[p]] = item[p]]
      BY <2>3 DEF SavePendingAck
    <3>3. ASSUME NEW c \in Codes, pending_acks[c] # None, Waiting(pending_acks[c])
          PROVE  pending_acks'[c] = pending_acks[c]
      <4>1. PrunedAcks[c] = pending_acks[c]
        BY <2>1, <3>3, PrunedKeeps
      <4>2. pending_acks'[c] = PrunedAcks[c]
        BY <3>2, <3>3, <4>1 DEF PrunedAcks
      <4> QED
        BY <4>1, <4>2
    <3> QED
      BY <3>1, <3>3
  <2>4. ASSUME NEW p \in Callers, ScheduleFirst(p) \/ ScheduleFirstFails(p) PROVE Kept
    <3>1. UNCHANGED pending_acks /\ tracker' = Resumed(p)
      BY <2>4 DEF ScheduleFirst, ScheduleFirstFails, tables
    <3> QED
      BY <2>1, <3>1 DEF Resumed, TypeOK
  <2>5. ASSUME NEW d \in Codes, RxAck(d) \/ ExpireTracker(d) \/ ExpirePendingAck(d)
        PROVE  Kept
    BY <2>1, <2>5 DEF RxAck, ExpireTracker, ExpirePendingAck, tables, TypeOK
  <2>6. ASSUME NEW d \in Codes, ConsumePendingAck(d) PROVE Kept
    <3>1. UNCHANGED tracker /\ pending_acks' = [PrunedAcks EXCEPT ![d] = None]
      BY <2>6 DEF ConsumePendingAck
    <3>2. ASSUME NEW c \in Codes PROVE pending_acks'[c] \in {PrunedAcks[c], None}
      BY <3>1 DEF PrunedAcks
    <3> QED
      BY <2>1, <3>1, <3>2, PrunedKeeps
  <2>7. ASSUME NEW d \in Codes, PublishDelivered(d) PROVE Kept
    BY <2>1, <2>7 DEF PublishDelivered
  <2>8. CASE Restart
    <3>1. tracker' = PrunedAcks /\ pending_acks' = PrunedAcks
      BY <2>8 DEF Restart
    <3> QED
      BY <2>1, <3>1, PrunedKeeps
  <2>9. CASE UNCHANGED <<pending_acks, tracker>>
    BY <2>9
  <2>10. \/ UNCHANGED <<pending_acks, tracker>>
         \/ \E p \in Callers : \/ Register(p) \/ SavePendingAck(p)
                               \/ ScheduleFirst(p) \/ ScheduleFirstFails(p)
         \/ \E d \in Codes : \/ RxAck(d) \/ ConsumePendingAck(d) \/ PublishDelivered(d)
                             \/ ExpireTracker(d) \/ ExpirePendingAck(d)
         \/ Restart
    BY DEF Next, System, Operator, ExecuteTx, HandleAck, vars, tables, Refuse, PublishQueued,
       PublishQueuedFails, Transmit, SendFails, SavePendingAckFails, PublishOutcome,
       WorkerDone, Poll, Dispatch, LoopDone, LoopDoneFails, ResendDone, FallDue, ExpireEvent,
       Submit, Cancel, ClearFeed, Resend, ResendFails, UpdateConfig, AckHandlingFails
  <2> QED
    BY <2>2, <2>3, <2>4, <2>5, <2>6, <2>7, <2>8, <2>9, <2>10
<1> QED
  BY <1>1, Invariance, PTL DEF Spec, CodesKeepOwner
=============================================================================
