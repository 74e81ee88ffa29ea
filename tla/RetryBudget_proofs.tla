------------------------- MODULE RetryBudget_proofs -------------------------
(***************************************************************************)
(* The bound on retransmissions, and the progress of a series of attempts, *)
(* while the operator leaves the retry policy alone and asks for no resend. *)
(***************************************************************************)
EXTENDS MessageDelivery_proofs

(* p is executing execute_tx for m.                                         *)
Runs(p, m) == pc[p] # "idle" /\ item[p] = m

(* A call that has not transmitted yet, and the steps of a call that has not*)
(* scheduled the first retry yet.                                          *)
Early(p) == pc[p] \in {"queued", "send"}
Unscheduled == {"queued", "send", "air", "persist", "schedule"}

(* The retry loop has nothing to do with m.                                 *)
Untried(m) ==
  /\ ~HasRow(pending_retries, m)
  /\ ~HasRow(batch, m)
  /\ ~Runs("loop", m)

(* A row, in the table or in the batch, is one of the policy in force.      *)
InPolicy(row) == row.max = max_retries /\ row.attempt <= max_retries

(* What m has cost so far, against the number of the attempt in its row, in*)
(* the batch or in the running call. During a call of the loop the row is   *)
(* no witness: execute_tx has put it back to attempt 1.                    *)
Account(m) ==
  /\ m \notin submitted => Untried(m) /\ ~Runs("worker", m) /\ spent[m] = 0
  /\ item["worker"] = m /\ pc["worker"] \in Unscheduled
       => Untried(m) /\ spent[m] <= (IF Early("worker") THEN 0 ELSE 1)
  /\ Runs("loop", m)
       => /\ ~HasRow(batch, m)
          /\ next_attempt \in 1..max_retries
          /\ spent[m] <= (IF Early("loop") THEN next_attempt - 1 ELSE next_attempt)
  /\ HasRow(pending_retries, m)
       => /\ InPolicy(pending_retries[m])
          /\ Runs("loop", m) \/ spent[m] <= pending_retries[m].attempt
  /\ HasRow(batch, m) => InPolicy(batch[m]) /\ spent[m] <= batch[m].attempt
  /\ spent[m] <= max_retries

Budgeted ==
  /\ auto_retry_enabled
  /\ \A r \in Resenders : pc[r] = "idle"
  /\ \A m \in Msgs : Account(m)

(* The callers that a settled program has, and the types of its numbers.    *)
LEMMA Numbers ==
  ASSUME TypeOK
  PROVE  /\ "loop" \in Callers /\ "worker" \in Callers /\ Resenders \subseteq Callers
         /\ "loop" \notin Resenders /\ "worker" \notin Resenders
         /\ max_retries \in Nat \ {0} /\ next_attempt \in Nat
         /\ \A m \in Msgs : /\ spent[m] \in Nat
                            /\ pending_retries[m] \in Rows /\ batch[m] \in Rows
                            /\ pending_retries[m].attempt \in Nat /\ batch[m].attempt \in Nat
<1>1. /\ "loop" \in Callers /\ "worker" \in Callers /\ Resenders \subseteq Callers
      /\ "loop" \notin Resenders /\ "worker" \notin Resenders
  BY CallersAssumption DEF Callers
<1>2. max_retries \in Nat \ {0} /\ next_attempt \in Nat
  BY RetriesAssumption DEF TypeOK
<1>3. \A m \in Msgs : spent[m] \in Nat
  BY CapacityAssumption DEF TypeOK
<1>4. \A m \in Msgs : /\ pending_retries[m] \in Rows /\ batch[m] \in Rows
                      /\ pending_retries[m].attempt \in Nat /\ batch[m].attempt \in Nat
  BY DEF TypeOK, Rows
<1> QED
  BY <1>1, <1>2, <1>3, <1>4

(* A pass of the loop ends, or starts the next attempt of one of its items.*)
LEMMA DispatchPicks ==
  ASSUME TypeOK, ~StorageFaults, NEW D \in [Msgs -> Rows], NEW rows \in [Msgs -> Rows],
         NEW msgs, Dispatch(D, rows, msgs), NEW m \in Msgs
  PROVE  /\ pending_retries'[m] \in {NoRow, rows[m]}
         /\ batch'[m] \in {NoRow, D[m]}
         /\ \A p \in Callers \ {"loop"} : pc'[p] = pc[p] /\ item'[p] = item[p]
         /\ \/ ~Runs("loop", m)'
            \/ /\ HasRow(D, m) /\ D[m].attempt < D[m].max
               /\ batch'[m] = NoRow
               /\ next_attempt' = D[m].attempt + 1
               /\ pc'["loop"] = "queued"
<1> DEFINE Pending == {n \in Msgs : HasRow(D, n)}
           Lost    == {n \in Pending : BusyHistory /\ msgs[n] = "delivered"}
<1>0. "loop" \in Callers
  BY DEF Callers
<1>1. PICK settled \in SUBSET Pending, missed \in SUBSET Lost, marked \in [Msgs -> Marked] :
        LET Seen(n) == msgs[n] = "delivered" /\ n \notin missed
            Exhausted(n) == ~Seen(n) /\ OutOfAttempts(D[n])
        IN
        /\ pending_retries' = [n \in Msgs |-> IF n \in settled THEN NoRow ELSE rows[n]]
        /\ \/ /\ batch' = NoBatch
              /\ End("loop")
           \/ \E n \in Pending \ settled :
                /\ ~Seen(n) /\ ~Exhausted(n)
                /\ batch' = [k \in Msgs |-> IF k \in settled \union {n} THEN NoRow ELSE D[k]]
                /\ next_attempt' = D[n].attempt + 1
                /\ Begin("loop", n)
  BY DEF Dispatch
<1>2. pending_retries'[m] \in {NoRow, rows[m]}
  BY <1>1
<1>3. CASE batch' = NoBatch /\ End("loop")
  <2>1. /\ pc'["loop"] = "idle"
        /\ \A p \in Callers \ {"loop"} : pc'[p] = pc[p] /\ item'[p] = item[p]
    BY <1>0, <1>3 DEF End, TypeOK
  <2> QED
    BY <1>2, <1>3, <2>1 DEF NoBatch, Runs
<1>4. ASSUME NEW n \in Msgs, HasRow(D, n), ~OutOfAttempts(D[n]),
             batch'[n] = NoRow, batch'[m] \in {NoRow, D[m]},
             next_attempt' = D[n].attempt + 1, Begin("loop", n)
      PROVE  /\ batch'[m] \in {NoRow, D[m]}
             /\ \A p \in Callers \ {"loop"} : pc'[p] = pc[p] /\ item'[p] = item[p]
             /\ \/ ~Runs("loop", m)'
                \/ /\ HasRow(D, m) /\ D[m].attempt < D[m].max
                   /\ batch'[m] = NoRow
                   /\ next_attempt' = D[m].attempt + 1
                   /\ pc'["loop"] = "queued"
  <2>1. /\ pc'["loop"] = "queued" /\ item'["loop"] = n
        /\ \A p \in Callers \ {"loop"} : pc'[p] = pc[p] /\ item'[p] = item[p]
    BY <1>0, <1>4 DEF Begin, TypeOK
  <2>2. D[n].attempt < D[n].max
    BY <1>4 DEF OutOfAttempts, Rows
  <2> QED
    BY <1>4, <2>1, <2>2 DEF Runs
<1>5. CASE \E n \in Pending \ settled :
             /\ ~(msgs[n] = "delivered" /\ n \notin missed)
             /\ ~(~(msgs[n] = "delivered" /\ n \notin missed) /\ OutOfAttempts(D[n]))
             /\ batch' = [k \in Msgs |-> IF k \in settled \union {n} THEN NoRow ELSE D[k]]
             /\ next_attempt' = D[n].attempt + 1
             /\ Begin("loop", n)
  BY <1>2, <1>4, <1>5
<1> QED
  BY <1>1, <1>2, <1>3, <1>5

(* If what the pass reads is in the account of m, so is what it leaves.     *)
LEMMA DispatchAccount ==
  ASSUME TypeOK, ~StorageFaults, NEW D \in [Msgs -> Rows], NEW rows \in [Msgs -> Rows],
         NEW msgs, Dispatch(D, rows, msgs), UNCHANGED <<config, mesh>>, NEW m \in Msgs,
         m \notin submitted \/ (item["worker"] = m /\ pc["worker"] \in Unscheduled)
           => ~HasRow(rows, m) /\ ~HasRow(D, m),
         HasRow(rows, m) => InPolicy(rows[m]) /\ spent[m] <= rows[m].attempt,
         HasRow(D, m) => InPolicy(D[m]) /\ spent[m] <= D[m].attempt,
         Account(m)
  PROVE  Account(m)'
<1>1. /\ pending_retries'[m] \in {NoRow, rows[m]}
      /\ batch'[m] \in {NoRow, D[m]}
      /\ pc'["worker"] = pc["worker"] /\ item'["worker"] = item["worker"]
      /\ \/ ~Runs("loop", m)'
         \/ /\ HasRow(D, m) /\ D[m].attempt < D[m].max
            /\ batch'[m] = NoRow
            /\ next_attempt' = D[m].attempt + 1
            /\ pc'["loop"] = "queued"
  BY DispatchPicks, Numbers
<1>2. /\ UNCHANGED <<submitted, spent, max_retries>>
      /\ spent[m] \in Nat /\ max_retries \in Nat
      /\ D[m].attempt \in Nat /\ rows[m].attempt \in Nat
  BY Numbers DEF config, mesh, Rows
<1>3. HasRow(pending_retries', m) => HasRow(rows, m) /\ pending_retries'[m] = rows[m]
  BY <1>1 DEF HasRow, NoRow
<1>4. HasRow(batch', m) => HasRow(D, m) /\ batch'[m] = D[m]
  BY <1>1 DEF HasRow, NoRow
<1>5. Runs("loop", m)' => /\ HasRow(D, m) /\ ~HasRow(batch', m)
                          /\ next_attempt' \in 1..max_retries
                          /\ spent[m] <= next_attempt' - 1
                          /\ pc'["loop"] = "queued"
  BY <1>1, <1>2 DEF HasRow, NoRow, InPolicy, Rows
<1>6. ~HasRow(rows, m) /\ ~HasRow(D, m) => Untried(m)'
  BY <1>3, <1>4, <1>5 DEF Untried, HasRow
<1>7. /\ Runs("worker", m)' <=> Runs("worker", m)
      /\ Early("worker")' <=> Early("worker")
  BY <1>1 DEF Runs, Early
<1>8. m \notin submitted' => Untried(m)' /\ ~Runs("worker", m)' /\ spent'[m] = 0
  BY <1>2, <1>6, <1>7 DEF Account
<1>9. item'["worker"] = m /\ pc'["worker"] \in Unscheduled
        => Untried(m)' /\ spent'[m] <= (IF Early("worker")' THEN 0 ELSE 1)
  BY <1>1, <1>2, <1>6, <1>7 DEF Account
<1>10. Runs("loop", m)'
         => /\ ~HasRow(batch', m)
            /\ next_attempt' \in 1..max_retries'
            /\ spent'[m] <= (IF Early("loop")' THEN next_attempt' - 1 ELSE next_attempt')
  BY <1>2, <1>5 DEF Early
<1>11. HasRow(pending_retries', m)
         => /\ InPolicy(pending_retries[m])'
            /\ Runs("loop", m)' \/ spent'[m] <= pending_retries'[m].attempt
  BY <1>2, <1>3 DEF InPolicy
<1>12. HasRow(batch', m) => InPolicy(batch[m])' /\ spent'[m] <= batch'[m].attempt
  BY <1>2, <1>4 DEF InPolicy
<1>13. spent'[m] <= max_retries'
  BY <1>2 DEF Account
<1> QED
  BY <1>8, <1>9, <1>10, <1>11, <1>12, <1>13 DEF Account, HasRow

(* What an account depends on, apart from the call of the worker or loop.   *)
ledger == <<pending_retries, config, item, loop, submitted, spent>>

(* A call goes on, without a transmission and without a retry.              *)
LEMMA Advance ==
  ASSUME TypeOK, NEW p \in {"worker", "loop"}, NEW s \in Steps \ {"idle"},
         pc[p] # "idle", Goto(p, s), UNCHANGED ledger,
         s \in {"queued", "send"} => Early(p),
         s \in Unscheduled => pc[p] \in Unscheduled,
         NEW m \in Msgs, Account(m)
  PROVE  Account(m)'
<1>1. /\ pc'[p] = s /\ \A q \in Callers \ {p} : pc'[q] = pc[q]
      /\ UNCHANGED <<pending_retries, batch, next_attempt, item, submitted, spent, max_retries>>
  BY Numbers DEF Goto, TypeOK, ledger, config, loop
<1>2. \A q \in {"worker", "loop"} : Runs(q, m)' <=> Runs(q, m)
  BY <1>1, Numbers DEF Runs
<1>3. \A q \in {"worker", "loop"} : Early(q)' => Early(q)
  BY <1>1, Numbers DEF Early
<1>4. pc'["worker"] \in Unscheduled => pc["worker"] \in Unscheduled
  BY <1>1, Numbers
<1>5. Untried(m)' <=> Untried(m)
  BY <1>1, <1>2 DEF Untried, HasRow
<1>6. m \notin submitted' => Untried(m)' /\ ~Runs("worker", m)' /\ spent'[m] = 0
  BY <1>1, <1>2, <1>5 DEF Account
<1>7. item'["worker"] = m /\ pc'["worker"] \in Unscheduled
        => Untried(m)' /\ spent'[m] <= (IF Early("worker")' THEN 0 ELSE 1)
  BY <1>1, <1>3, <1>4, <1>5, Numbers DEF Account
<1>8. Runs("loop", m)'
        => /\ ~HasRow(batch', m)
           /\ next_attempt' \in 1..max_retries'
           /\ spent'[m] <= (IF Early("loop")' THEN next_attempt' - 1 ELSE next_attempt')
  BY <1>1, <1>2, <1>3, Numbers DEF Account
<1>9. HasRow(pending_retries', m)
        => /\ InPolicy(pending_retries[m])'
           /\ Runs("loop", m)' \/ spent'[m] <= pending_retries'[m].attempt
  BY <1>1, <1>2 DEF Account, InPolicy
<1>10. /\ HasRow(batch', m) => InPolicy(batch[m])' /\ spent'[m] <= batch'[m].attempt
       /\ spent'[m] <= max_retries'
  BY <1>1 DEF Account, InPolicy
<1> QED
  BY <1>6, <1>7, <1>8, <1>9, <1>10 DEF Account, HasRow

(* A row that goes, or falls due, costs nothing.                            *)
LEMMA RowGoes ==
  ASSUME UNCHANGED <<pc, item, batch, next_attempt, max_retries, submitted, spent>>,
         NEW m \in Msgs, Account(m),
         \/ pending_retries'[m] = NoRow
         \/ /\ pending_retries'[m].attempt = pending_retries[m].attempt
            /\ pending_retries'[m].max = pending_retries[m].max
  PROVE  Account(m)'
<1>1. HasRow(pending_retries', m)
        => /\ HasRow(pending_retries, m)
           /\ pending_retries'[m].attempt = pending_retries[m].attempt
           /\ pending_retries'[m].max = pending_retries[m].max
  BY DEF HasRow, NoRow
<1>2. Untried(m) => Untried(m)'
  BY <1>1 DEF Untried, Runs, HasRow
<1> QED
  BY <1>1, <1>2 DEF Account, HasRow, Runs, Early, InPolicy

(* A transmission of the worker is the first, one of the loop is that of   *)
(* its attempt.                                                            *)
LEMMA TransmitAccount ==
  ASSUME TypeOK, ItemsInUse, NEW p \in {"worker", "loop"}, Transmit(p),
         NEW m \in Msgs, Account(m)
  PROVE  Account(m)'
<1>1. /\ pc'[p] = "air" /\ pc[p] = "send" /\ \A q \in Callers \ {p} : pc'[q] = pc[q]
      /\ UNCHANGED <<pending_retries, batch, next_attempt, item, submitted, max_retries>>
      /\ item[p] \in Msgs
  BY Numbers DEF Transmit, Goto, TypeOK, ItemsInUse, tables, config, loop
<1>2. spent'[m] = IF item[p] = m THEN spent[m] + 1 ELSE spent[m]
  BY <1>1 DEF Transmit, TypeOK
<1>3. \A q \in {"worker", "loop"} : Runs(q, m)' <=> Runs(q, m)
  BY <1>1, Numbers DEF Runs
<1>4. Untried(m)' <=> Untried(m)
  BY <1>1, <1>3 DEF Untried, HasRow
<1>5. CASE item[p] # m
  <2>1. spent'[m] = spent[m]
    BY <1>2, <1>5
  <2>2. \A q \in {"worker", "loop"} : item[q] = m => pc'[q] = pc[q]
    BY <1>1, <1>5, Numbers
  <2> QED
    BY <1>1, <1>3, <1>4, <2>1, <2>2 DEF Account, HasRow, Runs, Early, InPolicy
<1>6. CASE item[p] = m /\ p = "worker"
  <2>1. Untried(m) /\ spent[m] = 0 /\ m \in submitted
    BY <1>1, <1>6, Numbers DEF Account, Unscheduled, Early, Runs
  <2>2. spent'[m] = 1 /\ ~Early("worker")' /\ Untried(m)'
    BY <1>1, <1>2, <1>4, <1>6, <2>1 DEF Early
  <2> QED
    BY <1>1, <2>1, <2>2, Numbers DEF Account, Untried
<1>7. CASE item[p] = m /\ p = "loop"
  <2>1. Runs("loop", m) /\ Early("loop")
    BY <1>1, <1>7 DEF Runs, Early
  <2>2. /\ m \in submitted /\ ~HasRow(batch, m) /\ next_attempt \in 1..max_retries
        /\ spent[m] <= next_attempt - 1
        /\ ~(item["worker"] = m /\ pc["worker"] \in Unscheduled)
    BY <2>1 DEF Account, Untried
  <2>3. spent'[m] <= next_attempt /\ ~Early("loop")' /\ pc'["worker"] = pc["worker"]
    BY <1>1, <1>2, <1>7, <2>2, Numbers DEF Early
  <2>4. HasRow(pending_retries, m) => InPolicy(pending_retries[m])
    BY DEF Account
  <2>5. spent'[m] <= max_retries
    BY <1>2, <1>7, <2>2, <2>3, Numbers
  <2> QED
    BY <1>1, <1>3, <2>1, <2>2, <2>3, <2>4, <2>5 DEF Account, HasRow, InPolicy
<1> QED
  BY <1>5, <1>6, <1>7

(* schedule_retry(m, 1) after a transmission makes a row that counts what   *)
(* the worker has spent; that of the loop is overwritten when it is done.  *)
LEMMA ScheduleAccount ==
  ASSUME TypeOK, ItemsInUse, auto_retry_enabled, NEW p \in {"worker", "loop"},
         ScheduleFirst(p), NEW m \in Msgs, Account(m)
  PROVE  Account(m)'
<1>1. /\ pc'[p] = "publish" /\ pc[p] = "schedule" /\ \A q \in Callers \ {p} : pc'[q] = pc[q]
      /\ UNCHANGED <<batch, next_attempt, item, submitted, spent, max_retries>>
      /\ item[p] \in Msgs
  BY Numbers DEF ScheduleFirst, Goto, TypeOK, ItemsInUse, config, loop, mesh
<1>2. MaySchedule(1)
  BY Numbers DEF MaySchedule
<1>3. pending_retries'[m] = IF item[p] = m THEN NewRow(1) ELSE pending_retries[m]
  BY <1>1, <1>2 DEF ScheduleFirst, ScheduledRows, TypeOK
<1>4. \A q \in {"worker", "loop"} : Runs(q, m)' <=> Runs(q, m)
  BY <1>1, Numbers DEF Runs
<1>5. CASE item[p] # m
  <2>1. pending_retries'[m] = pending_retries[m]
    BY <1>3, <1>5
  <2>2. \A q \in {"worker", "loop"} : item[q] = m => pc'[q] = pc[q]
    BY <1>1, <1>5, Numbers
  <2>3. Untried(m)' <=> Untried(m)
    BY <1>1, <1>4, <2>1 DEF Untried, HasRow
  <2> QED
    BY <1>1, <1>4, <2>1, <2>2, <2>3 DEF Account, HasRow, Runs, Early, InPolicy
<1>6. CASE item[p] = m
  <2>1. /\ pending_retries'[m].attempt = 1 /\ pending_retries'[m].max = max_retries
        /\ InPolicy(pending_retries[m])'
    BY <1>1, <1>3, <1>6, Numbers DEF NewRow, InPolicy
  <2>2. CASE p = "worker"
    <3>1. Untried(m) /\ spent[m] <= 1 /\ m \in submitted
      BY <1>1, <1>6, <2>2, Numbers DEF Account, Unscheduled, Early, Runs
    <3>2. pc'["worker"] \notin Unscheduled
      BY <1>1, <2>2 DEF Unscheduled
    <3> QED
      BY <1>1, <1>4, <2>1, <3>1, <3>2 DEF Account, Untried, HasRow
  <2>3. CASE p = "loop"
    <3>1. Runs("loop", m) /\ ~Early("loop") /\ ~Early("loop")'
      BY <1>1, <1>6, <2>3 DEF Runs, Early
    <3>2. /\ m \in submitted
          /\ ~(item["worker"] = m /\ pc["worker"] \in Unscheduled)
          /\ pc'["worker"] = pc["worker"]
      BY <1>1, <2>3, <3>1, Numbers DEF Account, Untried
    <3> QED
      BY <1>1, <1>4, <2>1, <3>1, <3>2 DEF Account, HasRow
  <2> QED
    BY <2>2, <2>3
<1> QED
  BY <1>5, <1>6

(* Only a transmission of the worker or of the loop goes on in a program   *)
(* that nobody asks to resend.                                             *)
LEMMA CallAccount ==
  ASSUME TypeOK, ItemsInUse, Budgeted, ~StorageFaults, NEW p \in Callers, ExecuteTx(p),
         NEW m \in Msgs
  PROVE  Account(m)'
<1>1. pc[p] # "idle"
  BY DEF ExecuteTx, Refuse, PublishQueued, PublishQueuedFails, Transmit, SendFails, Register,
     SavePendingAck, SavePendingAckFails, ScheduleFirst, ScheduleFirstFails, PublishOutcome
<1>2. p \in {"worker", "loop"} /\ Account(m) /\ auto_retry_enabled
  BY <1>1 DEF Budgeted, Callers
<1>3. CASE Transmit(p)
  BY <1>2, <1>3, TransmitAccount
<1>4. CASE ScheduleFirst(p)
  BY <1>2, <1>4, ScheduleAccount
<1>5. CASE Refuse(p) \/ PublishQueued(p) \/ SendFails(p) \/ Register(p)
           \/ SavePendingAck(p) \/ PublishOutcome(p)
  <2>1. UNCHANGED ledger
    BY <1>5 DEF Refuse, PublishQueued, SendFails, Register, SavePendingAck, PublishOutcome,
       ledger, tables, mesh
  <2>2. \E s \in Steps \ {"idle"} :
          /\ Goto(p, s)
          /\ s \in {"queued", "send"} => Early(p)
          /\ s \in Unscheduled => pc[p] \in Unscheduled
    <3>1. CASE Refuse(p)
      BY <3>1 DEF Refuse, Steps, Unscheduled
    <3>2. CASE PublishQueued(p)
      BY <3>2 DEF PublishQueued, Steps, Unscheduled, Early
    <3>3. CASE SendFails(p)
      BY <3>3 DEF SendFails, Steps, Unscheduled
    <3>4. CASE Register(p)
      BY <3>4 DEF Register, Steps, Unscheduled
    <3>5. CASE SavePendingAck(p)
      BY <3>5 DEF SavePendingAck, Steps, Unscheduled
    <3>6. CASE PublishOutcome(p)
      BY <3>6 DEF PublishOutcome, Steps, Unscheduled
    <3> QED
      BY <1>5, <3>1, <3>2, <3>3, <3>4, <3>5, <3>6
  <2> QED
    BY <1>1, <1>2, <2>1, <2>2, Advance
<1> QED
  BY <1>3, <1>4, <1>5 DEF ExecuteTx, PublishQueuedFails, SavePendingAckFails,
     ScheduleFirstFails

(* The end of a call of the loop: the row becomes that of the attempt that *)
(* was made, whatever execute_tx or a cancellation did to it.              *)
LEMMA LoopDoneAccount ==
  ASSUME TypeOK, ItemsInUse, Budgeted, ~StorageFaults, LoopDone, NEW m \in Msgs
  PROVE  Account(m)'
<1> DEFINE rows == ScheduledRows(item["loop"], next_attempt)
<1>1. /\ item["loop"] \in Msgs /\ Account(item["loop"]) /\ Account(m)
      /\ pc["loop"] = "done" /\ next_attempt \in Nat /\ auto_retry_enabled
  BY Numbers DEF LoopDone, ItemsInUse, Budgeted, TypeOK
<1>2. Runs("loop", item["loop"]) /\ next_attempt \in 1..max_retries
  BY <1>1 DEF Runs, Account
<1>3. MaySchedule(next_attempt)
  BY <1>1, <1>2, Numbers DEF MaySchedule
<1>4. rows[m] = IF item["loop"] = m THEN NewRow(next_attempt) ELSE pending_retries[m]
  BY <1>1, <1>3 DEF ScheduledRows, TypeOK
<1>5. PICK marked \in Marked :
        Dispatch(batch, rows, ScheduledMessages(item["loop"], next_attempt, marked))
  BY DEF LoopDone
<1>6. rows \in [Msgs -> Rows] /\ batch \in [Msgs -> Rows]
  BY <1>1, ScheduledType DEF TypeOK
<1>7. UNCHANGED <<config, mesh>>
  BY DEF LoopDone
<1> HIDE DEF rows
<1>8. m \notin submitted \/ (item["worker"] = m /\ pc["worker"] \in Unscheduled)
        => ~HasRow(rows, m) /\ ~HasRow(batch, m)
  BY <1>1, <1>2, <1>4 DEF Account, Untried, HasRow
<1>9. HasRow(rows, m) => InPolicy(rows[m]) /\ spent[m] <= rows[m].attempt
  <2>1. CASE item["loop"] = m
    <3>1. spent[m] <= next_attempt
      BY <1>1, <1>2, <2>1 DEF Account, Early
    <3> QED
      BY <1>2, <1>4, <2>1, <3>1, Numbers DEF NewRow, InPolicy
  <2>2. CASE item["loop"] # m
    BY <1>1, <1>4, <2>2 DEF Account, Runs, HasRow
  <2> QED
    BY <2>1, <2>2
<1>10. HasRow(batch, m) => InPolicy(batch[m]) /\ spent[m] <= batch[m].attempt
  BY <1>1 DEF Account
<1> QED
  BY <1>1, <1>5, <1>6, <1>7, <1>8, <1>9, <1>10, DispatchAccount

(* A pass that starts from the table.                                       *)
LEMMA PollAccount ==
  ASSUME TypeOK, Budgeted, ~StorageFaults, Poll, NEW m \in Msgs
  PROVE  Account(m)'
<1> DEFINE Due == {n \in Msgs : HasRow(pending_retries, n) /\ pending_retries[n].due}
           D == [n \in Msgs |-> IF n \in Due THEN pending_retries[n] ELSE NoRow]
<1>1. Account(m) /\ ~Runs("loop", m)
  BY DEF Poll, Budgeted, Runs
<1>2. D \in [Msgs -> Rows] /\ pending_retries \in [Msgs -> Rows]
  BY RowTypes DEF TypeOK
<1>3. Dispatch(D, pending_retries, messages) /\ UNCHANGED <<config, mesh>>
  BY DEF Poll
<1>4. HasRow(D, m) => HasRow(pending_retries, m) /\ D[m] = pending_retries[m]
  BY DEF HasRow, NoRow
<1> HIDE DEF D
<1>5. m \notin submitted \/ (item["worker"] = m /\ pc["worker"] \in Unscheduled)
        => ~HasRow(pending_retries, m) /\ ~HasRow(D, m)
  BY <1>1, <1>4 DEF Account, Untried
<1>6. HasRow(pending_retries, m) => /\ InPolicy(pending_retries[m])
                                    /\ spent[m] <= pending_retries[m].attempt
  BY <1>1 DEF Account
<1>7. HasRow(D, m) => InPolicy(D[m]) /\ spent[m] <= D[m].attempt
  BY <1>4, <1>6
<1> QED
  BY <1>1, <1>2, <1>3, <1>5, <1>6, <1>7, DispatchAccount

(* A message is handed to the queue once, when nothing is known of it.      *)
LEMMA SubmitAccount ==
  ASSUME TypeOK, Budgeted, NEW n \in Msgs, Submit(n), NEW m \in Msgs
  PROVE  Account(m)'
<1>1. /\ Account(m) /\ UNCHANGED <<pending_retries, batch, next_attempt, max_retries>>
      /\ pc'["worker"] = "queued" /\ item'["worker"] = n
      /\ pc'["loop"] = pc["loop"] /\ item'["loop"] = item["loop"]
      /\ submitted' = submitted \union {n} /\ n \notin submitted
      /\ spent' = [spent EXCEPT ![n] = 0]
  BY Numbers DEF Submit, Begin, Budgeted, TypeOK, tables, config, loop
<1>2. (Runs("loop", m)' <=> Runs("loop", m)) /\ (Early("loop")' <=> Early("loop"))
  BY <1>1 DEF Runs, Early
<1>3. Untried(m)' <=> Untried(m)
  BY <1>1, <1>2 DEF Untried, HasRow
<1>4. CASE m = n
  <2>1. Untried(m) /\ spent'[m] = 0 /\ Early("worker")'
    BY <1>1, <1>4 DEF Account, Early, TypeOK
  <2> QED
    BY <1>1, <1>3, <1>4, <2>1, Numbers DEF Account, Untried
<1>5. CASE m # n
  <2>1. spent'[m] = spent[m] /\ ~Runs("worker", m)' /\ item'["worker"] # m
    BY <1>1, <1>5 DEF Runs, TypeOK
  <2> QED
    BY <1>1, <1>2, <1>3, <1>5, <2>1 DEF Account, HasRow, InPolicy
<1> QED
  BY <1>4, <1>5

(* Every step of the settled program keeps the accounts.                    *)
LEMMA AccountStep ==
  ASSUME TypeOK, ItemsInUse, Budgeted, ~StorageFaults, [SettledNext]_vars, NEW m \in Msgs
  PROVE  Account(m)'
<1>0. Account(m)
  BY DEF Budgeted
<1>1. ASSUME NEW p \in Callers, ExecuteTx(p) PROVE Account(m)'
  BY <1>1, CallAccount
<1>2. CASE Poll \/ LoopDone
  BY <1>2, PollAccount, LoopDoneAccount
<1>3. ASSUME NEW n \in Msgs, Submit(n) PROVE Account(m)'
  BY <1>3, SubmitAccount
<1>4. CASE WorkerDone
  <2>1. /\ UNCHANGED <<pending_retries, batch, next_attempt, max_retries, submitted, spent>>
        /\ pc'["worker"] = "idle" /\ pc'["loop"] = pc["loop"] /\ item'["loop"] = item["loop"]
    BY <1>4, Numbers DEF WorkerDone, End, TypeOK, tables, config, loop, mesh
  <2>2. ~Runs("worker", m)' /\ pc'["worker"] \notin Unscheduled
    BY <2>1 DEF Runs, Unscheduled
  <2> QED
    BY <1>0, <2>1, <2>2 DEF Account, Untried, Runs, HasRow, Early, InPolicy
<1>5. ASSUME NEW n \in Msgs, FallDue(n) \/ ExpireEvent(n) \/ Cancel(n) \/ ClearFeed(n)
      PROVE  Account(m)'
  <2>1. UNCHANGED <<pc, item, batch, next_attempt, max_retries, submitted, spent>>
    BY <1>5 DEF FallDue, ExpireEvent, Cancel, ClearFeed, calls, loop, config, mesh
  <2>2. \/ pending_retries'[m] = NoRow
        \/ /\ pending_retries'[m].attempt = pending_retries[m].attempt
           /\ pending_retries'[m].max = pending_retries[m].max
    BY <1>5 DEF FallDue, ExpireEvent, Cancel, ClearFeed, TypeOK, Rows
  <2> QED
    BY <1>0, <2>1, <2>2, RowGoes
<1>6. ASSUME NEW c \in Codes, HandleAck(c) PROVE Account(m)'
  <2>1. UNCHANGED <<pc, item, batch, next_attempt, max_retries, submitted, spent>>
    BY <1>6 DEF HandleAck, RxAck, ConsumePendingAck, PublishDelivered, AckHandlingFails,
       ExpireTracker, ExpirePendingAck, calls, loop, config, mesh
  <2>2. pending_retries'[m] \in {pending_retries[m], NoRow}
    BY <1>6 DEF HandleAck, RxAck, ConsumePendingAck, PublishDelivered, AckHandlingFails,
       ExpireTracker, ExpirePendingAck, tables, TypeOK
  <2> QED
    BY <1>0, <2>1, <2>2, RowGoes
<1>7. ASSUME NEW r \in Resenders PROVE ~ResendDone(r)
  BY DEF ResendDone, Budgeted
<1>8. CASE UNCHANGED vars
  BY <1>0, <1>8, RowGoes DEF vars, tables, config, calls, loop, mesh
<1> QED
  BY <1>1, <1>2, <1>3, <1>4, <1>5, <1>6, <1>7, <1>8 DEF SettledNext, System, LoopDoneFails

(* Nobody changes the policy, and no resend starts.                         *)
LEMMA SettledStays ==
  ASSUME TypeOK, Budgeted, ~StorageFaults, [SettledNext]_vars
  PROVE  auto_retry_enabled' /\ \A r \in Resenders : pc'[r] = "idle"
<1>1. auto_retry_enabled'
  BY DEF Budgeted, SettledNext, System, ExecuteTx, Refuse, PublishQueued, PublishQueuedFails,
     Transmit, SendFails, Register, SavePendingAck, SavePendingAckFails, ScheduleFirst,
     ScheduleFirstFails, PublishOutcome, WorkerDone, Poll, LoopDone, LoopDoneFails, ResendDone,
     FallDue, ExpireEvent, HandleAck, RxAck, ConsumePendingAck, PublishDelivered,
     AckHandlingFails, ExpireTracker, ExpirePendingAck, Submit, Cancel, ClearFeed, config, vars
<1>2. ASSUME NEW r \in Resenders PROVE pc'[r] = "idle"
  <2>0. pc[r] = "idle" /\ r \in Callers /\ r # "worker" /\ r # "loop"
    BY Numbers DEF Budgeted
  <2>1. ASSUME NEW p \in Callers, ExecuteTx(p) PROVE pc'[r] = pc[r]
    <3>1. pc[p] # "idle" /\ \E s \in Steps : Goto(p, s)
      BY <2>1 DEF ExecuteTx, Refuse, PublishQueued, PublishQueuedFails, Transmit, SendFails,
         Register, SavePendingAck, SavePendingAckFails, ScheduleFirst, ScheduleFirstFails,
         PublishOutcome, Steps
    <3> QED
      BY <2>0, <3>1 DEF Goto, TypeOK
  <2>2. CASE Poll
    <3>1. \E D \in [Msgs -> Rows] : Dispatch(D, pending_retries, messages)
      <4> DEFINE Due == {n \in Msgs : HasRow(pending_retries, n) /\ pending_retries[n].due}
                 D == [n \in Msgs |-> IF n \in Due THEN pending_retries[n] ELSE NoRow]
      <4>1. D \in [Msgs -> Rows]
        BY RowTypes DEF TypeOK
      <4> QED
        BY <2>2, <4>1 DEF Poll
    <3>2. Fresh("loop")
      BY <3>1, FreshDispatch
    <3> QED
      BY <2>0, <3>2 DEF Fresh, TypeOK
  <2>3. CASE LoopDone
    <3>1. Fresh("loop")
      BY <2>3, FreshDispatch DEF LoopDone
    <3> QED
      BY <2>0, <3>1 DEF Fresh, TypeOK
  <2>4. CASE WorkerDone
    BY <2>0, <2>4 DEF WorkerDone, End, TypeOK
  <2>5. ASSUME NEW n \in Msgs, Submit(n) PROVE pc'[r] = pc[r]
    BY <2>0, <2>5 DEF Submit, Begin, TypeOK
  <2>6. ASSUME NEW q \in Resenders PROVE ~ResendDone(q)
    BY DEF ResendDone, Budgeted
  <2>7. ASSUME NEW n \in Msgs, FallDue(n) \/ ExpireEvent(n) \/ Cancel(n) \/ ClearFeed(n)
        PROVE  pc'[r] = pc[r]
    BY <2>7 DEF FallDue, ExpireEvent, Cancel, ClearFeed, calls
  <2>8. ASSUME NEW c \in Codes, HandleAck(c) PROVE pc'[r] = pc[r]
    BY <2>8 DEF HandleAck, RxAck, ConsumePendingAck, PublishDelivered, AckHandlingFails,
       ExpireTracker, ExpirePendingAck, calls
  <2>9. CASE UNCHANGED vars
    BY <2>0, <2>9 DEF vars, calls
  <2> QED
    BY <2>0, <2>1, <2>2, <2>3, <2>4, <2>5, <2>6, <2>7, <2>8, <2>9
       DEF SettledNext, System, LoopDoneFails
<1> QED
  BY <1>1, <1>2

(* A settled program is a program.                                          *)
LEMMA SettledIsProgram == SettledSpec => Spec
<1>1. [SettledNext]_vars => [Next]_vars
  BY DEF SettledNext, Next, Operator
<1> QED
  BY <1>1, PTL DEF SettledSpec, Spec

(* The accounts hold in every settled program.                              *)
LEMMA SettledInvariance ==
  ASSUME ~StorageFaults PROVE SettledSpec => [](TypeOK /\ ItemsInUse /\ Budgeted)
<1>1. Init => Budgeted
  <2> SUFFICES ASSUME Init PROVE Budgeted
    OBVIOUS
  <2>1. /\ auto_retry_enabled /\ max_retries \in Nat \ {0}
        /\ \A p \in Callers : pc[p] = "idle" /\ item[p] = None
    BY RetriesAssumption DEF Init
  <2>2. ASSUME NEW m \in Msgs PROVE Account(m)
    <3>1. Untried(m) /\ ~Runs("worker", m) /\ spent[m] = 0 /\ item["worker"] # m
      BY <2>1, NoneAssumption DEF Init, Untried, Runs, HasRow, NoRow, NoBatch, Callers
    <3> QED
      BY <2>1, <3>1 DEF Account, Untried
  <2> QED
    BY <2>1, <2>2 DEF Budgeted, Callers
<1>2. TypeOK /\ ItemsInUse /\ Budgeted /\ [SettledNext]_vars => Budgeted'
  BY AccountStep, SettledStays DEF Budgeted
<1>3. IInv => TypeOK /\ ItemsInUse
  BY DEF IInv
<1> QED
  BY <1>1, <1>2, <1>3, SettledIsProgram, Invariance, PTL DEF SettledSpec

(* While no write of SQLite fails, a message that the user sends costs at   *)
(* most max_retries transmissions: execute_tx schedules attempt 1 after    *)
(* each of them, also those of the loop, but the loop writes the number it *)
(* counted over that row, through cancellations, clearings and ACKs.       *)
THEOREM RetriesAreBudgeted == ASSUME ~StorageFaults PROVE SettledSpec => []RetryBudget
<1>1. Budgeted => RetryBudget
  BY DEF Budgeted, Account, RetryBudget
<1> QED
  BY <1>1, SettledInvariance, PTL

-----------------------------------------------------------------------------
(* The series of attempts of a message goes on by one at a time, and ends   *)

(* The worker still owes m its first retry.                                 *)
Owed(m) == item["worker"] = m /\ pc["worker"] \in Unscheduled

(* The retries of m are over: it was sent, and nothing brings it back.      *)
Over(m) == m \in submitted /\ Untried(m) /\ ~Owed(m)

(* The number of the attempt that m has reached.                            *)
Reached(m) ==
  IF Runs("loop", m) THEN next_attempt
  ELSE IF HasRow(batch, m) THEN batch[m].attempt
  ELSE pending_retries[m].attempt

SeriesInPolicy == \A m \in Msgs : ~Untried(m) => Reached(m) \in 1..max_retries

(* What is over stays over; what is not over goes on from where it was, and *)
(* counts one when the loop starts execute_tx for it.                       *)
Advances(m) ==
  /\ Over(m) => Over(m)'
  /\ ~Untried(m) =>
       \/ Over(m)'
       \/ /\ ~Untried(m)'
          /\ Reached(m)' = IF ~Runs("loop", m) /\ Runs("loop", m)'
                           THEN Reached(m) + 1 ELSE Reached(m)
SeriesAdvance == [][\A m \in Msgs : Advances(m)]_vars

(* The batch does not outlive the pass of the loop.                         *)
BatchEnds == pc["loop"] = "idle" => batch = NoBatch

(* A step that leaves the loop alone and at most takes the row away.        *)
LEMMA SteadyAdvances ==
  ASSUME NEW m \in Msgs, Account(m), UNCHANGED <<batch, next_attempt>>,
         Runs("loop", m)' <=> Runs("loop", m),
         pending_retries'[m].attempt \in {pending_retries[m].attempt, 0},
         m \in submitted => m \in submitted', Owed(m)' => Owed(m)
  PROVE  Advances(m)
<1>1. Untried(m) => Untried(m)'
  BY DEF Untried, HasRow
<1>2. Over(m) => Over(m)'
  BY <1>1 DEF Over
<1>3. ASSUME ~Untried(m), Untried(m)' PROVE Over(m)'
  BY <1>3 DEF Account, Over, Owed
<1>4. ASSUME ~Untried(m), ~Untried(m)' PROVE Reached(m)' = Reached(m)
  BY <1>4 DEF Untried, HasRow, Reached
<1> QED
  BY <1>2, <1>3, <1>4 DEF Advances

(* What a pass of the loop does with m: it settles it, starts its next      *)
(* attempt, keeps it for later in the pass, or does not know of it.         *)
LEMMA DispatchParts ==
  ASSUME TypeOK, ~StorageFaults, NEW D \in [Msgs -> Rows], NEW rows \in [Msgs -> Rows],
         NEW msgs, Dispatch(D, rows, msgs), NEW m \in Msgs
  PROVE  /\ pc'["worker"] = pc["worker"] /\ item'["worker"] = item["worker"]
         /\ \/ /\ ~Runs("loop", m)' /\ batch'[m] = NoRow /\ pending_retries'[m] = NoRow
            \/ /\ ~Runs("loop", m)' /\ batch'[m] = D[m] /\ pending_retries'[m] = rows[m]
            \/ /\ HasRow(D, m) /\ Runs("loop", m)' /\ batch'[m] = NoRow
               /\ next_attempt' = D[m].attempt + 1
            \/ /\ ~HasRow(D, m) /\ ~Runs("loop", m)' /\ batch'[m] = NoRow
               /\ pending_retries'[m] = rows[m]
<1> DEFINE Pending == {n \in Msgs : HasRow(D, n)}
           Lost    == {n \in Pending : BusyHistory /\ msgs[n] = "delivered"}
<1>1. PICK settled \in SUBSET Pending :
        /\ pending_retries' = [n \in Msgs |-> IF n \in settled THEN NoRow ELSE rows[n]]
        /\ \/ /\ settled = Pending
              /\ batch' = NoBatch
              /\ End("loop")
           \/ \E n \in Pending \ settled :
                /\ batch' = [k \in Msgs |-> IF k \in settled \union {n} THEN NoRow ELSE D[k]]
                /\ next_attempt' = D[n].attempt + 1
                /\ Begin("loop", n)
  BY DEF Dispatch
<1>2. CASE settled = Pending /\ batch' = NoBatch /\ End("loop")
  <2>1. /\ pc'["loop"] = "idle" /\ pc'["worker"] = pc["worker"]
        /\ item'["worker"] = item["worker"]
    BY <1>2, Numbers DEF End, TypeOK
  <2>2. ~Runs("loop", m)' /\ batch'[m] = NoRow
    BY <1>2, <2>1 DEF Runs, NoBatch
  <2> QED
    BY <1>1, <1>2, <2>1, <2>2
<1>3. ASSUME NEW n \in Pending \ settled,
             batch' = [k \in Msgs |-> IF k \in settled \union {n} THEN NoRow ELSE D[k]],
             next_attempt' = D[n].attempt + 1, Begin("loop", n)
      PROVE  /\ pc'["worker"] = pc["worker"] /\ item'["worker"] = item["worker"]
             /\ \/ /\ ~Runs("loop", m)' /\ batch'[m] = NoRow /\ pending_retries'[m] = NoRow
                \/ /\ ~Runs("loop", m)' /\ batch'[m] = D[m] /\ pending_retries'[m] = rows[m]
                \/ /\ HasRow(D, m) /\ Runs("loop", m)' /\ batch'[m] = NoRow
                   /\ next_attempt' = D[m].attempt + 1
  <2>1. /\ pc'["loop"] = "queued" /\ item'["loop"] = n
        /\ pc'["worker"] = pc["worker"] /\ item'["worker"] = item["worker"]
    BY <1>3, Numbers DEF Begin, TypeOK
  <2>2. Runs("loop", m)' <=> n = m
    BY <2>1 DEF Runs
  <2> QED
    BY <1>1, <1>3, <2>1, <2>2
<1> QED
  BY <1>1, <1>2, <1>3

(* A pass that reads of m what m has reached.                               *)
LEMMA DispatchAdvances ==
  ASSUME TypeOK, ~StorageFaults, NEW D \in [Msgs -> Rows], NEW rows \in [Msgs -> Rows],
         NEW msgs, Dispatch(D, rows, msgs), submitted' = submitted, NEW m \in Msgs, Account(m),
         HasRow(D, m) => ~Runs("loop", m) /\ Reached(m) = D[m].attempt,
         ~HasRow(D, m) /\ ~Untried(m) => Reached(m) = rows[m].attempt,
         Untried(m) => ~HasRow(D, m) /\ ~HasRow(rows, m)
  PROVE  Advances(m)
<1>1. /\ Owed(m)' <=> Owed(m)
      /\ \/ /\ ~Runs("loop", m)' /\ batch'[m] = NoRow /\ pending_retries'[m] = NoRow
         \/ /\ ~Runs("loop", m)' /\ batch'[m] = D[m] /\ pending_retries'[m] = rows[m]
         \/ /\ HasRow(D, m) /\ Runs("loop", m)' /\ batch'[m] = NoRow
            /\ next_attempt' = D[m].attempt + 1
         \/ /\ ~HasRow(D, m) /\ ~Runs("loop", m)' /\ batch'[m] = NoRow
            /\ pending_retries'[m] = rows[m]
  BY DispatchParts DEF Owed
<1>2. NoRow.attempt = 0
  BY DEF NoRow
<1>3. D[m].attempt \in Nat /\ rows[m].attempt \in Nat
  BY DEF Rows
<1>4. ASSUME Untried(m) PROVE Untried(m)'
  BY <1>1, <1>2, <1>3, <1>4 DEF Untried, HasRow
<1>5. ASSUME ~Untried(m), Untried(m)' PROVE Over(m)'
  BY <1>1, <1>5 DEF Account, Over, Owed
<1>6. ASSUME ~Untried(m), ~Untried(m)'
      PROVE  Reached(m)' = IF ~Runs("loop", m) /\ Runs("loop", m)'
                           THEN Reached(m) + 1 ELSE Reached(m)
  <2>1. CASE HasRow(D, m) /\ Runs("loop", m)'
    BY <1>1, <2>1 DEF Reached
  <2>2. CASE ~Runs("loop", m)'
    BY <1>1, <1>2, <1>3, <1>6, <2>2 DEF Untried, HasRow, Reached
  <2> QED
    BY <1>1, <2>1, <2>2
<1> QED
  BY <1>1, <1>4, <1>5, <1>6 DEF Advances, Over

LEMMA PollAdvances ==
  ASSUME TypeOK, Budgeted, BatchEnds, ~StorageFaults, Poll, NEW m \in Msgs
  PROVE  Advances(m)
<1> DEFINE Due == {n \in Msgs : HasRow(pending_retries, n) /\ pending_retries[n].due}
           D == [n \in Msgs |-> IF n \in Due THEN pending_retries[n] ELSE NoRow]
<1>1. Account(m) /\ ~Runs("loop", m) /\ batch[m] = NoRow
  BY DEF Poll, Budgeted, Runs, BatchEnds, NoBatch
<1>2. D \in [Msgs -> Rows] /\ pending_retries \in [Msgs -> Rows]
  BY RowTypes DEF TypeOK
<1>3. Dispatch(D, pending_retries, messages) /\ submitted' = submitted
  BY DEF Poll, mesh
<1>4. HasRow(D, m) => D[m] = pending_retries[m]
  BY DEF HasRow, NoRow
<1>5. ~HasRow(pending_retries, m) => ~HasRow(D, m)
  BY <1>4 DEF HasRow
<1>6. Reached(m) = pending_retries[m].attempt
  BY <1>1 DEF Reached, HasRow, NoRow
<1> HIDE DEF D
<1> QED
  BY <1>1, <1>2, <1>3, <1>4, <1>5, <1>6, DispatchAdvances DEF Untried

LEMMA LoopDoneAdvances ==
  ASSUME TypeOK, ItemsInUse, Budgeted, ~StorageFaults, LoopDone, NEW m \in Msgs
  PROVE  Advances(m)
<1> DEFINE rows == ScheduledRows(item["loop"], next_attempt)
<1>1. /\ item["loop"] \in Msgs /\ Account(item["loop"]) /\ Account(m)
      /\ pc["loop"] = "done" /\ next_attempt \in Nat /\ auto_retry_enabled
  BY Numbers DEF LoopDone, ItemsInUse, Budgeted, TypeOK
<1>2. Runs("loop", item["loop"]) /\ next_attempt \in 1..max_retries
  BY <1>1 DEF Runs, Account
<1>3. MaySchedule(next_attempt)
  BY <1>1, <1>2, Numbers DEF MaySchedule
<1>4. rows[m] = IF item["loop"] = m THEN NewRow(next_attempt) ELSE pending_retries[m]
  BY <1>1, <1>3 DEF ScheduledRows, TypeOK
<1>5. PICK marked \in Marked :
        Dispatch(batch, rows, ScheduledMessages(item["loop"], next_attempt, marked))
  BY DEF LoopDone
<1>6. rows \in [Msgs -> Rows] /\ batch \in [Msgs -> Rows] /\ submitted' = submitted
  BY <1>1, ScheduledType DEF TypeOK, LoopDone, mesh
<1> HIDE DEF rows
<1>7. Runs("loop", m) <=> item["loop"] = m
  BY <1>1 DEF Runs
<1>8. HasRow(batch, m) => ~Runs("loop", m) /\ Reached(m) = batch[m].attempt
  BY <1>1 DEF Account, Reached
<1>9. ASSUME ~HasRow(batch, m) PROVE Reached(m) = rows[m].attempt
  BY <1>4, <1>7, <1>9 DEF Reached, NewRow
<1>10. Untried(m) => ~HasRow(batch, m) /\ ~HasRow(rows, m)
  BY <1>4, <1>7 DEF Untried, HasRow
<1> QED
  BY <1>1, <1>5, <1>6, <1>8, <1>9, <1>10, DispatchAdvances

LEMMA CallAdvances ==
  ASSUME TypeOK, ItemsInUse, Budgeted, ~StorageFaults, NEW p \in Callers, ExecuteTx(p),
         NEW m \in Msgs
  PROVE  Advances(m)
<1>1. pc[p] # "idle"
  BY DEF ExecuteTx, Refuse, PublishQueued, PublishQueuedFails, Transmit, SendFails, Register,
     SavePendingAck, SavePendingAckFails, ScheduleFirst, ScheduleFirstFails, PublishOutcome
<1>2. p \in {"worker", "loop"} /\ Account(m)
  BY <1>1 DEF Budgeted, Callers
<1>3. PICK s \in Steps \ {"idle"} :
        Goto(p, s) /\ (s \in Unscheduled => pc[p] \in Unscheduled)
  BY DEF ExecuteTx, Refuse, PublishQueued, PublishQueuedFails, Transmit, SendFails, Register,
     SavePendingAck, SavePendingAckFails, ScheduleFirst, ScheduleFirstFails, PublishOutcome,
     Steps, Unscheduled
<1>4. UNCHANGED <<item, batch, next_attempt, submitted>>
  BY DEF ExecuteTx, Refuse, PublishQueued, PublishQueuedFails, Transmit, SendFails, Register,
     SavePendingAck, SavePendingAckFails, ScheduleFirst, ScheduleFirstFails, PublishOutcome,
     loop, mesh
<1>5. /\ Runs("loop", m)' <=> Runs("loop", m)
      /\ Owed(m)' => Owed(m)
  BY <1>1, <1>2, <1>3, <1>4, Numbers DEF Goto, TypeOK, Runs, Owed
<1>6. CASE ScheduleFirst(p) /\ item[p] = m
  <2>1. CASE p = "worker"
    <3>1. Untried(m) /\ Owed(m)
      BY <1>2, <1>6, <2>1 DEF ScheduleFirst, Account, Owed, Unscheduled
    <3> QED
      BY <3>1 DEF Advances, Over
  <2>2. CASE p = "loop"
    <3>1. Runs("loop", m)
      BY <1>1, <1>6, <2>2 DEF Runs
    <3> QED
      BY <1>4, <1>5, <3>1 DEF Advances, Over, Untried, Reached
  <2> QED
    BY <1>2, <2>1, <2>2
<1>7. CASE ~(ScheduleFirst(p) /\ item[p] = m)
  <2>1. pending_retries'[m] = pending_retries[m]
    BY <1>7 DEF ExecuteTx, Refuse, PublishQueued, PublishQueuedFails, Transmit, SendFails,
       Register, SavePendingAck, SavePendingAckFails, ScheduleFirst, ScheduleFirstFails,
       PublishOutcome, ScheduledRows, TypeOK, tables
  <2> QED
    BY <1>2, <1>4, <1>5, <2>1, SteadyAdvances
<1> QED
  BY <1>6, <1>7

LEMMA AdvanceStep ==
  ASSUME TypeOK, ItemsInUse, Budgeted, BatchEnds, ~StorageFaults, [SettledNext]_vars,
         NEW m \in Msgs
  PROVE  Advances(m)
<1>0. Account(m)
  BY DEF Budgeted
<1>1. ASSUME NEW p \in Callers, ExecuteTx(p) PROVE Advances(m)
  BY <1>1, CallAdvances
<1>2. CASE Poll \/ LoopDone
  BY <1>2, PollAdvances, LoopDoneAdvances
<1>3. ASSUME NEW n \in Msgs, Submit(n) PROVE Advances(m)
  <2>1. /\ UNCHANGED <<pending_retries, batch, next_attempt>>
        /\ pc'["worker"] = "queued" /\ item'["worker"] = n
        /\ pc'["loop"] = pc["loop"] /\ item'["loop"] = item["loop"]
        /\ submitted' = submitted \union {n} /\ n \notin submitted
    BY <1>3, Numbers DEF Submit, Begin, TypeOK, tables, loop
  <2>2. CASE m = n
    BY <1>0, <2>1, <2>2 DEF Account, Advances, Over
  <2>3. CASE m # n
    <3>1. (Runs("loop", m)' <=> Runs("loop", m)) /\ ~Owed(m)'
      BY <2>1, <2>3 DEF Runs, Owed
    <3> QED
      BY <1>0, <2>1, <3>1, SteadyAdvances
  <2> QED
    BY <2>2, <2>3
<1>4. CASE WorkerDone
  <2>1. /\ UNCHANGED <<pending_retries, batch, next_attempt, submitted>>
        /\ pc'["worker"] = "idle" /\ pc'["loop"] = pc["loop"] /\ item'["loop"] = item["loop"]
    BY <1>4, Numbers DEF WorkerDone, End, TypeOK, tables, loop, mesh
  <2>2. (Runs("loop", m)' <=> Runs("loop", m)) /\ ~Owed(m)'
    BY <2>1 DEF Runs, Owed, Unscheduled
  <2> QED
    BY <1>0, <2>1, <2>2, SteadyAdvances
<1>5. ASSUME UNCHANGED <<pc, item, batch, next_attempt, submitted>>,
             pending_retries'[m].attempt \in {pending_retries[m].attempt, 0}
      PROVE  Advances(m)
  <2>1. (Runs("loop", m)' <=> Runs("loop", m)) /\ (Owed(m)' <=> Owed(m))
    BY <1>5 DEF Runs, Owed
  <2> QED
    BY <1>0, <1>5, <2>1, SteadyAdvances
<1>6. ASSUME NEW n \in Msgs, FallDue(n) \/ ExpireEvent(n) \/ Cancel(n) \/ ClearFeed(n)
      PROVE  Advances(m)
  <2>1. UNCHANGED <<pc, item, batch, next_attempt, submitted>>
    BY <1>6 DEF FallDue, ExpireEvent, Cancel, ClearFeed, calls, loop, mesh
  <2>2. pending_retries'[m].attempt \in {pending_retries[m].attempt, 0}
    <3>1. pending_retries \in [Msgs -> Rows] /\ pending_retries[n] \in Rows
      BY DEF TypeOK
    <3>2. CASE FallDue(n)
      <4>1. \A row \in Rows : [row EXCEPT !.due = TRUE].attempt = row.attempt
        BY DEF Rows
      <4>2. pending_retries'[m] \in
              {pending_retries[m], [pending_retries[m] EXCEPT !.due = TRUE]}
        BY <3>1, <3>2 DEF FallDue
      <4> QED
        BY <3>1, <4>1, <4>2
    <3>3. CASE ExpireEvent(n) \/ Cancel(n) \/ ClearFeed(n)
      <4>1. pending_retries'[m] \in {pending_retries[m], NoRow}
        BY <3>1, <3>3 DEF ExpireEvent, Cancel, ClearFeed
      <4> QED
        BY <4>1 DEF NoRow
    <3> QED
      BY <1>6, <3>2, <3>3
  <2> QED
    BY <1>5, <2>1, <2>2
<1>7. ASSUME NEW c \in Codes, HandleAck(c) PROVE Advances(m)
  <2>1. UNCHANGED <<pc, item, batch, next_attempt, submitted>>
    BY <1>7 DEF HandleAck, RxAck, ConsumePendingAck, PublishDelivered, AckHandlingFails,
       ExpireTracker, ExpirePendingAck, calls, loop, mesh
  <2>2. pending_retries'[m] \in {pending_retries[m], NoRow}
    BY <1>7 DEF HandleAck, RxAck, ConsumePendingAck, PublishDelivered, AckHandlingFails,
       ExpireTracker, ExpirePendingAck, tables, TypeOK
  <2>3. pending_retries'[m].attempt \in {pending_retries[m].attempt, 0}
    BY <2>2 DEF NoRow
  <2> QED
    BY <1>5, <2>1, <2>3
<1>8. ASSUME NEW r \in Resenders PROVE ~ResendDone(r)
  BY DEF ResendDone, Budgeted
<1>9. CASE UNCHANGED vars
  BY <1>5, <1>9 DEF vars, tables, calls, loop, mesh
<1> QED
  BY <1>1, <1>2, <1>3, <1>4, <1>6, <1>7, <1>8, <1>9 DEF SettledNext, System, LoopDoneFails

(* Only a pass of the loop changes the batch, or ends one.                  *)
LEMMA BatchStep ==
  ASSUME TypeOK, Budgeted, BatchEnds, ~StorageFaults, [SettledNext]_vars
  PROVE  BatchEnds'
<1>1. ASSUME NEW D \in [Msgs -> Rows], NEW rows, NEW msgs, Dispatch(D, rows, msgs)
      PROVE  BatchEnds'
  <2>1. batch' = NoBatch \/ \E n \in Msgs : Begin("loop", n)
    BY <1>1 DEF Dispatch
  <2>2. ASSUME NEW n \in Msgs, Begin("loop", n) PROVE pc'["loop"] = "queued"
    BY <2>2, Numbers DEF Begin, TypeOK
  <2> QED
    BY <2>1, <2>2 DEF BatchEnds
<1>2. CASE Poll
  <2> DEFINE Due == {n \in Msgs : HasRow(pending_retries, n) /\ pending_retries[n].due}
             D == [n \in Msgs |-> IF n \in Due THEN pending_retries[n] ELSE NoRow]
  <2>1. D \in [Msgs -> Rows]
    BY RowTypes DEF TypeOK
  <2> QED
    BY <1>1, <1>2, <2>1 DEF Poll
<1>3. CASE LoopDone
  BY <1>1, <1>3 DEF LoopDone, TypeOK
<1>4. CASE batch' = batch /\ (pc'["loop"] = "idle" => pc["loop"] = "idle")
  BY <1>4 DEF BatchEnds
<1>5. ASSUME NEW p \in Callers, ExecuteTx(p)
      PROVE  batch' = batch /\ (pc'["loop"] = "idle" => pc["loop"] = "idle")
  <2>1. batch' = batch /\ \E s \in Steps \ {"idle"} : Goto(p, s)
    BY <1>5 DEF ExecuteTx, Refuse, PublishQueued, PublishQueuedFails, Transmit, SendFails,
       Register, SavePendingAck, SavePendingAckFails, ScheduleFirst, ScheduleFirstFails,
       PublishOutcome, Steps, loop
  <2> QED
    BY <2>1, Numbers DEF Goto, TypeOK
<1>6. CASE WorkerDone \/ \E n \in Msgs : Submit(n)
  <2>1. batch' = batch /\ pc'["loop"] = pc["loop"]
    BY <1>6, Numbers DEF WorkerDone, End, Submit, Begin, TypeOK, loop
  <2> QED
    BY <1>4, <2>1
<1>7. ASSUME \/ \E n \in Msgs : FallDue(n) \/ ExpireEvent(n) \/ Cancel(n) \/ ClearFeed(n)
             \/ \E c \in Codes : HandleAck(c)
             \/ UNCHANGED vars
      PROVE  UNCHANGED <<batch, pc>>
  BY <1>7 DEF FallDue, ExpireEvent, Cancel, ClearFeed, HandleAck, RxAck, ConsumePendingAck,
     PublishDelivered, AckHandlingFails, ExpireTracker, ExpirePendingAck, vars, calls, loop
<1>8. ASSUME NEW r \in Resenders PROVE ~ResendDone(r)
  BY DEF ResendDone, Budgeted
<1> QED
  BY <1>2, <1>3, <1>4, <1>5, <1>6, <1>7, <1>8 DEF SettledNext, System, LoopDoneFails

(* While no write of SQLite fails and the policy is settled, the attempts   *)
(* of a message (schedule_retry, _run_loop) are numbered one by one within  *)
(* max_retries, whatever execute_tx does to the row meanwhile, and once the *)
(* row is gone and nobody holds it, neither the loop nor a late answer      *)
(* brings it back.  It is the safety core of RetriesEnd: a series has at    *)
(* most max_retries runs of the loop before it is over for good.            *)
THEOREM RetriesAdvance ==
  ASSUME ~StorageFaults PROVE SettledSpec => SeriesAdvance /\ []SeriesInPolicy
<1>1. Init => BatchEnds
  BY DEF Init, BatchEnds
<1>2. TypeOK /\ Budgeted /\ BatchEnds /\ [SettledNext]_vars => BatchEnds'
  BY BatchStep
<1>3. TypeOK /\ ItemsInUse /\ Budgeted /\ BatchEnds /\ [SettledNext]_vars
        => [\A m \in Msgs : Advances(m)]_vars
  BY AdvanceStep
<1>4. TypeOK /\ Budgeted => SeriesInPolicy
  <2> SUFFICES ASSUME TypeOK, Budgeted, NEW m \in Msgs, ~Untried(m)
               PROVE  Reached(m) \in 1..max_retries
    BY DEF SeriesInPolicy
  <2>1. Account(m)
    BY DEF Budgeted
  <2> QED
    BY <2>1, Numbers DEF Account, Untried, Reached, InPolicy, HasRow
<1> QED
  BY <1>1, <1>2, <1>3, <1>4, SettledInvariance, PTL DEF SettledSpec, SeriesAdvance
=============================================================================
