---------------------------- MODULE OutboxProofs ----------------------------
(***************************************************************************)
(* The outbox for every number of messages, workers and administrators,    *)
(* every batch size, attempt limit, lease and backoff: its inductive       *)
(* invariant, what follows from it, and that every step of it is a step of *)
(* AtLeastOnce or leaves that specification's view of it alone.  At the    *)
(* end, for workers that keep up with their leases and take one message at *)
(* a time: a message has one owner, a healthy one is handled once, and     *)
(* only an administrator takes a row out of the dead ones.                 *)
(***************************************************************************)
EXTENDS Outbox, TLAPS, FiniteSetTheorems

\* Powers of two are natural numbers: 2^k counts the subsets of 1..k.
LEMMA PowerOfTwo ==
    ASSUME NEW k \in Nat
    PROVE  2 ^ k \in Nat
<1>1. IsFiniteSet(1..k) /\ Cardinality(1..k) = k
  BY FS_Interval
<1>2. IsFiniteSet(SUBSET (1..k)) /\ Cardinality(SUBSET (1..k)) = 2 ^ k
  BY <1>1, FS_SUBSET
<1>3. QED
  BY <1>2, FS_CardinalityType

\* backoffDuration returns a delay.
LEMMA BackoffType ==
    ASSUME NEW n \in Attempts
    PROVE  Backoff(n) \in Nat
<1>1. (IF n < 1 THEN 0 ELSE n - 1) \in Nat
  BY OutboxAssumption DEF Attempts
<1>2. BackoffFactor(n) \in Nat
  BY <1>1, PowerOfTwo DEF BackoffFactor
<1>3. QED
  BY <1>2, OutboxAssumption DEF Backoff

\* The longest backoff is a number.
LEMMA MaxWaitType == MaxWait \in Nat
  BY OutboxAssumption DEF MaxWait

\* Fetching a row counts an attempt: the count never falls and is never zero again.
LEMMA NextAttemptType ==
    ASSUME NEW n \in Attempts
    PROVE  NextAttempt(n) \in Attempts /\ NextAttempt(n) # 0 /\ n <= NextAttempt(n)
  BY OutboxAssumption DEF NextAttempt, Attempts

\* An empty table and idle workers.
LEMMA InitInv == Init => IInv
<1> SUFFICES ASSUME Init PROVE IInv
  OBVIOUS
<1>1. TypeOK
  BY OutboxAssumption, MaxWaitType
  DEF Init, TypeOK, Messages, NoRow, Row, Status, Attempts, PC, NoRenewal, NoOp
<1>2. QED
  BY <1>1, OutboxAssumption
  DEF Init, IInv, WorkersInStep, NothingAhead, CopiesAreOld, DeadIsExhausted, NoEventLost,
      Held, Present, Messages, NoRow, Attempts

-----------------------------------------------------------------------------
(* What one statement does to the table. *)

\* An UPDATE of a row of the table leaves a row of the same attempt count.
LEMMA RowUpdate ==
    ASSUME NEW r \in Row, NEW s \in Status, NEW n \in Nat
    PROVE  /\ [r EXCEPT !.status = s, !.wait = n] \in Row
           /\ [r EXCEPT !.status = s, !.wait = n].status = s
           /\ [r EXCEPT !.status = s, !.wait = n].attempt = r.attempt
           /\ [r EXCEPT !.status = s] \in Row
           /\ [r EXCEPT !.status = s].status = s
           /\ [r EXCEPT !.status = s].attempt = r.attempt
           /\ [r EXCEPT !.wait = n] \in Row
           /\ [r EXCEPT !.wait = n].status = r.status
           /\ [r EXCEPT !.wait = n].attempt = r.attempt
  BY DEF Row

\* What MarkRetry and a requeue make of the table.
LEMMA SetRetryEffect ==
    ASSUME row \in [Messages -> Row], NEW m \in Messages, NEW n \in Nat
    PROVE  /\ SetRetry(m, n) \in [Messages -> Row]
           /\ \A k \in Messages \ {m} : SetRetry(m, n)[k] = row[k]
           /\ ~ Present(m) => SetRetry(m, n)[m] = row[m]
           /\ Present(m) => /\ SetRetry(m, n)[m].status = "pending"
                            /\ SetRetry(m, n)[m].attempt = row[m].attempt
<1> DEFINE r == [row[m] EXCEPT !.status = "pending", !.wait = n]
<1>1. row[m] \in Row /\ "pending" \in Status
  BY DEF Status
<1>2. r \in Row /\ r.status = "pending" /\ r.attempt = row[m].attempt
  BY <1>1 DEF Row
<1>3. SetRetry(m, n) = [row EXCEPT ![m] = IF Present(m) THEN r ELSE row[m]]
  BY DEF SetRetry
<1>4. QED
  BY <1>1, <1>2, <1>3

\* What MarkDead makes of the table.
LEMMA SetDeadEffect ==
    ASSUME row \in [Messages -> Row], NEW m \in Messages
    PROVE  /\ SetDead(m) \in [Messages -> Row]
           /\ \A k \in Messages \ {m} : SetDead(m)[k] = row[k]
           /\ ~ Present(m) => SetDead(m)[m] = row[m]
           /\ Present(m) => /\ SetDead(m)[m].status = "dead"
                            /\ SetDead(m)[m].attempt = row[m].attempt
<1>1. row[m] \in Row /\ "dead" \in Status
  BY DEF Status
<1>2. QED
  BY <1>1, RowUpdate DEF SetDead

\* What MarkSucceeded and a discard make of the table.
LEMMA DeleteRowEffect ==
    ASSUME row \in [Messages -> Row], NEW m \in Messages
    PROVE  /\ DeleteRow(m) \in [Messages -> Row]
           /\ \A k \in Messages \ {m} : DeleteRow(m)[k] = row[k]
           /\ DeleteRow(m)[m].status = "absent"
<1>1. NoRow \in Row /\ NoRow.status = "absent"
  BY OutboxAssumption DEF NoRow, Row, Status, Attempts
<1>2. QED
  BY <1>1 DEF DeleteRow

\* Renewing a lease and letting time pass change nothing but waiting times.
LEMMA SetLeaseEffect ==
    ASSUME row \in [Messages -> Row], NEW m \in Messages, NEW n \in Nat
    PROVE  /\ SetLease(m, n) \in [Messages -> Row]
           /\ \A k \in Messages : /\ SetLease(m, n)[k].status = row[k].status
                                  /\ SetLease(m, n)[k].attempt = row[k].attempt
                                  /\ row[k].status = "absent" => SetLease(m, n)[k] = row[k]
<1> DEFINE r == [row[m] EXCEPT !.wait = n]
<1>1. row[m] \in Row /\ "absent" \in Status
  BY DEF Status
<1>2. r \in Row /\ r.status = row[m].status /\ r.attempt = row[m].attempt
  BY <1>1, RowUpdate
<1>3. SetLease(m, n) = [row EXCEPT ![m] = IF row[m].status = "processing" THEN r ELSE row[m]]
  BY DEF SetLease
<1>4. QED
  BY <1>1, <1>2, <1>3

\* A count that runs down stays a number and grows no larger.
LEMMA DownType ==
    ASSUME NEW n \in Nat
    PROVE  Down(n) \in Nat /\ Down(n) <= n
  BY DEF Down

\* Events are committed.
LEMMA AppendInv ==
    ASSUME IInv, NEW n \in Messages, Append(n)
    PROVE  IInv'
<1>1. TypeOK'
  BY OutboxAssumption
  DEF IInv, TypeOK, Append, relay, history, Messages, Row, Status, Attempts
<1>2. WorkersInStep' /\ CopiesAreOld' /\ DeadIsExhausted'
  BY OutboxAssumption
  DEF IInv, TypeOK, WorkersInStep, NothingAhead, CopiesAreOld, DeadIsExhausted, Append, relay,
      history, Held, Present, Messages, NoRow, Attempts
<1>3. NothingAhead' /\ NoEventLost'
  BY OutboxAssumption
  DEF IInv, TypeOK, NothingAhead, NoEventLost, Append, relay, history, Present, Messages, NoRow
<1>4. QED
  BY <1>1, <1>2, <1>3 DEF IInv

\* A worker fetches a batch: its copies are as new as the rows.
LEMMA FetchReadyInv ==
    ASSUME IInv, NEW w \in Workers, FetchReady(w)
    PROVE  IInv'
<1>1. FetchSet \subseteq Messages
  BY DEF FetchSet, Ready
<1>2. \A m \in FetchSet : Present(m) /\ row[m].status # "dead"
  BY DEF FetchSet, Ready, Present
<1>3. \A m \in FetchSet : m <= last
  BY <1>1, <1>2 DEF IInv, NothingAhead, TypeOK, Messages, Present, NoRow
<1>4. \A m \in FetchSet : /\ FetchedRow(m) \in Row
                         /\ FetchedRow(m).status = "processing"
                         /\ FetchedRow(m).attempt \in Attempts \ {0}
                         /\ row[m].attempt <= FetchedRow(m).attempt
  BY <1>1, NextAttemptType, OutboxAssumption DEF IInv, TypeOK, FetchedRow, Row, Status
<1>5. TypeOK'
  <2>1. row' \in [Messages -> Row]
    BY <1>4 DEF IInv, TypeOK, FetchReady
  <2>2. seen' \in [Workers -> [Messages -> Attempts]]
    BY <1>1, <1>4, OutboxAssumption DEF IInv, TypeOK, FetchReady, Attempts
  <2>3. age' \in [Workers -> 0..MaxWait] /\ pc' \in [Workers -> PC]
    BY MaxWaitType DEF IInv, TypeOK, FetchReady, PC
  <2>4. QED
    BY <2>1, <2>2, <2>3 DEF IInv, TypeOK, FetchReady, history
<1>6. WorkersInStep'
  BY <1>1 DEF IInv, TypeOK, WorkersInStep, FetchReady, history, Held
<1>7. NothingAhead'
  BY <1>1, <1>3 DEF IInv, TypeOK, NothingAhead, FetchReady, history, Messages
<1>8. CopiesAreOld'
  <2> SUFFICES ASSUME NEW v \in Workers, NEW m \in Messages, row'[m].status # "absent"
               PROVE  seen'[v][m] <= row'[m].attempt
    BY DEF CopiesAreOld, Present
  <2>1. CASE m \in FetchSet
    <3>1. row'[m] = FetchedRow(m) /\ seen[v][m] <= row[m].attempt
      BY <2>1, <1>2 DEF IInv, CopiesAreOld, FetchReady
    <3>2. FetchedRow(m).attempt \in Attempts /\ row[m].attempt \in Attempts
          /\ seen[v][m] \in Attempts
      BY <2>1, <1>4 DEF Row, IInv, TypeOK
    <3>3. seen'[v][m] = FetchedRow(m).attempt \/ seen'[v][m] = seen[v][m]
      BY <2>1 DEF FetchReady, IInv, TypeOK
    <3>4. QED
      BY <3>1, <3>2, <3>3, <2>1, <1>4, OutboxAssumption DEF Attempts
  <2>2. CASE m \notin FetchSet
    <3>1. row'[m] = row[m]
      BY <2>2 DEF FetchReady
    <3>2. seen'[v][m] = 0 \/ seen'[v][m] = seen[v][m]
      BY <2>2 DEF FetchReady, IInv, TypeOK
    <3>3. row[m].attempt \in Nat
      BY OutboxAssumption DEF IInv, TypeOK, Row, Attempts
    <3>4. QED
      BY <3>1, <3>2, <3>3 DEF IInv, CopiesAreOld, Present
  <2>3. QED
    BY <2>1, <2>2
<1>9. DeadIsExhausted'
  BY <1>4 DEF IInv, DeadIsExhausted, FetchReady
<1>10. NoEventLost'
  BY <1>4, OutboxAssumption DEF IInv, TypeOK, NoEventLost, FetchReady, history, Present, Messages
<1>11. QED
  BY <1>5, <1>6, <1>7, <1>8, <1>9, <1>10 DEF IInv

\* A worker takes up the next message of its batch.
LEMMA HandleNextInv ==
    ASSUME IInv, NEW w \in Workers, HandleNext(w)
    PROVE  IInv'
<1>1. PICK m \in Held(w) : cur' = [cur EXCEPT ![w] = m]
  BY DEF HandleNext
<1>2. TypeOK'
  BY <1>1 DEF IInv, TypeOK, HandleNext, store, history, Held, Messages, PC
<1>3. WorkersInStep'
  BY <1>1 DEF IInv, TypeOK, WorkersInStep, HandleNext, store, history, Held
<1>4. NothingAhead' /\ CopiesAreOld' /\ DeadIsExhausted' /\ NoEventLost'
  BY DEF IInv, NothingAhead, CopiesAreOld, DeadIsExhausted, NoEventLost, HandleNext, store,
         history, Present
<1>5. QED
  BY <1>2, <1>3, <1>4 DEF IInv

\* The handlers succeed or fail.
LEMMA DispatchInv ==
    ASSUME IInv, NEW w \in Workers, DispatchSucceeds(w) \/ DispatchFails(w)
    PROVE  IInv'
<1>1. cur[w] \in Messages /\ cur[w] <= last /\ seen[w][cur[w]] # 0
  BY DEF IInv, TypeOK, WorkersInStep, NothingAhead, DispatchSucceeds, DispatchFails, Held, Messages
<1>2. TypeOK'
  BY <1>1 DEF IInv, TypeOK, DispatchSucceeds, DispatchFails, store, history, PC
<1>3. WorkersInStep'
  BY <1>1 DEF IInv, TypeOK, WorkersInStep, DispatchSucceeds, DispatchFails, store, history, Held
<1>4. NothingAhead'
  BY <1>1 DEF IInv, TypeOK, NothingAhead, DispatchSucceeds, DispatchFails, store, history, Messages
<1>5. CopiesAreOld' /\ DeadIsExhausted' /\ NoEventLost'
  BY DEF IInv, CopiesAreOld, DeadIsExhausted, NoEventLost, DispatchSucceeds, DispatchFails, store,
         history, Present
<1>6. QED
  BY <1>2, <1>3, <1>4, <1>5 DEF IInv

\* What Return does to the worker's own variables.
LEMMA ReturnEffect ==
    ASSUME IInv, NEW w \in Workers, Return(w),
           pc[w] \in {"succeeded", "failed", "unreadable"}
    PROVE  /\ pc' \in [Workers -> PC] /\ cur' \in [Workers -> 0..MaxMessages]
           /\ seen' \in [Workers -> [Messages -> Attempts]] /\ age' \in [Workers -> 0..MaxWait]
           /\ \A v \in Workers, m \in Messages : seen'[v][m] \in {0, seen[v][m]}
           /\ pc'[w] \in {"idle", "polled"}
           /\ \A v \in Workers \ {w} :
                 pc'[v] = pc[v] /\ cur'[v] = cur[v] /\ seen'[v] = seen[v]
           /\ cur[w] \in Messages /\ cur[w] <= last
           /\ seen[w][cur[w]] \in Attempts \ {0}
<1>1. cur[w] \in Messages /\ cur[w] <= last /\ seen[w][cur[w]] \in Attempts \ {0}
  BY OutboxAssumption DEF IInv, TypeOK, WorkersInStep, NothingAhead, Held, Messages
<1>2. QED
  BY <1>1, MaxWaitType, OutboxAssumption DEF IInv, TypeOK, Return, PC, Attempts

\* Marking: a row written to a lawful next state while the worker returns.
LEMMA MarkInv ==
    ASSUME IInv, NEW w \in Workers, Return(w),
           pc[w] \in {"succeeded", "failed", "unreadable"},
           row' \in [Messages -> Row],
           \A m \in Messages \ {cur[w]} : row'[m] = row[m],
           row'[cur[w]].status # "absent" =>
               /\ row[cur[w]].status # "absent"
               /\ row'[cur[w]].attempt = row[cur[w]].attempt
               /\ row'[cur[w]].status = "dead" => row[cur[w]].attempt = MaxAttempts,
           row'[cur[w]].status = "absent" => row[cur[w]].status = "absent" \/ cur[w] \in handled,
           faults' \in 0..MaxFaults,
           UNCHANGED <<last, renewal, admin, history>>
    PROVE  IInv'
<1>1. TypeOK'
  BY ReturnEffect DEF IInv, TypeOK, history
<1>2. WorkersInStep'
  BY ReturnEffect DEF IInv, WorkersInStep, history, Held
<1>3. NothingAhead'
  <2>1. \A m \in Messages : m > last => m # cur[w] /\ row'[m] = row[m]
    BY ReturnEffect DEF IInv, TypeOK, Messages
  <2>2. QED
    BY <2>1, ReturnEffect DEF IInv, TypeOK, NothingAhead, history
<1>4. CopiesAreOld' /\ DeadIsExhausted'
  <2> SUFFICES ASSUME NEW v \in Workers, NEW m \in Messages
               PROVE  /\ row'[m].status # "absent" => seen'[v][m] <= row'[m].attempt
                      /\ row'[m].status = "dead" => row'[m].attempt = MaxAttempts
    BY ReturnEffect DEF CopiesAreOld, DeadIsExhausted, Present
  <2>1. \/ row'[m] = row[m]
        \/ row'[m].status = "absent"
        \/ /\ row[m].status # "absent" /\ row'[m].attempt = row[m].attempt
           /\ row'[m].status = "dead" => row[m].attempt = MaxAttempts
    OBVIOUS
  <2>2. seen'[v][m] \in {0, seen[v][m]} /\ row[m].attempt \in Nat
    BY ReturnEffect, OutboxAssumption DEF IInv, TypeOK, Row, Attempts
  <2>3. QED
    BY <2>1, <2>2 DEF IInv, CopiesAreOld, DeadIsExhausted, Present, NoRow
<1>5. NoEventLost'
  <2> SUFFICES ASSUME NEW m \in 1..last
               PROVE  row'[m].status # "absent" \/ m \in handled \cup dropped
    BY DEF NoEventLost, Present, history
  <2>1. m \in Messages /\ (row[m].status # "absent" \/ m \in handled \cup dropped)
    BY OutboxAssumption DEF IInv, TypeOK, NoEventLost, Present, Messages
  <2>2. CASE m = cur[w]
    BY <2>1, <2>2
  <2>3. CASE m # cur[w]
    BY <2>1, <2>3
  <2>4. QED
    BY <2>2, <2>3
<1>6. QED
  BY <1>1, <1>2, <1>3, <1>4, <1>5 DEF IInv

\* A handled message is deleted.
LEMMA MarkSucceededInv ==
    ASSUME IInv, NEW w \in Workers, MarkSucceeded(w)
    PROVE  IInv'
<1>1. cur[w] \in Messages /\ cur[w] \in handled
  BY DEF MarkSucceeded, IInv, WorkersInStep, Held
<1>2. /\ row' \in [Messages -> Row]
      /\ \A m \in Messages \ {cur[w]} : row'[m] = row[m]
      /\ row'[cur[w]].status = "absent"
  BY <1>1, DeleteRowEffect DEF MarkSucceeded, IInv, TypeOK
<1>3. /\ Return(w) /\ pc[w] \in {"succeeded", "failed", "unreadable"}
      /\ faults' \in 0..MaxFaults
      /\ UNCHANGED <<last, renewal, admin, history>>
  BY DEF MarkSucceeded, IInv, TypeOK
<1>4. QED
  BY <1>1, <1>2, <1>3, MarkInv

\* A failed message is put back.
LEMMA MarkRetryInv ==
    ASSUME IInv, NEW w \in Workers, MarkRetry(w)
    PROVE  IInv'
<1>1. cur[w] \in Messages /\ seen[w][cur[w]] \in Attempts
  BY DEF MarkRetry, IInv, TypeOK, WorkersInStep, Held
<1>2. RetryWait(w) \in Nat
  BY <1>1, BackoffType, MaxWaitType DEF RetryWait, IInv, TypeOK
<1>3. /\ row' \in [Messages -> Row]
      /\ \A m \in Messages \ {cur[w]} : row'[m] = row[m]
      /\ row[cur[w]].status = "absent" => row'[cur[w]] = row[cur[w]]
      /\ row[cur[w]].status # "absent" => /\ row'[cur[w]].status = "pending"
                                          /\ row'[cur[w]].attempt = row[cur[w]].attempt
  BY <1>1, <1>2, SetRetryEffect DEF MarkRetry, Present, IInv, TypeOK
<1>4. /\ Return(w) /\ pc[w] \in {"succeeded", "failed", "unreadable"}
      /\ faults' \in 0..MaxFaults
      /\ UNCHANGED <<last, renewal, admin, history>>
  BY DEF MarkRetry, IInv, TypeOK
<1>5. QED
  BY <1>1, <1>3, <1>4, MarkInv

\* A failed message is declared dead: the copy had no attempts left, so the row has none.
LEMMA MarkDeadInv ==
    ASSUME IInv, NEW w \in Workers, MarkDead(w)
    PROVE  IInv'
<1>1. cur[w] \in Messages /\ seen[w][cur[w]] = MaxAttempts
  <2>1. cur[w] \in Messages
    BY DEF MarkDead, IInv, WorkersInStep, Held
  <2>2. seen[w][cur[w]] \in Attempts
    BY <2>1 DEF IInv, TypeOK
  <2>3. QED
    BY <2>1, <2>2, OutboxAssumption DEF MarkDead, Attempts
<1>2. row[cur[w]].status # "absent" => row[cur[w]].attempt = MaxAttempts
  <2>1. row[cur[w]].attempt \in Attempts
    BY <1>1 DEF IInv, TypeOK, Row
  <2>2. row[cur[w]].status # "absent" => seen[w][cur[w]] <= row[cur[w]].attempt
    BY <1>1 DEF IInv, CopiesAreOld, Present
  <2>3. QED
    BY <1>1, <2>1, <2>2, OutboxAssumption DEF Attempts
<1>3. /\ row' \in [Messages -> Row]
      /\ \A m \in Messages \ {cur[w]} : row'[m] = row[m]
      /\ row[cur[w]].status = "absent" => row'[cur[w]] = row[cur[w]]
      /\ row[cur[w]].status # "absent" => /\ row'[cur[w]].status = "dead"
                                          /\ row'[cur[w]].attempt = row[cur[w]].attempt
  BY <1>1, SetDeadEffect DEF MarkDead, Present, IInv, TypeOK
<1>4. /\ Return(w) /\ pc[w] \in {"succeeded", "failed", "unreadable"}
      /\ faults' \in 0..MaxFaults
      /\ UNCHANGED <<last, renewal, admin, history>>
  BY DEF MarkDead, IInv, TypeOK
<1>5. QED
  BY <1>1, <1>2, <1>3, <1>4, MarkInv

\* The statement fails and the worker goes on.
LEMMA MarkFailsInv ==
    ASSUME IInv, NEW w \in Workers, MarkFails(w)
    PROVE  IInv'
<1>1. /\ Return(w) /\ pc[w] \in {"succeeded", "failed", "unreadable"}
      /\ faults' \in 0..MaxFaults
      /\ UNCHANGED <<last, renewal, admin, history>>
      /\ row' = row /\ row \in [Messages -> Row]
  BY OutboxAssumption DEF MarkFails, store, IInv, TypeOK
<1>2. cur[w] \in Messages
  BY DEF MarkFails, IInv, WorkersInStep, Held
<1>3. row[cur[w]].status = "dead" => row[cur[w]].attempt = MaxAttempts
  BY <1>2 DEF IInv, DeadIsExhausted
<1>4. QED
  BY <1>1, <1>2, <1>3, MarkInv

\* A step that touches only waiting times, ages and renewals under way.
LEMMA QuietInv ==
    ASSUME IInv,
           row' \in [Messages -> Row],
           \A m \in Messages : /\ row'[m].status = row[m].status
                               /\ row'[m].attempt = row[m].attempt
                               /\ row[m] = NoRow => row'[m] = NoRow,
           renewal' \in [Workers -> [id : 0..MaxMessages, left : 0..Lease]],
           \A w \in Workers : \/ renewal'[w] = NoRenewal
                              \/ renewal[w] # NoRenewal /\ renewal'[w].id = renewal[w].id,
           age' \in [Workers -> 0..MaxWait],
           UNCHANGED <<last, pc, cur, seen, admin, faults, history>>
    PROVE  IInv'
<1>1. TypeOK'
  BY DEF IInv, TypeOK, history
<1>2. NothingAhead'
  BY DEF IInv, NothingAhead, history
<1>3. WorkersInStep'
  BY DEF IInv, WorkersInStep, history, Held
<1>4. CopiesAreOld' /\ DeadIsExhausted'
  BY DEF IInv, CopiesAreOld, DeadIsExhausted, Present
<1>5. NoEventLost'
  <2>1. 1..last \subseteq Messages
    BY OutboxAssumption DEF IInv, TypeOK, Messages
  <2>2. QED
    BY <2>1 DEF IInv, NoEventLost, Present, history
<1>6. QED
  BY <1>1, <1>2, <1>3, <1>4, <1>5 DEF IInv

\* A lease renewal begins, or lands.
LEMMA RenewInv ==
    ASSUME IInv, NEW w \in Workers, RenewStart(w) \/ RenewProcessing(w)
    PROVE  IInv'
<1>1. CASE RenewStart(w)
  <2>1. cur[w] \in Messages /\ cur[w] \in 1..last
    <3>1. cur[w] \in Messages /\ seen[w][cur[w]] # 0
      BY <1>1 DEF RenewStart, Heartbeating, IInv, WorkersInStep, Held
    <3>2. QED
      BY <3>1, OutboxAssumption DEF IInv, TypeOK, NothingAhead, Messages
  <2>2. renewal' \in [Workers -> [id : 0..MaxMessages, left : 0..Lease]]
    BY <1>1, <2>1, OutboxAssumption DEF RenewStart, IInv, TypeOK, Messages
  <2>3. \A v \in Workers : renewal'[v] = renewal[v] \/ renewal'[v].id \in 1..last
    BY <1>1, <2>1 DEF RenewStart, IInv, TypeOK
  <2>4. TypeOK' /\ NothingAhead'
    BY <1>1, <2>2, <2>3 DEF RenewStart, IInv, TypeOK, NothingAhead, store, relay, history
  <2>5. QED
    BY <1>1, <2>4
    DEF RenewStart, IInv, WorkersInStep, CopiesAreOld, DeadIsExhausted, NoEventLost, store, relay,
        history, Held, Present
<1>2. CASE RenewProcessing(w)
  <2>1. /\ row' \in [Messages -> Row]
        /\ \A m \in Messages : /\ row'[m].status = row[m].status
                               /\ row'[m].attempt = row[m].attempt
                               /\ row[m] = NoRow => row'[m] = NoRow
    <3>1. renewal[w].id \in Messages /\ renewal[w].left \in Nat
      BY <1>2, OutboxAssumption
      DEF RenewProcessing, IInv, TypeOK, NothingAhead, NoRenewal, Messages
    <3>2. row' = SetLease(renewal[w].id, renewal[w].left) \/ row' = row
      BY <1>2 DEF RenewProcessing
    <3>3. NoRow.status = "absent" /\ row \in [Messages -> Row]
      BY DEF NoRow, IInv, TypeOK
    <3>4. QED
      BY <3>1, <3>2, <3>3, SetLeaseEffect
  <2>2. /\ renewal' \in [Workers -> [id : 0..MaxMessages, left : 0..Lease]]
        /\ \A v \in Workers : renewal'[v] = NoRenewal \/ renewal'[v] = renewal[v]
    BY <1>2, OutboxAssumption DEF RenewProcessing, IInv, TypeOK, NoRenewal
  <2>3. QED
    BY <1>2, <2>1, <2>2, QuietInv DEF RenewProcessing, relay, IInv, TypeOK
<1>3. QED
  BY <1>1, <1>2

\* An administrator checks, requeues or discards.
LEMMA AdminInv ==
    ASSUME IInv, Administration
    PROVE  IInv'
<1> SUFFICES ASSUME NEW a \in Admins,
                    \/ \E op \in {"requeue", "discard"}, m \in Messages : EnsureDead(a, op, m)
                    \/ RequeueDead(a)
                    \/ DiscardDead(a)
             PROVE  IInv'
  BY DEF Administration
<1>1. CASE \E op \in {"requeue", "discard"}, m \in Messages : EnsureDead(a, op, m)
  <2>1. PICK op \in {"requeue", "discard"}, m \in Messages : EnsureDead(a, op, m)
    BY <1>1
  <2>2. m \in 1..last
    BY <2>1, OutboxAssumption DEF EnsureDead, IInv, TypeOK, NothingAhead, Messages, NoRow
  <2>3. TypeOK' /\ NothingAhead'
    BY <2>1, <2>2, OutboxAssumption
    DEF EnsureDead, IInv, TypeOK, NothingAhead, store, relay, history, Messages
  <2>4. QED
    BY <2>1, <2>3
    DEF EnsureDead, IInv, WorkersInStep, CopiesAreOld, DeadIsExhausted, NoEventLost, store, relay,
        history, Held, Present
<1>2. ASSUME RequeueDead(a) \/ DiscardDead(a)
      PROVE  IInv'
  <2>1. admin[a].id \in 1..last /\ admin[a].id \in Messages
    BY <1>2, OutboxAssumption
    DEF RequeueDead, DiscardDead, IInv, TypeOK, NothingAhead, NoOp, Messages
  <2>2. /\ row' = SetRetry(admin[a].id, 0) /\ dropped' = dropped
        \/ /\ row' = DeleteRow(admin[a].id)
           /\ dropped' = IF Present(admin[a].id) THEN dropped \cup {admin[a].id} ELSE dropped
    BY <1>2 DEF RequeueDead, DiscardDead, history
  <2>3. /\ row' \in [Messages -> Row]
        /\ \A m \in Messages \ {admin[a].id} : row'[m] = row[m]
        /\ row'[admin[a].id].status # "dead" \/ row'[admin[a].id] = row[admin[a].id]
        /\ \/ row'[admin[a].id].status = "absent"
           \/ row'[admin[a].id].attempt = row[admin[a].id].attempt
              /\ row[admin[a].id].status # "absent"
        /\ row'[admin[a].id].status = "absent" =>
              row[admin[a].id].status = "absent" \/ admin[a].id \in dropped'
        /\ dropped' \in {dropped, dropped \cup {admin[a].id}}
    BY <2>1, <2>2, SetRetryEffect, DeleteRowEffect DEF Present, IInv, TypeOK
  <2>4. /\ UNCHANGED <<last, relay, renewal, faults, handled>>
        /\ admin' = [admin EXCEPT ![a] = NoOp]
    BY <1>2 DEF RequeueDead, DiscardDead, history
  <2>5. TypeOK'
    BY <2>1, <2>3, <2>4, OutboxAssumption DEF IInv, TypeOK, relay, NoOp
  <2>6. NothingAhead'
    BY <2>1, <2>3, <2>4, OutboxAssumption DEF IInv, TypeOK, NothingAhead, relay, NoOp, Messages
  <2>7. WorkersInStep' /\ DeadIsExhausted'
    BY <2>1, <2>3, <2>4 DEF IInv, WorkersInStep, DeadIsExhausted, relay, Held
  <2>8. CopiesAreOld'
    <3> SUFFICES ASSUME NEW v \in Workers, NEW m \in Messages, row'[m].status # "absent"
                 PROVE  seen[v][m] <= row'[m].attempt
      BY <2>4 DEF CopiesAreOld, Present, relay
    <3>1. row[m].status # "absent" /\ row'[m].attempt = row[m].attempt
      BY <2>1, <2>3
    <3>2. QED
      BY <3>1 DEF IInv, CopiesAreOld, Present
  <2>9. NoEventLost'
    <3> SUFFICES ASSUME NEW m \in 1..last, row'[m].status = "absent"
                 PROVE  m \in handled \/ m \in dropped'
      BY <2>4 DEF NoEventLost, Present
    <3>1. m \in Messages
      BY OutboxAssumption DEF IInv, TypeOK, Messages
    <3>2. row[m].status = "absent" \/ m \in dropped'
      BY <3>1, <2>1, <2>3
    <3>3. QED
      BY <3>2, <2>3 DEF IInv, NoEventLost, Present
  <2>10. QED
    BY <2>5, <2>6, <2>7, <2>8, <2>9 DEF IInv
<1>3. QED
  BY <1>1, <1>2

\* Time goes on.
LEMMA TickInv ==
    ASSUME IInv, Tick
    PROVE  IInv'
<1>1. /\ row' \in [Messages -> Row]
      /\ \A m \in Messages : /\ row'[m].status = row[m].status
                             /\ row'[m].attempt = row[m].attempt
                             /\ row[m] = NoRow => row'[m] = NoRow
  <2> SUFFICES ASSUME NEW m \in Messages
               PROVE  /\ row'[m] \in Row
                      /\ row'[m].status = row[m].status
                      /\ row'[m].attempt = row[m].attempt
                      /\ row[m] = NoRow => row'[m] = NoRow
    BY DEF Tick
  <2>1. row[m] \in Row /\ row[m].wait \in Nat
    BY DEF IInv, TypeOK, Row
  <2>2. row'[m] = [row[m] EXCEPT !.wait = Down(row[m].wait)]
    BY DEF Tick
  <2>3. "absent" \in Status
    BY DEF Status
  <2>4. row[m] = NoRow => row'[m] = NoRow
    BY <2>2 DEF NoRow, Down
  <2>5. Down(row[m].wait) \in Nat
    BY <2>1, DownType
  <2>6. /\ row'[m] \in Row
        /\ row'[m].status = row[m].status
        /\ row'[m].attempt = row[m].attempt
    BY <2>1, <2>2, <2>5 DEF Row
  <2>7. QED
    BY <2>4, <2>6
<1>2. /\ renewal' \in [Workers -> [id : 0..MaxMessages, left : 0..Lease]]
      /\ \A w \in Workers : \/ renewal'[w] = NoRenewal
                            \/ renewal[w] # NoRenewal /\ renewal'[w].id = renewal[w].id
  <2> SUFFICES ASSUME NEW w \in Workers
               PROVE  /\ renewal'[w] \in [id : 0..MaxMessages, left : 0..Lease]
                      /\ \/ renewal'[w] = NoRenewal
                         \/ renewal[w] # NoRenewal /\ renewal'[w].id = renewal[w].id
    BY DEF Tick
  <2>1. renewal[w] \in [id : 0..MaxMessages, left : 0..Lease] /\ renewal[w].left \in 0..Lease
    BY DEF IInv, TypeOK
  <2>2. renewal'[w] = [renewal[w] EXCEPT !.left = Down(renewal[w].left)]
    BY DEF Tick
  <2>3. Down(renewal[w].left) \in 0..Lease
    BY <2>1, OutboxAssumption DEF Down
  <2>4. renewal[w] = NoRenewal => renewal'[w] = NoRenewal
    BY <2>2 DEF NoRenewal, Down
  <2>5. /\ renewal'[w].id = renewal[w].id
        /\ renewal'[w] \in [id : 0..MaxMessages, left : 0..Lease]
    BY <2>1, <2>2, <2>3
  <2>6. CASE renewal[w] = NoRenewal
    BY <2>4, <2>5, <2>6
  <2>7. CASE renewal[w] # NoRenewal
    BY <2>5, <2>7
  <2>8. QED
    BY <2>6, <2>7
<1>3. age' \in [Workers -> 0..MaxWait]
  <2> SUFFICES ASSUME NEW w \in Workers
               PROVE  (IF pc[w] = "idle" \/ age[w] = MaxWait THEN age[w] ELSE age[w] + 1)
                         \in 0..MaxWait
    BY DEF Tick
  <2>1. age[w] \in 0..MaxWait
    BY DEF IInv, TypeOK
  <2>2. QED
    BY <2>1, MaxWaitType
<1>4. QED
  BY <1>1, <1>2, <1>3, QuietInv DEF Tick

\* The process restarts with the table alone.
LEMMA CrashInv ==
    ASSUME IInv, Crash
    PROVE  IInv'
<1>1. TypeOK'
  BY OutboxAssumption, MaxWaitType
  DEF Crash, IInv, TypeOK, store, history, PC, Attempts, NoRenewal, NoOp
<1>2. WorkersInStep' /\ NothingAhead' /\ CopiesAreOld' /\ DeadIsExhausted' /\ NoEventLost'
  BY OutboxAssumption
  DEF Crash, IInv, TypeOK, WorkersInStep, NothingAhead, CopiesAreOld, DeadIsExhausted, NoEventLost,
      store, history, Held, Present, Messages, Row, Attempts
<1>3. QED
  BY <1>1, <1>2 DEF IInv

\* Every step, and every stutter, keeps the invariant.
LEMMA NextInv == IInv /\ [Next]_vars => IInv'
<1> SUFFICES ASSUME IInv, [Next]_vars PROVE IInv'
  OBVIOUS
<1>1. ASSUME NEW n \in Messages, Append(n) PROVE IInv'
  BY <1>1, AppendInv
<1>2. ASSUME NEW w \in Workers, FetchReady(w) PROVE IInv'
  BY <1>2, FetchReadyInv
<1>3. ASSUME NEW w \in Workers, Handling(w) PROVE IInv'
  BY <1>3, HandleNextInv, DispatchInv, MarkSucceededInv, MarkRetryInv, MarkDeadInv, MarkFailsInv
  DEF Handling
<1>4. ASSUME NEW w \in Workers, RenewStart(w) \/ RenewProcessing(w) PROVE IInv'
  BY <1>4, RenewInv
<1>5. CASE UNCHANGED vars
  BY <1>5 DEF vars, IInv, TypeOK, WorkersInStep, NothingAhead, CopiesAreOld, DeadIsExhausted,
              NoEventLost, Held, Present
<1>6. QED
  BY <1>1, <1>2, <1>3, <1>4, <1>5, AdminInv, TickInv, CrashInv DEF Next, Step

\* In every reachable state of the outbox (relay.go, outbox_repository.go, the outbox
\* endpoints) the inductive invariant holds.
THEOREM Invariance == Spec => []IInv
  BY InitInv, NextInv, PTL DEF Spec

\* Rows, fetched copies, leases and renewals under way stay within their types.
THEOREM TypeCorrect == Spec => []TypeOK
<1>1. IInv => TypeOK
  BY DEF IInv
<1>2. QED
  BY <1>1, Invariance, PTL

\* However many workers crash, lag behind their leases or fail to mark a row, and
\* whatever administrators do meanwhile, no committed event leaves the table unhandled
\* and undiscarded (relay.go handleMessage, outbox_repository.go MarkSucceeded).
THEOREM NothingLost == Spec => []NoEventLost
<1>1. IInv => NoEventLost
  BY DEF IInv
<1>2. QED
  BY <1>1, Invariance, PTL

\* A row is dead only after all its attempts, also when a worker with an outdated copy
\* made it so (relay.go markFailure).
THEOREM DeadOnlyWhenExhausted == Spec => []DeadIsExhausted
<1>1. IInv => DeadIsExhausted
  BY DEF IInv
<1>2. QED
  BY <1>1, Invariance, PTL

-----------------------------------------------------------------------------
(* Refinement: AtLeastOnce sees which rows are present, and the two histories. *)

Outstanding == {m \in Messages : Present(m)}

\* A step that deletes no row, inserts none and leaves the histories alone is no step
\* for AtLeastOnce.
LEMMA Stutter ==
    ASSUME \A m \in Messages : row'[m].status = "absent" <=> row[m].status = "absent",
           UNCHANGED <<last, handled, dropped>>
    PROVE  UNCHANGED <<1..last, Outstanding, handled, dropped>>
  BY DEF Outstanding, Present

\* What a step of AtLeastOnce is, in terms of the outbox.
LEMMA AbstractStep ==
    [Promise!Next]_(Promise!vars)
      <=> \/ \E S \in SUBSET Messages :
                /\ S # {} /\ S \cap (1..last) = {}
                /\ (1..last)' = (1..last) \cup S
                /\ Outstanding' = Outstanding \cup S
                /\ UNCHANGED <<handled, dropped>>
          \/ \E e \in Messages :
                \/ /\ e \in 1..last
                   /\ handled' = handled \cup {e}
                   /\ UNCHANGED <<1..last, Outstanding, dropped>>
                \/ /\ e \in Outstanding \cap handled
                   /\ Outstanding' = Outstanding \ {e}
                   /\ UNCHANGED <<1..last, handled, dropped>>
                \/ /\ e \in Outstanding
                   /\ Outstanding' = Outstanding \ {e}
                   /\ dropped' = dropped \cup {e}
                   /\ UNCHANGED <<1..last, handled>>
          \/ UNCHANGED <<1..last, Outstanding, handled, dropped>>
  BY DEF Promise!Next, Promise!vars, Promise!Commit, Promise!Handle, Promise!Retire,
         Promise!Discard, Outstanding

\* The transaction of a producer commits its events.
LEMMA AppendSimulates ==
    ASSUME IInv, NEW n \in Messages, Append(n)
    PROVE  [Promise!Next]_(Promise!vars)
<1> DEFINE S == (last + 1)..n
<1>1. last \in 0..MaxMessages /\ last < n /\ n \in 1..MaxMessages /\ last' = n
  BY DEF IInv, TypeOK, Append, Messages
<1>2. S \in SUBSET Messages /\ S # {} /\ S \cap (1..last) = {} /\ 1..n = (1..last) \cup S
  BY <1>1, OutboxAssumption DEF Messages
<1>3. Outstanding' = Outstanding \cup S
  <2>1. \A m \in Messages : m \in S => row'[m].status # "absent"
    BY DEF Append
  <2>2. \A m \in Messages : m \notin S => row'[m] = row[m]
    BY DEF Append
  <2>3. QED
    BY <1>2, <2>1, <2>2 DEF Outstanding, Present
<1>4. UNCHANGED <<handled, dropped>> /\ (1..last)' = (1..last) \cup S
  BY <1>1, <1>2 DEF Append, history
<1>5. QED
  BY <1>2, <1>3, <1>4, AbstractStep

\* The handlers of an event succeed: of one that was committed.
LEMMA DispatchSimulates ==
    ASSUME IInv, NEW w \in Workers, DispatchSucceeds(w)
    PROVE  [Promise!Next]_(Promise!vars)
<1>1. cur[w] \in Messages /\ seen[w][cur[w]] # 0
  BY DEF DispatchSucceeds, IInv, WorkersInStep, Held
<1>2. cur[w] \in 1..last
  BY <1>1, OutboxAssumption DEF IInv, TypeOK, NothingAhead, Messages
<1>3. /\ handled' = handled \cup {cur[w]}
      /\ UNCHANGED <<1..last, Outstanding, dropped>>
  BY DEF DispatchSucceeds, store, Outstanding, Present
<1>4. QED
  BY <1>1, <1>2, <1>3, AbstractStep

\* Deleting a row that is there takes it out of what is outstanding.
LEMMA Removal ==
    ASSUME row \in [Messages -> Row], NEW m \in Messages, row' = DeleteRow(m)
    PROVE  Outstanding' = Outstanding \ {m}
<1>1. /\ \A k \in Messages \ {m} : row'[k] = row[k]
      /\ row'[m].status = "absent"
  BY DeleteRowEffect
<1>2. QED
  BY <1>1 DEF Outstanding, Present

\* MarkSucceeded retires an event its worker has handled, if no other worker did so.
LEMMA MarkSucceededSimulates ==
    ASSUME IInv, NEW w \in Workers, MarkSucceeded(w)
    PROVE  [Promise!Next]_(Promise!vars)
<1>1. cur[w] \in Messages /\ cur[w] \in handled
  BY DEF MarkSucceeded, IInv, WorkersInStep, Held
<1>2. Outstanding' = Outstanding \ {cur[w]}
  BY <1>1, Removal DEF MarkSucceeded, IInv, TypeOK
<1>3. UNCHANGED <<1..last, handled, dropped>>
  BY DEF MarkSucceeded, history
<1>4. CASE cur[w] \in Outstanding
  BY <1>1, <1>2, <1>3, <1>4, AbstractStep
<1>5. CASE cur[w] \notin Outstanding
  BY <1>2, <1>3, <1>5, AbstractStep
<1>6. QED
  BY <1>4, <1>5

\* An administrator's DELETE discards an event, if its row is still there.
LEMMA DiscardSimulates ==
    ASSUME IInv, NEW a \in Admins, DiscardDead(a)
    PROVE  [Promise!Next]_(Promise!vars)
<1> DEFINE m == admin[a].id
<1>1. m \in Messages
  BY OutboxAssumption DEF DiscardDead, IInv, TypeOK, NothingAhead, NoOp, Messages
<1>2. Outstanding' = Outstanding \ {m}
  BY <1>1, Removal DEF DiscardDead, IInv, TypeOK
<1>3. /\ UNCHANGED <<1..last, handled>>
      /\ dropped' = IF m \in Outstanding THEN dropped \cup {m} ELSE dropped
  BY <1>1 DEF DiscardDead, Outstanding
<1>4. CASE m \in Outstanding
  BY <1>1, <1>2, <1>3, <1>4, AbstractStep
<1>5. CASE m \notin Outstanding
  BY <1>2, <1>3, <1>5, AbstractStep
<1>6. QED
  BY <1>4, <1>5

\* Every other step of a worker, an administrator, the clock or a crash leaves the set
\* of rows as it was.
LEMMA OthersStutter ==
    ASSUME IInv,
           \/ Tick \/ Crash \/ UNCHANGED vars
           \/ \E w \in Workers :
                 \/ FetchReady(w) \/ HandleNext(w) \/ DispatchFails(w) \/ MarkRetry(w)
                 \/ MarkDead(w) \/ MarkFails(w) \/ RenewStart(w) \/ RenewProcessing(w)
           \/ \E a \in Admins : RequeueDead(a)
           \/ \E a \in Admins, op \in {"requeue", "discard"}, m \in Messages : EnsureDead(a, op, m)
    PROVE  [Promise!Next]_(Promise!vars)
<1> SUFFICES /\ \A m \in Messages : row'[m].status = "absent" <=> row[m].status = "absent"
             /\ UNCHANGED <<last, handled, dropped>>
  BY Stutter, AbstractStep
<1>1. row \in [Messages -> Row]
  BY DEF IInv, TypeOK
<1>2. CASE Tick
  BY <1>1, <1>2 DEF Tick, history, Row
<1>3. CASE Crash \/ UNCHANGED vars
  BY <1>3 DEF Crash, vars, store, history
<1>4. ASSUME NEW w \in Workers, FetchReady(w)
      PROVE  /\ \A m \in Messages : row'[m].status = "absent" <=> row[m].status = "absent"
             /\ UNCHANGED <<last, handled, dropped>>
  BY <1>4 DEF FetchReady, FetchSet, Ready, FetchedRow, history
<1>5. ASSUME NEW w \in Workers,
             HandleNext(w) \/ DispatchFails(w) \/ MarkFails(w) \/ RenewStart(w)
      PROVE  UNCHANGED <<row, last, handled, dropped>>
  BY <1>5 DEF HandleNext, DispatchFails, MarkFails, RenewStart, store, history
<1>6. ASSUME NEW w \in Workers, MarkRetry(w)
      PROVE  /\ \A m \in Messages : row'[m].status = "absent" <=> row[m].status = "absent"
             /\ UNCHANGED <<last, handled, dropped>>
  <2>1. cur[w] \in Messages /\ seen[w][cur[w]] \in Attempts
    BY <1>6 DEF MarkRetry, IInv, TypeOK, WorkersInStep, Held
  <2>2. RetryWait(w) \in Nat
    BY <2>1, BackoffType, MaxWaitType DEF RetryWait, IInv, TypeOK
  <2>3. QED
    BY <1>1, <1>6, <2>1, <2>2, SetRetryEffect DEF MarkRetry, Present, history
<1>7. ASSUME NEW w \in Workers, MarkDead(w)
      PROVE  /\ \A m \in Messages : row'[m].status = "absent" <=> row[m].status = "absent"
             /\ UNCHANGED <<last, handled, dropped>>
  <2>1. cur[w] \in Messages
    BY <1>7 DEF MarkDead, IInv, WorkersInStep, Held
  <2>2. QED
    BY <1>1, <1>7, <2>1, SetDeadEffect DEF MarkDead, Present, history
<1>8. ASSUME NEW w \in Workers, RenewProcessing(w)
      PROVE  /\ \A m \in Messages : row'[m].status = "absent" <=> row[m].status = "absent"
             /\ UNCHANGED <<last, handled, dropped>>
  <2>1. renewal[w].id \in Messages /\ renewal[w].left \in Nat
    BY <1>8, OutboxAssumption
    DEF RenewProcessing, IInv, TypeOK, NothingAhead, NoRenewal, Messages
  <2>2. row' = SetLease(renewal[w].id, renewal[w].left) \/ row' = row
    BY <1>8 DEF RenewProcessing
  <2>3. \A m \in Messages : row'[m].status = "absent" <=> row[m].status = "absent"
    BY <1>1, <2>1, <2>2, SetLeaseEffect
  <2>4. QED
    BY <1>8, <2>3 DEF RenewProcessing, history
<1>9. ASSUME NEW a \in Admins, RequeueDead(a)
      PROVE  /\ \A m \in Messages : row'[m].status = "absent" <=> row[m].status = "absent"
             /\ UNCHANGED <<last, handled, dropped>>
  <2>1. admin[a].id \in Messages
    BY <1>9, OutboxAssumption DEF RequeueDead, IInv, TypeOK, NothingAhead, NoOp, Messages
  <2>2. QED
    BY <1>1, <1>9, <2>1, SetRetryEffect DEF RequeueDead, Present, history
<1>10. ASSUME NEW a \in Admins, NEW op \in {"requeue", "discard"}, NEW m \in Messages,
              EnsureDead(a, op, m)
       PROVE  UNCHANGED <<row, last, handled, dropped>>
  BY <1>10 DEF EnsureDead, store, history
<1>11. QED
  BY <1>2, <1>3, <1>4, <1>5, <1>6, <1>7, <1>8, <1>9, <1>10

\* Every step of the outbox is a step of AtLeastOnce or leaves its variables alone.
LEMMA StepSimulates == IInv /\ [Next]_vars => [Promise!Next]_(Promise!vars)
<1> SUFFICES ASSUME IInv, [Next]_vars PROVE [Promise!Next]_(Promise!vars)
  OBVIOUS
<1>1. ASSUME NEW n \in Messages, Append(n) PROVE [Promise!Next]_(Promise!vars)
  BY <1>1, AppendSimulates
<1>2. ASSUME NEW w \in Workers,
             FetchReady(w) \/ Handling(w) \/ RenewStart(w) \/ RenewProcessing(w)
      PROVE  [Promise!Next]_(Promise!vars)
  BY <1>2, DispatchSimulates, MarkSucceededSimulates, OthersStutter DEF Handling
<1>3. ASSUME Administration PROVE [Promise!Next]_(Promise!vars)
  BY <1>3, DiscardSimulates, OthersStutter DEF Administration
<1>4. CASE Tick \/ Crash \/ UNCHANGED vars
  BY <1>4, OthersStutter
<1>5. QED
  BY <1>1, <1>2, <1>3, <1>4 DEF Next, Step

\* An empty outbox is an empty promise.
LEMMA InitSimulates == Init => Promise!Init
<1> SUFFICES ASSUME Init PROVE Promise!Init
  OBVIOUS
<1>1. 1..last = {} /\ handled = {} /\ dropped = {}
  BY DEF Init
<1>2. {m \in Messages : Present(m)} = {}
  BY DEF Init, Present, NoRow
<1>3. QED
  BY <1>1, <1>2 DEF Promise!Init

\* The outbox implements at-least-once delivery: the table, the leases, the backoff and
\* the heartbeat are means to that end and break it in no interleaving.
THEOREM Implements == Spec => ImplementsAtLeastOnce
<1>1. Init => Promise!Init
  BY InitSimulates
<1>2. IInv /\ [Next]_vars => [Promise!Next]_(Promise!vars)
  BY StepSimulates
<1>3. QED
  BY <1>1, <1>2, Invariance, PTL DEF Spec, ImplementsAtLeastOnce, Promise!Spec

-----------------------------------------------------------------------------
(* A machine that keeps up *)

\* A poll for one message takes one at most.
LEMMA OneFetched ==
    ASSUME OneAtATime, NEW m \in FetchSet, NEW k \in FetchSet
    PROVE  m = k
<1>1. ASSUME NEW i \in FetchSet, NEW j \in FetchSet, i < j
      PROVE  FALSE
  <2> DEFINE S == {n \in Ready : n < j}
  <2>1. S \subseteq Messages /\ i \in S
    BY <1>1 DEF FetchSet, Ready
  <2>2. IsFiniteSet(Messages)
    BY FS_Interval, OutboxAssumption DEF Messages
  <2>3. IsFiniteSet(S)
    BY <2>1, <2>2, FS_Subset
  <2>4. Cardinality(S) < 1
    BY DEF FetchSet, OneAtATime
  <2> HIDE DEF S
  <2>5. Cardinality(S) = 0
    BY <2>3, <2>4, FS_CardinalityType
  <2>6. S = {}
    BY <2>3, <2>5, FS_EmptySet
  <2>7. QED
    BY <2>1, <2>6
<1>2. m \in Int /\ k \in Int
  BY DEF FetchSet, Ready, Messages
<1>3. QED
  BY <1>1, <1>2

\* Nothing is owned at first.
LEMMA OwnersInit == Init => OwnersInv
  BY DEF Init, OwnersInv, SingleOwner, HeldIsLeased, RenewalsGiveLeases, OperationsFindDead,
         HandledIsMarked, Held

\* The rows that are committed are new, and nobody holds or has handled them.
LEMMA AppendOwners ==
    ASSUME IInv, OwnersInv, NEW n \in Messages, Append(n)
    PROVE  OwnersInv'
<1>1. \A m \in Messages : row[m].status # "absent" => row'[m] = row[m]
  BY DEF Append, IInv, TypeOK, NothingAhead, NoRow, Messages
<1>2. \A m \in Messages : row'[m] = row[m] \/ m \notin handled
  BY DEF Append, IInv, TypeOK, NothingAhead, Messages
<1>3. UNCHANGED <<pc, cur, seen, renewal, admin, faults, handled>>
  BY DEF Append, relay, history
<1>4. SingleOwner' /\ RenewalsGiveLeases'
  BY <1>3 DEF OwnersInv, SingleOwner, RenewalsGiveLeases, Held
<1>5. HeldIsLeased'
  BY <1>1, <1>3 DEF OwnersInv, HeldIsLeased, Held
<1>6. OperationsFindDead'
  <2>1. \A a \in Admins : admin[a] # NoOp => admin[a].id \in Messages
    BY OutboxAssumption DEF IInv, TypeOK, NothingAhead, Messages
  <2>2. QED
    BY <1>1, <1>3, <2>1 DEF OwnersInv, OperationsFindDead
<1>7. HandledIsMarked'
  BY <1>2, <1>3 DEF OwnersInv, HandledIsMarked, Present, IInv, TypeOK
<1>8. QED
  BY <1>4, <1>5, <1>6, <1>7 DEF OwnersInv

\* What is fetched is held by nobody: its lease has run out, or it had none.
LEMMA FetchReadyOwners ==
    ASSUME IInv, OwnersInv, OneAtATime, NEW w \in Workers, FetchReady(w)
    PROVE  OwnersInv'
<1>1. /\ FetchSet \subseteq Messages
      /\ \A m \in FetchSet : row[m].wait = 0 /\ row[m].status \in {"pending", "processing"}
  BY DEF FetchSet, Ready
<1>2. \A v \in Workers, m \in FetchSet : m \notin Held(v)
  BY <1>1 DEF OwnersInv, HeldIsLeased
<1>3. Held(w) = {} /\ pc[w] = "idle"
  BY DEF FetchReady, OwnersInv, HeldIsLeased
<1>4. /\ Held(w)' \subseteq FetchSet /\ pc'[w] = "polled"
      /\ \A v \in Workers \ {w} : Held(v)' = Held(v) /\ pc'[v] = pc[v]
      /\ UNCHANGED <<cur, renewal, admin, faults, handled>>
  BY DEF FetchReady, IInv, TypeOK, Held, history
<1>5. \A m \in Messages :
        /\ m \notin FetchSet => row'[m] = row[m]
        /\ m \in FetchSet => row'[m].status = "processing" /\ row'[m].wait = Lease
  BY DEF FetchReady, FetchedRow
<1>6. SingleOwner'
  BY <1>2, <1>4 DEF OwnersInv, SingleOwner
<1>7. HeldIsLeased'
  <2>1. \A m \in Held(w)' : row'[m].status = "processing" /\ row'[m].wait > 0
    BY <1>1, <1>4, <1>5, OutboxAssumption
  <2>2. \A v \in Workers \ {w} : \A m \in Held(v)' : row'[m] = row[m]
    BY <1>2, <1>4, <1>5 DEF Held
  <2>3. \A m, k \in Held(w)' : m = k
    BY <1>4, OneFetched
  <2>4. QED
    BY <1>4, <2>1, <2>2, <2>3 DEF OwnersInv, HeldIsLeased
<1>8. OperationsFindDead'
  <2>1. \A a \in Admins : admin[a] # NoOp => admin[a].id \in Messages
    BY OutboxAssumption DEF IInv, TypeOK, NothingAhead, Messages
  <2>2. QED
    BY <1>1, <1>4, <1>5, <2>1 DEF OwnersInv, OperationsFindDead
<1>9. HandledIsMarked'
  <2>1. \A m \in Messages : Present(m)' => Present(m)
    BY <1>1, <1>5 DEF Present
  <2>2. QED
    BY <1>3, <1>4, <2>1 DEF OwnersInv, HandledIsMarked, IInv, TypeOK
<1>10. RenewalsGiveLeases'
  BY <1>4 DEF OwnersInv, RenewalsGiveLeases
<1>11. QED
  BY <1>6, <1>7, <1>8, <1>9, <1>10 DEF OwnersInv

\* A worker takes up the only message it holds.
LEMMA HandleNextOwners ==
    ASSUME IInv, OwnersInv, NEW w \in Workers, HandleNext(w)
    PROVE  OwnersInv'
<1>1. /\ UNCHANGED <<row, seen, renewal, admin, faults, handled>>
      /\ pc[w] = "polled" /\ pc'[w] \in {"dispatch", "unreadable"}
      /\ \A v \in Workers \ {w} : pc'[v] = pc[v] /\ cur'[v] = cur[v]
  BY DEF HandleNext, store, history, IInv, TypeOK
<1>2. SingleOwner' /\ RenewalsGiveLeases' /\ OperationsFindDead'
  BY <1>1 DEF OwnersInv, SingleOwner, RenewalsGiveLeases, OperationsFindDead, Held
<1>3. HeldIsLeased'
  BY <1>1 DEF OwnersInv, HeldIsLeased, Held
<1>4. HandledIsMarked'
  BY <1>1 DEF OwnersInv, HandledIsMarked, Present
<1>5. QED
  BY <1>2, <1>3, <1>4 DEF OwnersInv

\* The handlers succeed, and the worker stands at marking, or they fail.
LEMMA DispatchOwners ==
    ASSUME IInv, OwnersInv, NEW w \in Workers, DispatchSucceeds(w) \/ DispatchFails(w)
    PROVE  OwnersInv'
<1>1. /\ UNCHANGED <<row, cur, seen, renewal, admin, faults>>
      /\ pc[w] = "dispatch" /\ pc'[w] \in {"succeeded", "failed"}
      /\ \A v \in Workers \ {w} : pc'[v] = pc[v]
      /\ handled' = handled \/ (handled' = handled \cup {cur[w]} /\ pc'[w] = "succeeded")
  BY DEF DispatchSucceeds, DispatchFails, store, history, IInv, TypeOK
<1>2. SingleOwner' /\ RenewalsGiveLeases' /\ OperationsFindDead'
  BY <1>1 DEF OwnersInv, SingleOwner, RenewalsGiveLeases, OperationsFindDead, Held
<1>3. HeldIsLeased'
  BY <1>1 DEF OwnersInv, HeldIsLeased, Held
<1>4. HandledIsMarked'
  BY <1>1 DEF OwnersInv, HandledIsMarked, Present
<1>5. QED
  BY <1>2, <1>3, <1>4 DEF OwnersInv

\* Of a message its owner returns, no other worker holds a copy and no administrator has
\* an operation under way.
LEMMA ReturnOwners ==
    ASSUME IInv, OwnersInv, NEW w \in Workers, Return(w),
           pc[w] \in {"succeeded", "failed", "unreadable"},
           \A m \in Messages \ {cur[w]} : row'[m] = row[m],
           row'[cur[w]].status # "absent" => Present(cur[w]),
           UNCHANGED <<renewal, admin, handled>>,
           faults' = MaxFaults => faults = MaxFaults,
           pc[w] = "succeeded" /\ faults' = MaxFaults => row'[cur[w]].status = "absent"
    PROVE  OwnersInv'
<1>1. cur[w] \in Held(w) /\ cur[w] \in Messages
  BY DEF IInv, WorkersInStep, Held
<1>2. Held(w) = {cur[w]}
  BY <1>1 DEF OwnersInv, HeldIsLeased
<1>3. /\ Held(w)' = {} /\ pc'[w] = "idle"
      /\ \A v \in Workers \ {w} : /\ Held(v)' = Held(v) /\ cur[w] \notin Held(v)
                                  /\ pc'[v] = pc[v] /\ cur'[v] = cur[v]
  <2>1. pc'[w] = "idle"
    BY <1>2 DEF Return, IInv, TypeOK
  <2>2. \A m \in Messages : seen'[w][m] = IF m = cur[w] THEN 0 ELSE seen[w][m]
    BY <1>1 DEF Return, IInv, TypeOK
  <2>3. Held(w)' = {}
    BY <1>2, <2>2 DEF Held
  <2>4. \A v \in Workers \ {w} : pc'[v] = pc[v] /\ cur'[v] = cur[v] /\ seen'[v] = seen[v]
    BY DEF Return, IInv, TypeOK
  <2>5. \A v \in Workers \ {w} : cur[w] \notin Held(v)
    BY <1>1 DEF OwnersInv, SingleOwner
  <2>6. QED
    BY <2>1, <2>3, <2>4, <2>5 DEF Held
<1>4. SingleOwner' /\ RenewalsGiveLeases'
  BY <1>3 DEF OwnersInv, SingleOwner, RenewalsGiveLeases
<1>5. HeldIsLeased'
  <2>1. \A v \in Workers \ {w} : \A m \in Held(v)' : row'[m] = row[m]
    BY <1>3 DEF Held
  <2>2. QED
    BY <1>3, <2>1 DEF OwnersInv, HeldIsLeased
<1>6. OperationsFindDead'
  <2>1. \A a \in Admins : admin[a] # NoOp => admin[a].id \in Messages
    BY OutboxAssumption DEF IInv, TypeOK, NothingAhead, Messages
  <2>2. row[cur[w]].status = "processing"
    BY <1>1 DEF OwnersInv, HeldIsLeased
  <2>3. QED
    BY <2>1, <2>2 DEF OwnersInv, OperationsFindDead
<1>7. HandledIsMarked'
  <2> SUFFICES ASSUME faults' = MaxFaults, NEW m \in handled, Present(m)'
               PROVE  \E v \in Workers : pc'[v] = "succeeded" /\ cur'[v] = m
    BY DEF HandledIsMarked
  <2>1. m \in Messages
    BY DEF IInv, TypeOK
  <2>2. Present(m)
    BY <2>1 DEF Present
  <2>3. PICK v \in Workers : pc[v] = "succeeded" /\ cur[v] = m
    BY <2>2 DEF OwnersInv, HandledIsMarked
  <2>4. v # w
    BY <2>3 DEF Present
  <2>5. QED
    BY <1>3, <2>3, <2>4
<1>8. QED
  BY <1>4, <1>5, <1>6, <1>7 DEF OwnersInv

\* Success deletes the row, failure puts it back or lays it down.
LEMMA MarkOwners ==
    ASSUME IInv, OwnersInv, NEW w \in Workers,
           MarkSucceeded(w) \/ MarkRetry(w) \/ MarkDead(w) \/ MarkFails(w)
    PROVE  OwnersInv'
<1>1. row \in [Messages -> Row] /\ faults \in 0..MaxFaults
  BY DEF IInv, TypeOK
<1>2. pc[w] \in {"succeeded", "failed", "unreadable"} /\ Return(w)
        /\ UNCHANGED <<renewal, admin, handled>>
  BY DEF MarkSucceeded, MarkRetry, MarkDead, MarkFails, history
<1>3. cur[w] \in Messages /\ seen[w][cur[w]] \in Attempts
  BY <1>2, ReturnEffect DEF IInv, WorkersInStep, Held
<1>4. CASE MarkSucceeded(w)
  <2>1. /\ \A m \in Messages \ {cur[w]} : row'[m] = row[m]
        /\ row'[cur[w]].status = "absent" /\ faults' = faults
    BY <1>1, <1>3, <1>4, DeleteRowEffect DEF MarkSucceeded, Present
  <2>2. QED
    BY <1>2, <2>1, ReturnOwners
<1>5. CASE MarkRetry(w)
  <2>1. RetryWait(w) \in Nat
    BY <1>3, BackoffType, MaxWaitType DEF RetryWait, IInv, TypeOK
  <2>2. /\ \A m \in Messages \ {cur[w]} : row'[m] = row[m]
        /\ row'[cur[w]].status # "absent" => Present(cur[w])
        /\ pc[w] # "succeeded" /\ faults' = faults
    BY <1>1, <1>3, <1>5, <2>1, SetRetryEffect DEF MarkRetry, Present
  <2>3. QED
    BY <1>2, <2>2, ReturnOwners
<1>6. CASE MarkDead(w)
  <2>1. /\ \A m \in Messages \ {cur[w]} : row'[m] = row[m]
        /\ row'[cur[w]].status # "absent" => Present(cur[w])
        /\ pc[w] # "succeeded" /\ faults' = faults
    BY <1>1, <1>3, <1>6, SetDeadEffect DEF MarkDead, Present
  <2>2. QED
    BY <1>2, <2>1, ReturnOwners
<1>7. CASE MarkFails(w)
  <2>1. row' = row /\ faults' # MaxFaults
    BY <1>1, <1>7, OutboxAssumption DEF MarkFails, store
  <2>2. QED
    BY <1>2, <2>1, ReturnOwners DEF Present
<1>8. QED
  BY <1>4, <1>5, <1>6, <1>7

\* A heartbeat gives a row that is being processed a whole lease, and no other.
LEMMA RenewOwners ==
    ASSUME IInv, OwnersInv, NEW w \in Workers, RenewStart(w) \/ RenewProcessing(w)
    PROVE  OwnersInv'
<1>1. UNCHANGED <<pc, cur, seen, admin, faults, handled>>
  BY DEF RenewStart, RenewProcessing, relay, store, history
<1>2. RenewalsGiveLeases'
  BY DEF RenewStart, RenewProcessing, OwnersInv, RenewalsGiveLeases, IInv, TypeOK
<1>3. \A m \in Messages : /\ row'[m].status = row[m].status
                          /\ row'[m].wait = row[m].wait \/ row'[m].wait = Lease
  <2>1. CASE RenewStart(w)
    BY <2>1 DEF RenewStart, store
  <2>2. CASE RenewProcessing(w)
    <3> DEFINE n == renewal[w].id
               r == [row[n] EXCEPT !.wait = Lease]
    <3>1. n \in Messages /\ renewal[w].left = Lease
      BY <2>2, OutboxAssumption DEF RenewProcessing, IInv, TypeOK, NothingAhead, Messages,
                                    OwnersInv, RenewalsGiveLeases
    <3>2. row[n] \in Row
      BY <3>1 DEF IInv, TypeOK
    <3>3. r.status = row[n].status /\ r.wait = Lease
      BY <3>2 DEF Row
    <3>4. row' = row \/ row' = [row EXCEPT ![n] = IF row[n].status = "processing" THEN r ELSE row[n]]
      BY <2>2, <3>1 DEF RenewProcessing, SetLease
    <3> HIDE DEF n, r
    <3>5. QED
      BY <3>1, <3>3, <3>4 DEF IInv, TypeOK
  <2>3. QED
    BY <2>1, <2>2
<1>4. SingleOwner'
  BY <1>1 DEF OwnersInv, SingleOwner, Held
<1>5. HeldIsLeased'
  BY <1>1, <1>3, OutboxAssumption DEF OwnersInv, HeldIsLeased, Held
<1>6. OperationsFindDead'
  <2>1. \A a \in Admins : admin[a] # NoOp => admin[a].id \in Messages
    BY OutboxAssumption DEF IInv, TypeOK, NothingAhead, Messages
  <2>2. QED
    BY <1>1, <1>3, <2>1 DEF OwnersInv, OperationsFindDead
<1>7. HandledIsMarked'
  BY <1>1, <1>3 DEF OwnersInv, HandledIsMarked, Present, IInv, TypeOK
<1>8. QED
  BY <1>2, <1>4, <1>5, <1>6, <1>7 DEF OwnersInv

\* The only operation there is has found its row dead, and nobody holds a dead row.
LEMMA AdminOwners ==
    ASSUME IInv, OwnersInv, OneAtATime, Administration
    PROVE  OwnersInv'
<1>1. row \in [Messages -> Row]
  BY DEF IInv, TypeOK
<1>2. ASSUME NEW a \in Admins, NEW op \in {"requeue", "discard"}, NEW m \in Messages,
             EnsureDead(a, op, m)
      PROVE  OwnersInv'
  <2>1. UNCHANGED <<row, pc, cur, seen, renewal, faults, handled>>
    BY <1>2 DEF EnsureDead, store, relay, history
  <2>2. OperationsFindDead'
    BY <1>2, <2>1 DEF EnsureDead, OwnersInv, OperationsFindDead, IInv, TypeOK
  <2>3. QED
    BY <2>1, <2>2 DEF OwnersInv, SingleOwner, HeldIsLeased, RenewalsGiveLeases, HandledIsMarked,
                      Held, Present
<1>3. ASSUME NEW a \in Admins, RequeueDead(a) \/ DiscardDead(a)
      PROVE  OwnersInv'
  <2> DEFINE m == admin[a].id
  <2>1. m \in Messages /\ row[m].status = "dead"
    BY <1>3, OutboxAssumption DEF RequeueDead, DiscardDead, IInv, TypeOK, NothingAhead, NoOp,
                                  Messages, OwnersInv, OperationsFindDead
  <2>2. /\ \A k \in Messages \ {m} : row'[k] = row[k]
        /\ UNCHANGED <<pc, cur, seen, renewal, faults, handled>>
        /\ \A b \in Admins : admin'[b] = NoOp
    <3>1. CASE RequeueDead(a)
      BY <1>1, <2>1, <3>1, SetRetryEffect DEF RequeueDead, relay, history, OneAtATime, IInv, TypeOK
    <3>2. CASE DiscardDead(a)
      BY <1>1, <2>1, <3>2, DeleteRowEffect DEF DiscardDead, relay, OneAtATime, IInv, TypeOK
    <3>3. QED
      BY <1>3, <3>1, <3>2
  <2> HIDE DEF m
  <2>3. \A w \in Workers : m \notin Held(w)
    BY <2>1 DEF OwnersInv, HeldIsLeased
  <2>4. HeldIsLeased'
    BY <2>2, <2>3 DEF OwnersInv, HeldIsLeased, Held
  <2>5. SingleOwner' /\ RenewalsGiveLeases' /\ OperationsFindDead'
    BY <2>2 DEF OwnersInv, SingleOwner, RenewalsGiveLeases, OperationsFindDead, Held
  <2>6. HandledIsMarked'
    BY <2>1, <2>2 DEF OwnersInv, HandledIsMarked, Present, IInv, TypeOK
  <2>7. QED
    BY <2>4, <2>5, <2>6 DEF OwnersInv
<1>4. QED
  BY <1>2, <1>3 DEF Administration

\* Time does not pass a lease by whose message is being handled.
LEMMA TickOwners ==
    ASSUME IInv, OwnersInv, KeepsUp, Tick
    PROVE  OwnersInv'
<1>1. /\ UNCHANGED <<pc, cur, seen, admin, faults, handled>>
      /\ \A m \in Messages : /\ row'[m].status = row[m].status
                            /\ row'[m].wait = Down(row[m].wait)
  BY DEF Tick, history, IInv, TypeOK, Row
<1>2. SingleOwner'
  BY <1>1 DEF OwnersInv, SingleOwner, Held
<1>3. HeldIsLeased'
  <2> SUFFICES ASSUME NEW w \in Workers, NEW m \in Held(w)
               PROVE  row'[m].status = "processing" /\ row'[m].wait > 0
    BY <1>1 DEF OwnersInv, HeldIsLeased, Held
  <2>1. row[m].status = "processing" /\ m \in Messages /\ pc[w] # "idle"
    BY DEF OwnersInv, HeldIsLeased, Held
  <2>2. pc[w] = "dispatch"
    BY <2>1 DEF KeepsUp
  <2>3. cur[w] = m
    BY <2>2 DEF IInv, WorkersInStep, OwnersInv, HeldIsLeased
  <2>4. row[m].wait > 1 /\ row[m].wait \in Nat
    BY <2>1, <2>2, <2>3 DEF KeepsUp, IInv, TypeOK, Row
  <2>5. QED
    BY <1>1, <2>1, <2>4 DEF Down
<1>4. RenewalsGiveLeases'
  <2>1. \A w \in Workers : renewal'[w] = NoRenewal
    BY DEF KeepsUp, Tick, NoRenewal, Down
  <2>2. QED
    BY <2>1 DEF RenewalsGiveLeases
<1>5. OperationsFindDead'
  <2>1. \A a \in Admins : admin[a] # NoOp => admin[a].id \in Messages
    BY OutboxAssumption DEF IInv, TypeOK, NothingAhead, Messages
  <2>2. QED
    BY <1>1, <2>1 DEF OwnersInv, OperationsFindDead
<1>6. HandledIsMarked'
  BY <1>1 DEF OwnersInv, HandledIsMarked, Present, IInv, TypeOK
<1>7. QED
  BY <1>2, <1>3, <1>4, <1>5, <1>6 DEF OwnersInv

\* After a crash nobody owns anything, and not all is healthy.
LEMMA CrashOwners ==
    ASSUME IInv, OwnersInv, Crash
    PROVE  OwnersInv'
<1>1. /\ \A w \in Workers : Held(w)' = {} /\ renewal'[w] = NoRenewal
      /\ \A a \in Admins : admin'[a] = NoOp
  BY DEF Crash, Held
<1>2. faults' # MaxFaults
  BY OutboxAssumption DEF Crash, IInv, TypeOK
<1>3. QED
  BY <1>1, <1>2 DEF OwnersInv, SingleOwner, HeldIsLeased, RenewalsGiveLeases, OperationsFindDead,
                    HandledIsMarked

\* On a machine that keeps up every step, and every stutter, keeps owners apart.
LEMMA OwnersNext ==
    OneAtATime /\ IInv /\ OwnersInv /\ [Step \/ (KeepsUp /\ Tick)]_vars => OwnersInv'
<1> SUFFICES ASSUME OneAtATime, IInv, OwnersInv, [Step \/ (KeepsUp /\ Tick)]_vars
             PROVE  OwnersInv'
  OBVIOUS
<1>1. CASE Step
  BY <1>1, AppendOwners, FetchReadyOwners, HandleNextOwners, DispatchOwners, MarkOwners,
     RenewOwners, AdminOwners, CrashOwners DEF Step, Handling
<1>2. CASE KeepsUp /\ Tick
  BY <1>2, TickOwners
<1>3. CASE UNCHANGED vars
  BY <1>3 DEF vars, OwnersInv, SingleOwner, HeldIsLeased, RenewalsGiveLeases, OperationsFindDead,
              HandledIsMarked, Held, Present
<1>4. QED
  BY <1>1, <1>2, <1>3

\* The machine that keeps up is a machine, and keeps owners apart.
LEMMA TimelyInvariance == OneAtATime => (TimelySpec => [](IInv /\ OwnersInv))
<1> SUFFICES ASSUME OneAtATime PROVE TimelySpec => [](IInv /\ OwnersInv)
  OBVIOUS
<1>1. Init => IInv /\ OwnersInv
  BY InitInv, OwnersInit
<1>2. (IInv /\ OwnersInv) /\ [Step \/ (KeepsUp /\ Tick)]_vars => (IInv /\ OwnersInv)'
  BY NextInv, OwnersNext DEF Next
<1>3. QED
  BY <1>1, <1>2, PTL DEF TimelySpec

\* Where workers keep up, fetch one message at a time and administrators' operations do not
\* overlap, the lease makes the worker that fetched a message its only owner, for every
\* number of workers and length of lease (relay.go startLeaseRenewal, outbox_repository.go FetchReady).
THEOREM OwnerIsSingle == OneAtATime => (TimelySpec => []SingleOwner)
<1>1. IInv /\ OwnersInv => SingleOwner
  BY DEF OwnersInv
<1>2. QED
  BY <1>1, TimelyInvariance, PTL

\* There, and until something fails, the handlers of an event succeed only once (relay.go
\* handleMessage against a second worker's poll).
THEOREM HandledOnce == OneAtATime => (TimelySpec => ExactlyOnceWhenHealthy)
<1> DEFINE Once == \A w \in Workers :
                      pc[w] = "dispatch" /\ pc'[w] = "succeeded" /\ faults = MaxFaults
                         => cur[w] \notin handled
<1>1. IInv /\ OwnersInv => Once
  <2> SUFFICES ASSUME IInv, OwnersInv, NEW w \in Workers, pc[w] = "dispatch",
                      faults = MaxFaults, cur[w] \in handled
               PROVE  FALSE
    OBVIOUS
  <2>1. cur[w] \in Held(w)
    BY DEF IInv, WorkersInStep
  <2>2. Present(cur[w])
    BY <2>1 DEF OwnersInv, HeldIsLeased, Present
  <2>3. PICK v \in Workers : pc[v] = "succeeded" /\ cur[v] = cur[w]
    BY <2>2 DEF OwnersInv, HandledIsMarked
  <2>4. cur[v] \in Held(v) /\ v # w
    BY <2>3 DEF IInv, WorkersInStep
  <2>5. QED
    BY <2>1, <2>3, <2>4 DEF OwnersInv, SingleOwner
<1>2. [](IInv /\ OwnersInv) => [][Once]_vars
  BY <1>1, PTL
<1>3. QED
  BY <1>2, TimelyInvariance, PTL DEF ExactlyOnceWhenHealthy

\* There, a dead row stays dead until an administrator's operation on it: no worker that was
\* late brings it back (outbox_repository.go MarkRetry, MarkDead against RequeueDead, DiscardDead).
THEOREM DeadStayDead == OneAtATime => (TimelySpec => DeadLeftOnlyByAdmin)
<1> DEFINE Left == \A m \in Messages :
                      row[m].status = "dead" /\ row'[m].status # "dead"
                         => \E a \in Admins : admin[a].id = m /\ admin'[a] = NoOp
<1>1. IInv /\ OwnersInv /\ [Step \/ (KeepsUp /\ Tick)]_vars => [Left]_vars
  <2> SUFFICES ASSUME IInv, OwnersInv, Step \/ (KeepsUp /\ Tick),
                      NEW m \in Messages, row[m].status = "dead", row'[m].status # "dead"
               PROVE  \E a \in Admins : admin[a].id = m /\ admin'[a] = NoOp
    OBVIOUS
  <2>1. row \in [Messages -> Row]
    BY DEF IInv, TypeOK
  <2>2. ~Tick /\ ~Crash
    BY <2>1 DEF Tick, Crash, store, Row
  <2>3. ASSUME NEW n \in Messages, Append(n) PROVE FALSE
    BY <2>3 DEF Append, IInv, TypeOK, NothingAhead, NoRow, Messages
  <2>4. ASSUME NEW w \in Workers, FetchReady(w) PROVE FALSE
    BY <2>4 DEF FetchReady, FetchSet, Ready
  <2>5. ASSUME NEW w \in Workers, Handling(w) PROVE FALSE
    <3>1. MarkSucceeded(w) \/ MarkRetry(w) \/ MarkDead(w)
      BY <2>5 DEF Handling, HandleNext, DispatchSucceeds, DispatchFails, MarkFails, store
    <3>2. cur[w] \in Messages /\ cur[w] # m
      BY <3>1 DEF MarkSucceeded, MarkRetry, MarkDead, IInv, WorkersInStep, Held, OwnersInv,
                  HeldIsLeased
    <3>3. row'[m] = row[m]
      BY <2>1, <3>1, <3>2 DEF MarkSucceeded, MarkRetry, MarkDead, DeleteRow, SetRetry, SetDead
    <3>4. QED
      BY <3>3
  <2>6. ASSUME NEW w \in Workers, RenewStart(w) \/ RenewProcessing(w) PROVE FALSE
    BY <2>1, <2>6 DEF RenewStart, RenewProcessing, SetLease, store
  <2>7. CASE Administration
    <3>1. PICK a \in Admins : RequeueDead(a) \/ DiscardDead(a)
      BY <2>7 DEF Administration, EnsureDead, store
    <3>2. admin'[a] = NoOp
      BY <3>1 DEF RequeueDead, DiscardDead, IInv, TypeOK
    <3>3. admin[a].id = m
      BY <2>1, <3>1 DEF RequeueDead, DiscardDead, SetRetry, DeleteRow
    <3>4. QED
      BY <3>2, <3>3
  <2>8. QED
    BY <2>2, <2>3, <2>4, <2>5, <2>6, <2>7 DEF Step
<1>2. [](IInv /\ OwnersInv) /\ [][Step \/ (KeepsUp /\ Tick)]_vars => [][Left]_vars
  BY <1>1, PTL
<1>3. QED
  BY <1>2, TimelyInvariance, PTL DEF TimelySpec, DeadLeftOnlyByAdmin

==============================================================================
