------------------------------- MODULE Outbox -------------------------------
(***************************************************************************)
(* The transactional outbox: the table outbox_messages, the relay workers  *)
(* that fetch, dispatch and mark its rows, the heartbeat that renews the   *)
(* lease of the message being handled, and the administrators who requeue  *)
(* or discard dead rows.                                                   *)
(*                                                                         *)
(* Time is relative.  The code compares next_attempt_at with the clock     *)
(* only to ask whether it has passed, so a row keeps `wait`, the time left *)
(* until then, and Tick lets it run down to zero.  A worker computes       *)
(* backoff from the instant its poll began, so it keeps `age`, the time    *)
(* since then, no further than the longest backoff.                        *)
(* attempt_count is only compared with MaxAttempts and fed to a backoff    *)
(* below it, so it is kept up to MaxAttempts.                              *)
(*                                                                         *)
(* A message is named by the sequence number its INSERT gave it.           *)
(***************************************************************************)
EXTENDS Integers, FiniteSets

CONSTANTS
    MaxMessages,      \* bound: how many events are ever committed
    Workers,          \* relay goroutines (RelayConfig.WorkerCount of them)
    Admins,           \* administrators calling the outbox endpoints
    BatchSize, MaxAttempts, Lease, BaseBackoff, MaxBackoffFactor, \* RelayConfig
    MaxFaults         \* bound: process crashes and failed UPDATE/DELETEs

ASSUME OutboxAssumption ==
    /\ MaxMessages \in Nat
    /\ BatchSize \in Nat \ {0}
    /\ MaxAttempts \in Nat \ {0}
    /\ Lease \in Nat \ {0}
    /\ BaseBackoff \in Nat \ {0}
    /\ MaxBackoffFactor \in Nat \ {0}
    /\ MaxFaults \in Nat

VARIABLES
    last,      \* highest sequence number handed out
    row,       \* row[m]: the row of message m, NoRow before INSERT and after DELETE
    pc,        \* pc[w]: where worker w stands in pollOnce / handleMessage
    cur,       \* cur[w]: the message w is handling, 0 for none
    seen,      \* seen[w][m]: AttemptCount of the copy of m that w fetched and
               \*   has not marked yet, 0 when w holds no copy
    age,       \* age[w]: time since the `now` of w's poll
    renewal,   \* renewal[w]: a RenewProcessing call of w's heartbeat under way
    admin,     \* admin[a]: an operation of a that has passed its dead check
    faults,    \* faults still allowed to happen
    handled,   \* history: messages all of whose handlers have succeeded
    dropped    \* history: messages whose row an administrator deleted

store   == <<last, row>>
relay   == <<pc, cur, seen, age>>
history == <<handled, dropped>>
vars    == <<last, row, pc, cur, seen, age, renewal, admin, faults, handled, dropped>>

Messages  == 1..MaxMessages
Attempts  == 0..MaxAttempts
MaxWait   == MaxBackoffFactor * BaseBackoff
NoRow     == [status |-> "absent", attempt |-> 0, wait |-> 0]
Status    == {"absent", "pending", "processing", "dead"}
Row       == [status : Status, attempt : Attempts, wait : Nat]
NoRenewal == [id |-> 0, left |-> 0]
NoOp      == [op |-> "none", id |-> 0]
PC        == {"idle", "polled", "dispatch", "succeeded", "failed", "unreadable"}

Present(m) == row[m].status # "absent"

\* The messages of which w holds a fetched copy; w handles them in sequence order.
Held(w) == {m \in Messages : seen[w][m] # 0}

TypeOK ==
    /\ last \in 0..MaxMessages
    /\ row \in [Messages -> Row]
    /\ pc \in [Workers -> PC]
    /\ cur \in [Workers -> 0..MaxMessages]
    /\ seen \in [Workers -> [Messages -> Attempts]]
    /\ age \in [Workers -> 0..MaxWait]
    /\ renewal \in [Workers -> [id : 0..MaxMessages, left : 0..Lease]]
    /\ admin \in [Admins -> [op : {"none", "requeue", "discard"}, id : 0..MaxMessages]]
    /\ faults \in 0..MaxFaults
    /\ handled \subseteq Messages
    /\ dropped \subseteq Messages

Init ==
    /\ last = 0
    /\ row = [m \in Messages |-> NoRow]
    /\ pc = [w \in Workers |-> "idle"]
    /\ cur = [w \in Workers |-> 0]
    /\ seen = [w \in Workers |-> [m \in Messages |-> 0]]
    /\ age = [w \in Workers |-> 0]
    /\ renewal = [w \in Workers |-> NoRenewal]
    /\ admin = [a \in Admins |-> NoOp]
    /\ faults = MaxFaults
    /\ handled = {}
    /\ dropped = {}

-----------------------------------------------------------------------------
(* SQL statements, as the next value of the table *)

\* backoffDuration: the delay doubles with every attempt up to a cap.
BackoffFactor(attempt) == 2 ^ (IF attempt < 1 THEN 0 ELSE attempt - 1)
Backoff(attempt) ==
    BaseBackoff * (IF BackoffFactor(attempt) > MaxBackoffFactor
                   THEN MaxBackoffFactor
                   ELSE BackoffFactor(attempt))

\* UPDATE ... WHERE id = m changes nothing when there is no such row.
DeleteRow(m) == [row EXCEPT ![m] = NoRow]

SetRetry(m, wait) ==
    [row EXCEPT ![m] = IF Present(m) THEN [@ EXCEPT !.status = "pending", !.wait = wait]
                                     ELSE @]
\* Fault: dead-lettering loses the row.
SetDeadDeletes(m) == DeleteRow(m)

SetDead(m) ==
    [row EXCEPT ![m] = IF Present(m) THEN [@ EXCEPT !.status = "dead"] ELSE @]

SetLease(m, left) ==
    [row EXCEPT ![m] = IF @.status = "processing" THEN [@ EXCEPT !.wait = left] ELSE @]

\* Faults: expired leases are not reclaimed; a lease does not keep a row from being
\* fetched; dead rows are fetched with the others.
ReadyPendingOnly == {m \in Messages : row[m].status = "pending" /\ row[m].wait = 0}
ReadyWhateverTheLease == {m \in Messages : row[m].status \in {"pending", "processing"}}
ReadyEvenIfDead == {m \in Messages : Present(m) /\ row[m].wait = 0}

Ready == {m \in Messages : row[m].status \in {"pending", "processing"} /\ row[m].wait = 0}

\* ORDER BY sequence ASC LIMIT BatchSize
FetchSet == {m \in Ready : Cardinality({k \in Ready : k < m}) < BatchSize}

NextAttempt(n) == IF n < MaxAttempts THEN n + 1 ELSE MaxAttempts

\* Fault: a fetched row gets no lease.
FetchedRowUnleased(m) ==
    [status |-> "processing", attempt |-> NextAttempt(row[m].attempt), wait |-> 0]

FetchedRow(m) ==
    [status |-> "processing", attempt |-> NextAttempt(row[m].attempt), wait |-> Lease]

-----------------------------------------------------------------------------
(* Producers *)

\* A unit of work commits and with it one or more events its service dispatched.
\* A transaction that rolls back leaves no trace.
Append(n) ==
    /\ last < n
    /\ row' = [m \in Messages |->
                  IF m \in (last + 1)..n
                  THEN [status |-> "pending", attempt |-> 0, wait |-> 0]
                  ELSE row[m]]
    /\ last' = n
    /\ UNCHANGED <<relay, renewal, admin, faults, history>>

-----------------------------------------------------------------------------
(* Relay workers *)

\* pollOnce: FetchReady takes a batch in one transaction.  A poll that finds
\* nothing, or whose transaction fails, changes nothing and is left out.
FetchReady(w) ==
    /\ pc[w] = "idle"
    /\ FetchSet # {}
    /\ row' = [m \in Messages |-> IF m \in FetchSet THEN FetchedRow(m) ELSE row[m]]
    /\ seen' = [seen EXCEPT ![w] =
                  [m \in Messages |-> IF m \in FetchSet THEN FetchedRow(m).attempt ELSE 0]]
    /\ age' = [age EXCEPT ![w] = 0]
    /\ pc' = [pc EXCEPT ![w] = "polled"]
    /\ UNCHANGED <<last, cur, renewal, admin, faults, history>>

\* handleMessage takes the next message of the batch; Deserialize fails or dispatch
\* begins, with the heartbeat goroutine beside it.
HandleNext(w) ==
    /\ pc[w] = "polled"
    /\ \E m \in Held(w) :
          /\ \A k \in Held(w) : m <= k
          /\ cur' = [cur EXCEPT ![w] = m]
    /\ \E next \in {"dispatch", "unreadable"} : pc' = [pc EXCEPT ![w] = next]
    /\ UNCHANGED <<store, seen, age, renewal, admin, faults, history>>

\* Every handler subscribed to the event returned nil.
DispatchSucceeds(w) ==
    /\ pc[w] = "dispatch"
    /\ handled' = handled \cup {cur[w]}
    /\ pc' = [pc EXCEPT ![w] = "succeeded"]
    /\ UNCHANGED <<store, cur, seen, age, renewal, admin, faults, dropped>>

\* Fault: the error of a handler is swallowed.
DispatchFailsSilently(w) ==
    /\ pc[w] = "dispatch"
    /\ pc' = [pc EXCEPT ![w] = "succeeded"]
    /\ UNCHANGED <<store, cur, seen, age, renewal, admin, faults, history>>

\* A handler returned an error or panicked; the ones after it did not run.
DispatchFails(w) ==
    /\ pc[w] = "dispatch"
    /\ pc' = [pc EXCEPT ![w] = "failed"]
    /\ UNCHANGED <<store, cur, seen, age, renewal, admin, faults, history>>

\* handleMessage returns; the worker goes on with its batch or polls again.
Return(w) ==
    LET rest == Held(w) \ {cur[w]} IN
    /\ seen' = [seen EXCEPT ![w][cur[w]] = 0]
    /\ cur' = [cur EXCEPT ![w] = 0]
    /\ pc' = [pc EXCEPT ![w] = IF rest = {} THEN "idle" ELSE "polled"]
    /\ age' = [age EXCEPT ![w] = IF rest = {} THEN 0 ELSE @]

MarkSucceeded(w) ==
    /\ pc[w] = "succeeded"
    /\ row' = DeleteRow(cur[w])
    /\ Return(w)
    /\ UNCHANGED <<last, renewal, admin, faults, history>>

\* Fault: the difference is taken the wrong way round.
RetryWaitSwapped(w) == age[w] - Backoff(seen[w][cur[w]])

\* markFailure with attempts left: the backoff runs from the poll's `now`.
RetryWait(w) ==
    LET delay == Backoff(seen[w][cur[w]])
    IN  IF delay > age[w] THEN delay - age[w] ELSE 0

MarkRetry(w) ==
    /\ pc[w] \in {"failed", "unreadable"}
    /\ seen[w][cur[w]] < MaxAttempts
    /\ row' = SetRetry(cur[w], RetryWait(w))
    /\ Return(w)
    /\ UNCHANGED <<last, renewal, admin, faults, history>>

\* Fault: dead one attempt early.
MarkDeadEarly(w) ==
    /\ pc[w] \in {"failed", "unreadable"}
    /\ seen[w][cur[w]] + 1 >= MaxAttempts
    /\ row' = SetDead(cur[w])
    /\ Return(w)
    /\ UNCHANGED <<last, renewal, admin, faults, history>>

\* markFailure after the last attempt.
MarkDead(w) ==
    /\ pc[w] \in {"failed", "unreadable"}
    /\ seen[w][cur[w]] >= MaxAttempts
    /\ row' = SetDead(cur[w])
    /\ Return(w)
    /\ UNCHANGED <<last, renewal, admin, faults, history>>

\* The statement of MarkSucceeded, MarkRetry or MarkDead fails: logged, no more.
MarkFails(w) ==
    /\ pc[w] \in {"succeeded", "failed", "unreadable"}
    /\ faults > 0
    /\ faults' = faults - 1
    /\ Return(w)
    /\ UNCHANGED <<store, renewal, admin, history>>

-----------------------------------------------------------------------------
(* Heartbeat of the message being handled.  stopRenew is deferred, so it ticks
   until handleMessage returns, and a call begun by then may land later still. *)

Heartbeating(w) == pc[w] \in {"dispatch", "succeeded", "failed"}

RenewStart(w) ==
    /\ Heartbeating(w)
    /\ renewal[w] = NoRenewal
    /\ renewal' = [renewal EXCEPT ![w] = [id |-> cur[w], left |-> Lease]]
    /\ UNCHANGED <<store, relay, admin, faults, history>>

RenewProcessing(w) ==
    /\ renewal[w] # NoRenewal
    /\ renewal' = [renewal EXCEPT ![w] = NoRenewal]
    /\ \/ row' = SetLease(renewal[w].id, renewal[w].left)
       \/ UNCHANGED row        \* the statement failed
    /\ UNCHANGED <<last, relay, admin, faults, history>>

-----------------------------------------------------------------------------
(* Administrators: ensureDeadMessage and the statement are not one transaction *)

EnsureDead(a, op, m) ==
    /\ admin[a] = NoOp
    /\ row[m].status = "dead"
    /\ admin' = [admin EXCEPT ![a] = [op |-> op, id |-> m]]
    /\ UNCHANGED <<store, relay, renewal, faults, history>>

RequeueDead(a) ==
    /\ admin[a].op = "requeue"
    /\ row' = SetRetry(admin[a].id, 0)
    /\ admin' = [admin EXCEPT ![a] = NoOp]
    /\ UNCHANGED <<last, relay, renewal, faults, history>>

DiscardDead(a) ==
    /\ admin[a].op = "discard"
    /\ row' = DeleteRow(admin[a].id)
    /\ dropped' = IF Present(admin[a].id) THEN dropped \cup {admin[a].id} ELSE dropped
    /\ admin' = [admin EXCEPT ![a] = NoOp]
    /\ UNCHANGED <<last, relay, renewal, faults, handled>>

-----------------------------------------------------------------------------
(* Time and crashes *)

Down(n) == IF n > 0 THEN n - 1 ELSE 0

Tick ==
    /\ row' = [m \in Messages |-> [row[m] EXCEPT !.wait = Down(@)]]
    /\ age' = [w \in Workers |->
                  IF pc[w] = "idle" \/ age[w] = MaxWait THEN age[w] ELSE age[w] + 1]
    /\ renewal' = [w \in Workers |-> [renewal[w] EXCEPT !.left = Down(@)]]
    /\ UNCHANGED <<last, pc, cur, seen, admin, faults, history>>

\* The process dies and restarts: the table is all that survives.
Crash ==
    /\ faults > 0
    /\ faults' = faults - 1
    /\ pc' = [w \in Workers |-> "idle"]
    /\ cur' = [w \in Workers |-> 0]
    /\ seen' = [w \in Workers |-> [m \in Messages |-> 0]]
    /\ age' = [w \in Workers |-> 0]
    /\ renewal' = [w \in Workers |-> NoRenewal]
    /\ admin' = [a \in Admins |-> NoOp]
    /\ UNCHANGED <<store, history>>

-----------------------------------------------------------------------------
Handling(w) ==
    \/ HandleNext(w)
    \/ DispatchSucceeds(w) \/ DispatchFails(w)
    \/ MarkSucceeded(w) \/ MarkRetry(w) \/ MarkDead(w) \/ MarkFails(w)

Administration ==
    \E a \in Admins :
        \/ \E op \in {"requeue", "discard"}, m \in Messages : EnsureDead(a, op, m)
        \/ RequeueDead(a)
        \/ DiscardDead(a)

Step ==
    \/ \E n \in Messages : Append(n)
    \/ \E w \in Workers : FetchReady(w) \/ Handling(w) \/ RenewStart(w) \/ RenewProcessing(w)
    \/ Administration
    \/ Crash

Next == Step \/ Tick

Spec == Init /\ [][Next]_vars

\* Goroutines are scheduled, statements run, time goes on, and handlers return.  The last is
\* an assumption about the mail server: the SMTP client sets no deadline of its own, so a
\* server that neither answers nor drops the connection holds its worker for ever.
Fairness ==
    /\ \A w \in Workers : WF_vars(FetchReady(w)) /\ WF_vars(Handling(w))
    /\ WF_vars(Tick)

FairSpec == Spec /\ Fairness

-----------------------------------------------------------------------------
(* The same system on a machine that keeps up: a worker takes no time between
   the handlers, and the heartbeat, whose period is shorter than the lease,
   renews the message being handled before its lease runs out. *)

KeepsUp ==
    \A w \in Workers :
        /\ pc[w] \in {"idle", "dispatch"}
        /\ renewal[w] = NoRenewal
        /\ pc[w] = "dispatch" /\ row[cur[w]].status = "processing" => row[cur[w]].wait > 1

TimelySpec == Init /\ [][Step \/ (KeepsUp /\ Tick)]_vars

-----------------------------------------------------------------------------
(* Properties *)

\* A committed event leaves the table only after all its handlers have succeeded or
\* an administrator discarded it, whatever crashes, lease expiries, stale workers and
\* failed statements come between (relay.go handleMessage, outbox_repository.go).
NoEventLost ==
    \A m \in 1..last : Present(m) \/ m \in handled \/ m \in dropped

\* A dead row has used up its attempts, also when the worker that declared it dead
\* held an old copy of it (relay.go markFailure).
DeadIsExhausted ==
    \A m \in Messages : row[m].status = "dead" => row[m].attempt = MaxAttempts

\* The attempt count a worker acts on is never ahead of the row: with DeadIsExhausted,
\* what makes a verdict reached from an old copy a lawful one.
CopiesAreOld ==
    \A w \in Workers, m \in Messages :
        Present(m) => seen[w][m] <= row[m].attempt

\* A worker past HandleNext handles a message of its batch, and calls it a success only
\* after its handlers have run.
WorkersInStep ==
    \A w \in Workers :
        /\ pc[w] \in {"dispatch", "succeeded", "failed", "unreadable"} => cur[w] \in Held(w)
        /\ pc[w] = "succeeded" => cur[w] \in handled

\* Nobody knows of a message before its transaction has committed.
NothingAhead ==
    /\ \A m \in Messages :
          m > last => /\ row[m] = NoRow
                      /\ m \notin handled \cup dropped
                      /\ \A w \in Workers : seen[w][m] = 0
    /\ \A a \in Admins : admin[a] # NoOp => admin[a].id \in 1..last
    /\ \A w \in Workers : renewal[w] # NoRenewal => renewal[w].id \in 1..last

\* The inductive invariant behind NoEventLost, DeadIsExhausted and the refinement.
IInv ==
    /\ TypeOK
    /\ WorkersInStep
    /\ NothingAhead
    /\ CopiesAreOld
    /\ DeadIsExhausted
    /\ NoEventLost

\* No two workers hold the same message: the lease makes a worker the only owner of
\* what it fetched (relay_test.go DoesNotRedispatchWhileHandlerStillRunning).
SingleOwner ==
    \A v, w \in Workers : v # w => Held(v) \cap Held(w) = {}

\* While nothing has failed, the handlers of an event succeed only once.
ExactlyOnceWhenHealthy ==
    [][\A w \in Workers :
          pc[w] = "dispatch" /\ pc'[w] = "succeeded" /\ faults = MaxFaults
             => cur[w] \notin handled]_vars

\* A dead row is kept dead until an administrator's operation on it.
DeadLeftOnlyByAdmin ==
    [][\A m \in Messages :
          row[m].status = "dead" /\ row'[m].status # "dead"
             => \E a \in Admins : admin[a].id = m /\ admin'[a] = NoOp]_vars

\* What keeps owners apart on a machine that keeps up, when workers fetch one message at a
\* time and operations of administrators do not overlap: a message a worker holds is
\* processing and its lease has not run out, a renewal under way gives a whole lease, an
\* operation that has passed its check still finds its row dead, and a message whose handlers
\* succeeded is in the table no longer than until its worker has marked it.
OneAtATime == BatchSize = 1 /\ \A a, b \in Admins : a = b

HeldIsLeased ==
    \A w \in Workers :
        /\ pc[w] = "idle" => Held(w) = {}
        /\ \A m, k \in Held(w) : m = k
        /\ \A m \in Held(w) : row[m].status = "processing" /\ row[m].wait > 0

RenewalsGiveLeases == \A w \in Workers : renewal[w] # NoRenewal => renewal[w].left = Lease

OperationsFindDead == \A a \in Admins : admin[a] # NoOp => row[admin[a].id].status = "dead"

HandledIsMarked ==
    faults = MaxFaults =>
        \A m \in handled : Present(m) => \E w \in Workers : pc[w] = "succeeded" /\ cur[w] = m

OwnersInv ==
    /\ SingleOwner
    /\ HeldIsLeased
    /\ RenewalsGiveLeases
    /\ OperationsFindDead
    /\ HandledIsMarked

\* Every event in the table is in the end handled and removed, discarded, or left dead:
\* neither a crashed worker nor a failing neighbour keeps it waiting for ever, unless
\* administrators requeue that neighbour again and again.
EventuallySettled ==
    <>[](\A a \in Admins : admin[a] = NoOp) =>
        \A m \in Messages :
            row[m].status \in {"pending", "processing"} ~> row[m].status \in {"absent", "dead"}

\* The outbox keeps its promise to the producers.
Promise == INSTANCE AtLeastOnce WITH
    Events      <- Messages,
    committed   <- 1..last,
    outstanding <- {m \in Messages : Present(m)}

ImplementsAtLeastOnce == Promise!Spec

=============================================================================
