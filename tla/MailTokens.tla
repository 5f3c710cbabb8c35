----------------------------- MODULE MailTokens -----------------------------
(***************************************************************************)
(* The tokens mailed to one user: a row of password_reset_tokens or of     *)
(* email_verification_tokens, the mail delivery handler the outbox relay   *)
(* runs for the event of each token, and the job that sweeps old rows.     *)
(* The two kinds of token share all of this and differ in what confirms a  *)
(* token: EmailVerification and PasswordReset extend this module.          *)
(*                                                                         *)
(* The handler is no transaction: it selects the row, sends the mail,      *)
(* writes the row back from what it read, selects again and writes again.  *)
(* The relay runs it for an event at least once, perhaps twice at a time   *)
(* (module Outbox).                                                        *)
(*                                                                         *)
(* A token is named by its place in the order of issue.  Tokens of         *)
(* different users never meet: every statement names a hash or a user.     *)
(***************************************************************************)
EXTENDS Integers, FiniteSets

CONSTANTS
    Deliverers,   \* relay workers running the handler
    TTL,          \* life of a token
    Grace,        \* gracePeriodSeconds of the cleanup job
    MaxTokens,    \* bound: tokens ever issued
    MaxTime,      \* bound: the clock stops here
    MaxRepeats,   \* bound: deliveries beyond the one an event needs
    MaxFaults     \* bound: failed calls and crashes

ASSUME MailTokensAssumption ==
    /\ TTL \in Nat \ {0}
    /\ Grace \in Nat \ {0}
    /\ MaxTokens \in Nat
    /\ MaxTime \in Nat
    /\ MaxRepeats \in Nat
    /\ MaxFaults \in Nat

VARIABLES
    now,       \* the clock
    issued,    \* the latest token
    token,     \* token[t]: the row of token t, NoToken when there is none
    pending,   \* tokens whose mail event the outbox still owes a handled delivery
    job,       \* job[w]: the delivery worker w is in the middle of
    sweep,     \* hashes the cleanup job has selected and not yet deleted
    repeats,   \* repeated deliveries still allowed
    faults,    \* faults still allowed
    mailed     \* history: tokens whose mail was sent

mailVars == <<now, issued, token, pending, job, sweep, repeats, faults, mailed>>

Tokens   == 1..MaxTokens
NoToken  == [present |-> FALSE, consumed |-> FALSE, since |-> 0, delivered |-> FALSE, expires |-> 0]
TokenRow == [present : BOOLEAN, consumed : BOOLEAN, since : Nat,
             delivered : BOOLEAN, expires : Nat]
NoJob    == [pc |-> "idle", id |-> 0, copy |-> NoToken]
JobPC    == {"idle", "send", "record", "select", "write"}

MailTypeOK ==
    /\ now \in 0..MaxTime
    /\ issued \in 0..MaxTokens
    /\ token \in [Tokens -> TokenRow]
    /\ pending \subseteq Tokens
    /\ job \in [Deliverers -> [pc : JobPC, id : 0..MaxTokens, copy : TokenRow]]
    /\ sweep \subseteq Tokens
    /\ repeats \in 0..MaxRepeats
    /\ faults \in 0..MaxFaults
    /\ mailed \subseteq Tokens

MailInit ==
    /\ now = 0
    /\ issued = 0
    /\ token = [t \in Tokens |-> NoToken]
    /\ pending = {}
    /\ job = [w \in Deliverers |-> NoJob]
    /\ sweep = {}
    /\ repeats = MaxRepeats
    /\ faults = MaxFaults
    /\ mailed = {}

-----------------------------------------------------------------------------
Expired(r) == r.expires <= now
Usable(r)  == r.present /\ ~r.consumed /\ ~Expired(r)

Consume(r) == [r EXCEPT !.consumed = TRUE, !.since = now]
Reopen(r)  == [r EXCEPT !.consumed = FALSE, !.since = 0]

\* Update is the upsert of saveToken: it writes every column of the row it is given and
\* brings a deleted row back.
Update(t, r) == [token EXCEPT ![t] = r]

\* Fault: the new token can be used before its mail is sent.
NewTokenUsable == [present |-> TRUE, consumed |-> FALSE, since |-> 0,
                   delivered |-> FALSE, expires |-> now + TTL]

\* Fault: the sign of the life is slipped.
NewTokenStale == [present |-> TRUE, consumed |-> TRUE, since |-> now,
                  delivered |-> FALSE, expires |-> now - TTL]

NewToken == [present |-> TRUE, consumed |-> TRUE, since |-> now,
             delivered |-> FALSE, expires |-> now + TTL]

\* The part of a request's transaction that concerns the token: the user's earlier rows
\* are deleted, the new one is stored consumed, its mail event appended to the outbox.
Issue ==
    /\ issued < MaxTokens
    /\ issued' = issued + 1
    /\ token' = [t \in Tokens |-> IF t = issued + 1 THEN NewToken ELSE NoToken]
    /\ pending' = pending \cup {issued + 1}
    /\ UNCHANGED <<now, job, sweep, repeats, faults, mailed>>

-----------------------------------------------------------------------------
(* The mail delivery handler *)

Delivering(t) == \E w \in Deliverers : job[w] # NoJob /\ job[w].id = t

\* The relay calls the handler: for an event it still owes, or once more for one whose
\* delivery is under way or done.  The handler selects the row: the mail is sent for a
\* token not yet delivered, and also for one whose row is gone.
Deliver(w, t) ==
    /\ job[w] = NoJob
    /\ t <= issued
    /\ IF t \in pending /\ ~Delivering(t)
       THEN UNCHANGED repeats
       ELSE repeats > 0 /\ repeats' = repeats - 1
    /\ job' = [job EXCEPT ![w] =
                 [pc   |-> IF token[t].present /\ token[t].delivered THEN "select" ELSE "send",
                  id   |-> t,
                  copy |-> token[t]]]
    /\ UNCHANGED <<now, issued, token, pending, sweep, faults, mailed>>

\* The handler returned nil; the relay marks the event as succeeded.
Done(w) ==
    /\ job' = [job EXCEPT ![w] = NoJob]
    /\ pending' = pending \ {job[w].id}

\* Fault: the mail is recorded as sent whether it was or not.
SendUnchecked(w) ==
    /\ job[w].pc = "send"
    /\ mailed' \in {mailed, mailed \cup {job[w].id}}
    /\ \/ job[w].copy.present /\ job' = [job EXCEPT ![w].pc = "record"] /\ UNCHANGED pending
       \/ ~job[w].copy.present /\ Done(w)
    /\ UNCHANGED <<now, issued, token, sweep, repeats, faults>>

Send(w) ==
    /\ job[w].pc = "send"
    /\ mailed' = mailed \cup {job[w].id}
    /\ \/ job[w].copy.present /\ job' = [job EXCEPT ![w].pc = "record"] /\ UNCHANGED pending
       \/ ~job[w].copy.present /\ Done(w)
    /\ UNCHANGED <<now, issued, token, sweep, repeats, faults>>

\* DeliveredAt goes into the row as it was read before the mail was sent.
Record(w) ==
    /\ job[w].pc = "record"
    /\ token' = Update(job[w].id, [job[w].copy EXCEPT !.delivered = TRUE])
    /\ job' = [job EXCEPT ![w].pc = "select"]
    /\ UNCHANGED <<now, issued, pending, sweep, repeats, faults, mailed>>

\* activate...Token selects the row again and leaves it alone if it is gone, in use or
\* expired.
Select(w) ==
    LET r == token[job[w].id] IN
    /\ job[w].pc = "select"
    /\ IF r.present /\ r.consumed /\ ~Expired(r)
       THEN job' = [job EXCEPT ![w].pc = "write", ![w].copy = r] /\ UNCHANGED pending
       ELSE Done(w)
    /\ UNCHANGED <<now, issued, token, sweep, repeats, faults, mailed>>

\* Fault: the row is written back still consumed.
ActivateKeepsConsumed(w) ==
    /\ job[w].pc = "write"
    /\ token' = Update(job[w].id, job[w].copy)
    /\ Done(w)
    /\ UNCHANGED <<now, issued, sweep, repeats, faults, mailed>>

Activate(w) ==
    /\ job[w].pc = "write"
    /\ token' = Update(job[w].id, Reopen(job[w].copy))
    /\ Done(w)
    /\ UNCHANGED <<now, issued, sweep, repeats, faults, mailed>>

\* The mailer or the store fails, or the worker dies: the event stays with the outbox.
Abandon(w) ==
    /\ job[w] # NoJob
    /\ faults > 0
    /\ faults' = faults - 1
    /\ job' = [job EXCEPT ![w] = NoJob]
    /\ UNCHANGED <<now, issued, token, pending, sweep, repeats, mailed>>

-----------------------------------------------------------------------------
(* The cleanup job: SELECT of the hashes, then a DELETE for each, in no transaction *)

Sweepable(t) ==
    /\ token[t].present
    /\ \/ token[t].consumed /\ token[t].since <= now - Grace
       \/ token[t].expires <= now - Grace

\* The LIMIT counts other users' rows too, so it may cut the user's own anywhere.
SweepSelect ==
    /\ sweep = {}
    /\ \E S \in SUBSET {t \in Tokens : Sweepable(t)} : S # {} /\ sweep' = S
    /\ UNCHANGED <<now, issued, token, pending, job, repeats, faults, mailed>>

SweepDelete(t) ==
    /\ t \in sweep
    /\ token' = [token EXCEPT ![t] = NoToken]
    /\ sweep' = sweep \ {t}
    /\ UNCHANGED <<now, issued, pending, job, repeats, faults, mailed>>

Tick ==
    /\ now < MaxTime
    /\ now' = now + 1
    /\ UNCHANGED <<issued, token, pending, job, sweep, repeats, faults, mailed>>

Handling(w) == Send(w) \/ Record(w) \/ Select(w) \/ Activate(w)

MailStep ==
    \/ \E w \in Deliverers : (\E t \in Tokens : Deliver(w, t)) \/ Handling(w) \/ Abandon(w)
    \/ SweepSelect
    \/ \E t \in Tokens : SweepDelete(t)
    \/ Tick

-----------------------------------------------------------------------------
(* Properties shared by both kinds of token *)

\* A token can be used only after its mail has been sent, whatever copies of its row are
\* written back by whom, and in whatever order (mail_delivery_handler.go).
UsableWasMailed ==
    \A t \in Tokens : Usable(token[t]) => t \in mailed

\* What a delivery carries from one statement to the next.
JobsInStep ==
    \A w \in Deliverers :
        /\ job[w].pc # "idle" => job[w].id \in Tokens
        /\ job[w].pc \in {"record", "write"} => job[w].copy.present
        /\ job[w].pc \in {"record", "select", "write"} => job[w].id \in mailed

\* Rows and copies of rows that are not consumed or are delivered belong to mailed tokens.
OpenMeansMailed(t, r) == r.present /\ (r.delivered \/ ~r.consumed) => t \in mailed

MailInv ==
    /\ MailTypeOK
    /\ JobsInStep
    /\ \A t \in Tokens : OpenMeansMailed(t, token[t])
    /\ \A w \in Deliverers : job[w].pc # "idle" => OpenMeansMailed(job[w].id, job[w].copy)

\* Only the latest token a user asked for can be used.
OnlyLatestUsable ==
    \A t \in Tokens : Usable(token[t]) => t = issued

=============================================================================
