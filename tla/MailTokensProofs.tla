--------------------------- MODULE MailTokensProofs ---------------------------
(***************************************************************************)
(* The mailed tokens and the two flows built on them, for every number of  *)
(* tokens, relay workers, clients, resets, repeated deliveries and faults. *)
(* First the tokens: a step of the mail delivery handler, of the cleanup   *)
(* job or of the clock, and the issue of a token, preserve MailInv, and    *)
(* with it that a token is usable only once its mail is sent.  Then email  *)
(* verification.  Then password reset: the lock, the compensation and the  *)
(* token table stay in step, and a token that nothing opened twice is used *)
(* once.                                                                   *)
(***************************************************************************)
EXTENDS EmailVerification, PasswordReset, TLAPS

\* MailInv says more than UsableWasMailed.
LEMMA MailInvSuffices == MailInv => UsableWasMailed
  BY DEF MailInv, UsableWasMailed, OpenMeansMailed, Usable

\* A fresh row is a row.
LEMMA NewTokenType ==
    ASSUME now \in Nat
    PROVE  NewToken \in TokenRow /\ NewToken.consumed /\ ~NewToken.delivered
  BY MailTokensAssumption DEF NewToken, TokenRow

\* No token is issued yet.
LEMMA MailInitInv == MailInit => MailInv
<1> SUFFICES ASSUME MailInit PROVE MailInv
  OBVIOUS
<1>1. MailTypeOK
  BY MailTokensAssumption DEF MailInit, MailTypeOK, NoToken, TokenRow, NoJob, JobPC
<1>2. JobsInStep
  BY DEF MailInit, JobsInStep, NoJob
<1>3. QED
  BY <1>1, <1>2 DEF MailInit, MailInv, OpenMeansMailed, NoToken, NoJob

\* A new token is neither usable nor delivered, and nothing else is left of the user's rows.
LEMMA IssueInv ==
    ASSUME MailInv, Issue
    PROVE  MailInv'
<1>1. NewToken \in TokenRow /\ NewToken.consumed /\ ~NewToken.delivered
  BY NewTokenType, MailTokensAssumption DEF MailInv, MailTypeOK
<1>2. NoToken \in TokenRow /\ ~NoToken.present
  BY DEF NoToken, TokenRow
<1>3. MailTypeOK'
  BY <1>1, <1>2, MailTokensAssumption DEF MailInv, MailTypeOK, Issue, Tokens
<1>4. \A t \in Tokens : OpenMeansMailed(t, token[t])'
  BY <1>1, <1>2 DEF Issue, OpenMeansMailed
<1>5. JobsInStep' /\ \A w \in Deliverers : (job[w].pc # "idle" => OpenMeansMailed(job[w].id, job[w].copy))'
  BY DEF MailInv, JobsInStep, OpenMeansMailed, Issue
<1>6. QED
  BY <1>3, <1>4, <1>5 DEF MailInv

\* A delivery begins with a copy of the row.
LEMMA DeliverInv ==
    ASSUME MailInv, NEW w \in Deliverers, NEW t \in Tokens, Deliver(w, t)
    PROVE  MailInv'
<1>1. /\ token[t] \in TokenRow
      /\ OpenMeansMailed(t, token[t])
      /\ token[t].present /\ token[t].delivered => t \in mailed
  BY DEF MailInv, MailTypeOK, OpenMeansMailed
<1> DEFINE j == [pc   |-> IF token[t].present /\ token[t].delivered THEN "select" ELSE "send",
                 id   |-> t,
                 copy |-> token[t]]
<1>2. /\ j \in [pc : JobPC, id : 0..MaxTokens, copy : TokenRow]
      /\ j.id = t /\ j.copy = token[t] /\ j.pc \in {"select", "send"}
      /\ j.pc = "select" => t \in mailed
  BY <1>1, MailTokensAssumption DEF JobPC, Tokens
<1>3. job' = [job EXCEPT ![w] = j]
  BY DEF Deliver
<1>4. UNCHANGED <<now, issued, token, pending, sweep, faults, mailed>> /\ repeats' \in 0..MaxRepeats
  BY MailTokensAssumption DEF Deliver, MailInv, MailTypeOK
<1> HIDE DEF j
<1>5. MailTypeOK'
  BY <1>2, <1>3, <1>4 DEF MailInv, MailTypeOK
<1>6. JobsInStep'
  BY <1>2, <1>3, <1>4 DEF MailInv, MailTypeOK, JobsInStep
<1>7. \A v \in Deliverers : (job[v].pc # "idle" => OpenMeansMailed(job[v].id, job[v].copy))'
  BY <1>1, <1>2, <1>3, <1>4 DEF MailInv, MailTypeOK, OpenMeansMailed
<1>8. QED
  BY <1>4, <1>5, <1>6, <1>7 DEF MailInv, OpenMeansMailed

\* The step of a worker that writes nothing to the table: its job moves on, or ends.
LEMMA JobStepInv ==
    ASSUME MailInv, NEW w \in Deliverers, NEW j,
           j \in [pc : JobPC, id : 0..MaxTokens, copy : TokenRow],
           job' = [job EXCEPT ![w] = j],
           mailed \subseteq mailed', mailed' \subseteq Tokens,
           j.pc # "idle" => /\ j.id \in Tokens
                            /\ j.pc \in {"record", "write"} => j.copy.present
                            /\ j.pc \in {"record", "select", "write"} => j.id \in mailed'
                            /\ OpenMeansMailed(j.id, j.copy),
           token' \in [Tokens -> TokenRow],
           \A t \in Tokens : OpenMeansMailed(t, token'[t]),
           pending' \subseteq Tokens, faults' \in 0..MaxFaults,
           UNCHANGED <<now, issued, sweep, repeats>>
    PROVE  MailInv'
<1>1. MailTypeOK'
  BY DEF MailInv, MailTypeOK
<1>2. JobsInStep'
  BY DEF MailInv, MailTypeOK, JobsInStep
<1>3. \A v \in Deliverers : (job[v].pc # "idle" => OpenMeansMailed(job[v].id, job[v].copy))'
  BY DEF MailInv, MailTypeOK, OpenMeansMailed
<1>4. \A t \in Tokens : OpenMeansMailed(t, token[t])'
  BY DEF OpenMeansMailed
<1>5. QED
  BY <1>1, <1>2, <1>3, <1>4 DEF MailInv

\* A worker without a delivery.
LEMMA NoJobType ==
    NoJob \in [pc : JobPC, id : 0..MaxTokens, copy : TokenRow] /\ NoJob.pc = "idle"
  BY MailTokensAssumption DEF NoJob, NoToken, TokenRow, JobPC

\* The mail is sent: from here on the token counts as mailed.
LEMMA SendInv ==
    ASSUME MailInv, NEW w \in Deliverers, Send(w)
    PROVE  MailInv'
<1>1. /\ job[w].id \in Tokens /\ job[w].copy \in TokenRow
      /\ OpenMeansMailed(job[w].id, job[w].copy)
  BY DEF MailInv, MailTypeOK, JobsInStep, Send
<1>2. /\ mailed' = mailed \cup {job[w].id}
      /\ UNCHANGED <<now, issued, token, sweep, repeats, faults>>
  BY DEF Send
<1>3. CASE job[w].copy.present /\ job' = [job EXCEPT ![w].pc = "record"] /\ UNCHANGED pending
  <2> DEFINE j == [job[w] EXCEPT !.pc = "record"]
  <2>1. /\ j \in [pc : JobPC, id : 0..MaxTokens, copy : TokenRow]
        /\ j.pc = "record" /\ j.id = job[w].id /\ j.copy = job[w].copy
    BY DEF MailInv, MailTypeOK, JobPC
  <2>2. job' = [job EXCEPT ![w] = j]
    BY <1>3
  <2> HIDE DEF j
  <2>3. QED
    BY <1>1, <1>2, <1>3, <2>1, <2>2, JobStepInv, ZenonT(60)
      DEF MailInv, MailTypeOK, OpenMeansMailed
<1>4. CASE Done(w)
  BY <1>1, <1>2, <1>4, NoJobType, JobStepInv DEF MailInv, MailTypeOK, OpenMeansMailed, Done
<1>5. QED
  BY <1>3, <1>4 DEF Send

\* The copy read before the mail is written back as delivered.
LEMMA RecordInv ==
    ASSUME MailInv, NEW w \in Deliverers, Record(w)
    PROVE  MailInv'
<1> DEFINE j == [job[w] EXCEPT !.pc = "select"]
           r == [job[w].copy EXCEPT !.delivered = TRUE]
<1>1. /\ job[w].id \in Tokens /\ job[w].copy \in TokenRow /\ job[w].id \in mailed
      /\ OpenMeansMailed(job[w].id, job[w].copy)
  BY DEF MailInv, MailTypeOK, JobsInStep, Record
<1>2. /\ j \in [pc : JobPC, id : 0..MaxTokens, copy : TokenRow]
      /\ j.pc = "select" /\ j.id = job[w].id /\ j.copy = job[w].copy
  BY DEF MailInv, MailTypeOK, JobPC
<1>3. r \in TokenRow
  BY <1>1 DEF TokenRow
<1>4. /\ job' = [job EXCEPT ![w] = j]
      /\ token' = [token EXCEPT ![job[w].id] = r]
      /\ UNCHANGED <<now, issued, pending, sweep, repeats, faults, mailed>>
  BY DEF Record, Update
<1> HIDE DEF j, r
<1>5. /\ token' \in [Tokens -> TokenRow]
      /\ \A t \in Tokens : OpenMeansMailed(t, token'[t])
  BY <1>1, <1>3, <1>4 DEF MailInv, MailTypeOK, OpenMeansMailed
<1>6. QED
  BY <1>1, <1>2, <1>4, <1>5, JobStepInv DEF MailInv, MailTypeOK

\* The row is selected again.
LEMMA SelectInv ==
    ASSUME MailInv, NEW w \in Deliverers, Select(w)
    PROVE  MailInv'
<1> DEFINE r == token[job[w].id]
           j == [job[w] EXCEPT !.pc = "write", !.copy = r]
<1>1. /\ job[w].id \in Tokens /\ r \in TokenRow /\ job[w].id \in mailed
      /\ OpenMeansMailed(job[w].id, r)
  BY DEF MailInv, MailTypeOK, JobsInStep, Select
<1>2. UNCHANGED <<now, issued, token, sweep, repeats, faults, mailed>>
  BY DEF Select
<1>3. CASE r.present /\ job' = [job EXCEPT ![w].pc = "write", ![w].copy = r] /\ UNCHANGED pending
  <2>1. /\ j \in [pc : JobPC, id : 0..MaxTokens, copy : TokenRow]
        /\ j.pc = "write" /\ j.id = job[w].id /\ j.copy = r
    BY <1>1 DEF MailInv, MailTypeOK, JobPC
  <2>2. job' = [job EXCEPT ![w] = j]
    BY <1>3
  <2>3. j.copy.present /\ OpenMeansMailed(j.id, j.copy)
    BY <1>1, <1>3, <2>1
  <2>4. /\ mailed \subseteq mailed' /\ mailed' \subseteq Tokens
        /\ token' \in [Tokens -> TokenRow]
        /\ \A t \in Tokens : OpenMeansMailed(t, token'[t])
        /\ pending' \subseteq Tokens /\ faults' \in 0..MaxFaults
    BY <1>2, <1>3 DEF MailInv, MailTypeOK
  <2> HIDE DEF j, r
  <2>5. QED
    BY <1>1, <1>2, <2>1, <2>2, <2>3, <2>4, JobStepInv
<1>4. CASE Done(w)
  BY <1>2, <1>4, NoJobType, JobStepInv DEF MailInv, MailTypeOK, Done
<1>5. QED
  BY <1>3, <1>4 DEF Select

\* The second copy is written back, open.
LEMMA ActivateInv ==
    ASSUME MailInv, NEW w \in Deliverers, Activate(w)
    PROVE  MailInv'
<1> DEFINE r == Reopen(job[w].copy)
<1>1. /\ job[w].id \in Tokens /\ job[w].copy \in TokenRow /\ job[w].id \in mailed
  BY DEF MailInv, MailTypeOK, JobsInStep, Activate
<1>2. r \in TokenRow
  BY <1>1 DEF TokenRow, Reopen
<1>3. /\ token' = [token EXCEPT ![job[w].id] = r]
      /\ Done(w)
      /\ UNCHANGED <<now, issued, sweep, repeats, faults, mailed>>
  BY DEF Activate, Update
<1> HIDE DEF r
<1>4. /\ token' \in [Tokens -> TokenRow]
      /\ \A t \in Tokens : OpenMeansMailed(t, token'[t])
  BY <1>1, <1>2, <1>3 DEF MailInv, MailTypeOK, OpenMeansMailed
<1>5. QED
  BY <1>3, <1>4, NoJobType, JobStepInv DEF MailInv, MailTypeOK, Done

\* A delivery ends without success.
LEMMA AbandonInv ==
    ASSUME MailInv, NEW w \in Deliverers, Abandon(w)
    PROVE  MailInv'
<1>1. faults' \in 0..MaxFaults
  BY MailTokensAssumption DEF MailInv, MailTypeOK, Abandon
<1>2. /\ job' = [job EXCEPT ![w] = NoJob]
      /\ UNCHANGED <<now, issued, token, pending, sweep, repeats, mailed>>
  BY DEF Abandon
<1>3. QED
  BY <1>1, <1>2, NoJobType, JobStepInv DEF MailInv, MailTypeOK

\* The cleanup job selects hashes, or deletes a row.
LEMMA SweepInv ==
    ASSUME MailInv, SweepSelect \/ \E t \in Tokens : SweepDelete(t)
    PROVE  MailInv'
<1>1. NoToken \in TokenRow /\ ~NoToken.present
  BY DEF NoToken, TokenRow
<1>2. /\ sweep' \subseteq Tokens
      /\ token' \in [Tokens -> TokenRow]
      /\ \A t \in Tokens : token'[t] = token[t] \/ token'[t] = NoToken
      /\ UNCHANGED <<now, issued, pending, job, repeats, faults, mailed>>
  BY <1>1 DEF SweepSelect, SweepDelete, MailInv, MailTypeOK
<1>3. \A t \in Tokens : OpenMeansMailed(t, token[t])'
  BY <1>1, <1>2 DEF MailInv, OpenMeansMailed
<1>4. QED
  BY <1>2, <1>3 DEF MailInv, MailTypeOK, JobsInStep, OpenMeansMailed

\* Time goes on; rows may expire.
LEMMA TickInv ==
    ASSUME MailInv, Tick
    PROVE  MailInv'
  BY MailTokensAssumption DEF MailInv, MailTypeOK, JobsInStep, OpenMeansMailed, Tick

\* Every step of the handler, the cleanup job and the clock preserves the invariant.
LEMMA MailStepInv ==
    ASSUME MailInv, MailStep
    PROVE  MailInv'
  BY DeliverInv, SendInv, RecordInv, SelectInv, ActivateInv, AbandonInv, SweepInv, TickInv
  DEF MailStep, Handling

\* What leaves the shared variables alone preserves the invariant.
LEMMA MailStutterInv ==
    ASSUME MailInv, UNCHANGED mailVars
    PROVE  MailInv'
  BY DEF mailVars, MailInv, MailTypeOK, JobsInStep, OpenMeansMailed

\* A mail once sent stays sent.
LEMMA MailedGrows ==
    ASSUME MailStep \/ Issue
    PROVE  mailed \subseteq mailed'
  BY DEF MailStep, Issue, Deliver, Handling, Send, Record, Select, Activate, Abandon, SweepSelect,
         SweepDelete, Tick

-----------------------------------------------------------------------------
(* Email verification *)

\* Confirming a token needs a mail that was sent, and leaves no row behind.
LEMMA ConfirmEmailInv ==
    ASSUME MailInv, NEW t \in Tokens, ConfirmEmailVerification(t)
    PROVE  MailInv' /\ mailed' # {}
<1>1. NoToken \in TokenRow /\ ~NoToken.present
  BY DEF NoToken, TokenRow
<1>2. t \in mailed
  BY MailInvSuffices DEF UsableWasMailed, ConfirmEmailVerification
<1>3. UNCHANGED <<now, issued, pending, job, sweep, repeats, faults, mailed>>
  BY DEF ConfirmEmailVerification
<1>4. token' = [k \in Tokens |-> NoToken]
  BY DEF ConfirmEmailVerification
<1> HIDE DEF NoToken
<1>5. token' \in [Tokens -> TokenRow] /\ \A k \in Tokens : ~token'[k].present
  BY <1>1, <1>4
<1>6. MailTypeOK' /\ JobsInStep'
  BY <1>3, <1>5 DEF MailInv, MailTypeOK, JobsInStep
<1>7. \A w \in Deliverers : (job[w].pc # "idle" => OpenMeansMailed(job[w].id, job[w].copy))'
  BY <1>3 DEF MailInv, OpenMeansMailed
<1>8. \A k \in Tokens : OpenMeansMailed(k, token[k])'
  BY <1>5 DEF OpenMeansMailed
<1>9. QED
  BY <1>2, <1>3, <1>6, <1>7, <1>8 DEF MailInv

\* Every step of the handler, the job, time and the user keeps the invariant.
LEMMA EmailNextInv == EmailInv /\ [EmailNext]_emailVars => EmailInv'
<1> SUFFICES ASSUME EmailInv, [EmailNext]_emailVars PROVE EmailInv'
  OBVIOUS
<1> USE DEF EmailInv
<1>1. CASE SignUp
  BY <1>1, IssueInv DEF SignUp, VerifiedByMail, Account
<1>2. CASE RequestEmailVerification
  BY <1>2, IssueInv, MailedGrows DEF RequestEmailVerification, VerifiedByMail
<1>3. ASSUME NEW t \in Tokens, ConfirmEmailVerification(t) PROVE EmailInv'
  BY <1>3, ConfirmEmailInv DEF ConfirmEmailVerification, VerifiedByMail, Account
<1>4. CASE DeleteAccount
  BY <1>4, MailStutterInv DEF DeleteAccount, mailVars, VerifiedByMail, Account
<1>5. CASE MailStep /\ UNCHANGED account
  BY <1>5, MailStepInv, MailedGrows DEF VerifiedByMail
<1>6. CASE UNCHANGED emailVars
  <2>1. UNCHANGED mailVars /\ UNCHANGED account /\ UNCHANGED mailed
    BY <1>6 DEF emailVars, mailVars
  <2>2. QED
    BY <2>1, MailStutterInv DEF VerifiedByMail
<1>7. QED
  BY <1>1, <1>2, <1>3, <1>4, <1>5, <1>6 DEF EmailNext

\* The invariant of tokens, deliveries and user holds in every reachable state of email
\* verification.
THEOREM EmailInvariance == EmailSpec => []EmailInv
<1>1. EmailInit => EmailInv
  BY MailInitInv DEF EmailInv, EmailInit, VerifiedByMail, Account
<1>2. QED
  BY <1>1, EmailNextInv, PTL DEF EmailSpec

\* Rows, copies, jobs and the user of email verification stay within their types.
THEOREM EmailTypeCorrect == EmailSpec => []EmailTypeOK
<1>1. EmailInv => EmailTypeOK
  BY DEF EmailInv, EmailTypeOK, MailInv
<1>2. QED
  BY <1>1, EmailInvariance, PTL

\* However deliveries overlap, repeat and fail, and whatever stale rows they write back,
\* no verification token can be used before its mail was sent (mail_delivery_handler.go
\* sendEmailVerification).
THEOREM EmailMailedFirst == EmailSpec => []UsableWasMailed
<1>1. EmailInv => UsableWasMailed
  BY MailInvSuffices DEF EmailInv
<1>2. QED
  BY <1>1, EmailInvariance, PTL

\* Nobody is verified before a mail was sent to them (account/service.go
\* ConfirmEmailVerification).
THEOREM VerifiedOnlyByMail == EmailSpec => []VerifiedByMail
<1>1. EmailInv => VerifiedByMail
  BY DEF EmailInv
<1>2. QED
  BY <1>1, EmailInvariance, PTL

-----------------------------------------------------------------------------
(* Password reset *)

RequestType == [pc : ClientPC, id : 0..MaxTokens, user : UserRow, copy : TokenRow]

\* A client without a request.
LEMMA NoRequestType == NoRequest \in RequestType /\ NoRequest.pc = "idle"
  BY MailTokensAssumption, PasswordResetAssumption
  DEF NoRequest, RequestType, ClientPC, UserRow, Passwords, Status, NoToken, TokenRow

\* Consuming a token, or writing one back, keeps its row a row.
LEMMA ConsumeType ==
    ASSUME NEW r \in TokenRow, now \in Nat
    PROVE  Consume(r) \in TokenRow /\ Consume(r).consumed /\ Consume(r).delivered = r.delivered
           /\ Consume(r).present = r.present
  BY DEF Consume, TokenRow

\* Writing a row of a mailed token preserves the invariant of the tokens.
LEMMA UpdateInv ==
    ASSUME MailInv, NEW t \in Tokens, NEW r \in TokenRow, OpenMeansMailed(t, r),
           token' = Update(t, r),
           UNCHANGED <<now, issued, pending, job, sweep, repeats, faults, mailed>>
    PROVE  MailInv'
  BY DEF MailInv, MailTypeOK, JobsInStep, OpenMeansMailed, Update

\* A fault used up by a step that leaves everything else of the tokens alone.
LEMMA FaultInv ==
    ASSUME MailInv, faults > 0, faults' = faults - 1,
           UNCHANGED <<now, issued, token, pending, job, sweep, repeats, mailed>>
    PROVE  MailInv'
<1>1. faults' \in 0..MaxFaults
  BY MailTokensAssumption DEF MailInv, MailTypeOK
<1>2. QED
  BY <1>1 DEF MailInv, MailTypeOK, JobsInStep, OpenMeansMailed

\* The part of the invariant that concerns users, sessions and clients.
AccountInv ==
    /\ user \in UserRow
    /\ resets \in 0..MaxResets
    /\ sessions \subseteq Passwords
    /\ client \in [Clients -> RequestType]
    /\ lock \in Clients \cup {NoClient}
    /\ used \in [Tokens -> Nat]
    /\ excused \subseteq Passwords
    /\ LockInStep

\* Everything but the sessions' passwords.
RowsInv == MailInv /\ AccountInv

\* The invariant is that of rows and lock and that of the sessions.
LEMMA IInvParts == IInv <=> RowsInv /\ SessionsOfThisPassword /\ SessionsDuringReset
  BY DEF IInv, RowsInv, AccountInv, TypeOK, MailInv, RequestType

\* The same, after a step.
LEMMA PrimedParts ==
    ASSUME MailInv', AccountInv'
    PROVE  RowsInv'
  BY DEF RowsInv

\* A step of the tokens alone.
LEMMA AccountStutterInv ==
    ASSUME AccountInv, UNCHANGED accountVars, mailed \subseteq mailed'
    PROVE  AccountInv'
  BY DEF AccountInv, LockInStep, accountVars

\* A client without the lock takes up a request, goes on with it or ends it.
LEMMA ClientStepInv ==
    ASSUME AccountInv, NEW c \in Clients, NEW r \in RequestType,
           client' = [client EXCEPT ![c] = r],
           client[c].pc \notin {"invalidate", "restore"},
           r.pc \notin {"invalidate", "restore"},
           r.pc = "confirm" => r.id \in Tokens,
           user' \in UserRow, sessions' \subseteq Passwords, excused' \subseteq Passwords,
           UNCHANGED <<resets, lock, used, mailed>>
    PROVE  AccountInv'
<1>1. client' \in [Clients -> RequestType] /\ client'[c] = r
  BY DEF AccountInv
<1>2. \A d \in Clients \ {c} : client'[d] = client[d]
  BY DEF AccountInv
<1>3. LockInStep'
  BY <1>1, <1>2 DEF AccountInv, LockInStep
<1>4. QED
  BY <1>1, <1>3 DEF AccountInv

\* The client that holds the lock gives it up as its request ends.
LEMMA UnlockInv ==
    ASSUME AccountInv, NEW c \in Clients,
           client[c].pc \in {"invalidate", "restore"},
           Idle(c), lock' = NoClient,
           user' \in UserRow, sessions' \subseteq Passwords, excused' \subseteq Passwords,
           used' \in [Tokens -> Nat],
           UNCHANGED <<resets, mailed>>
    PROVE  AccountInv'
<1>1. lock = c /\ NoClient \notin Clients
  BY PasswordResetAssumption DEF AccountInv, LockInStep
<1>2. client' \in [Clients -> RequestType] /\ client'[c].pc = "idle"
  BY NoRequestType DEF AccountInv, Idle
<1>3. \A d \in Clients \ {c} : client'[d] = client[d] /\ client[d].pc \notin {"invalidate", "restore"}
  BY <1>1 DEF AccountInv, Idle, LockInStep
<1>4. LockInStep'
  BY <1>1, <1>2, <1>3 DEF AccountInv, LockInStep
<1>5. QED
  BY <1>2, <1>4 DEF AccountInv

\* A login reads the password, and saves its session perhaps after a reset.
LEMMA LoginInv ==
    ASSUME RowsInv, NEW c \in Clients, VerifyCredentials(c) \/ SaveSession(c)
    PROVE  RowsInv'
<1>1. MailInv /\ AccountInv
  BY DEF RowsInv
<1>2. UNCHANGED <<mailVars, user, resets, lock, used>>
  BY DEF VerifyCredentials, SaveSession
<1>3. UNCHANGED mailed /\ user' \in UserRow /\ client[c].user.password \in Passwords
  BY <1>1, <1>2 DEF mailVars, AccountInv, RequestType, UserRow
<1>4. CASE VerifyCredentials(c)
  <2> DEFINE r == [NoRequest EXCEPT !.pc = "save", !.user = user]
  <2>1. r \in RequestType /\ r.pc = "save"
    BY <1>1, NoRequestType DEF RequestType, AccountInv, ClientPC
  <2>2. client' = [client EXCEPT ![c] = r] /\ client[c].pc = "idle"
        /\ UNCHANGED <<sessions, excused>>
    BY <1>4, NoRequestType DEF VerifyCredentials
  <2> HIDE DEF r
  <2>3. AccountInv'
    BY <1>1, <1>2, <1>3, <2>1, <2>2, ClientStepInv DEF AccountInv
  <2>4. QED
    BY <1>1, <1>2, <2>3, MailStutterInv, PrimedParts
<1>5. CASE SaveSession(c)
  <2>2. sessions' \subseteq Passwords /\ excused' \subseteq Passwords /\ client' = [client EXCEPT ![c] = NoRequest]
        /\ client[c].pc = "save"
    BY <1>1, <1>3, <1>5 DEF SaveSession, Idle, AccountInv
  <2>3. AccountInv'
    BY <1>1, <1>2, <1>3, <2>2, NoRequestType, ClientStepInv
  <2>4. QED
    BY <1>1, <1>2, <2>3, MailStutterInv, PrimedParts
<1>6. QED
  BY <1>4, <1>5

\* The end of a session, a new token and a change of the suspension leave every request alone.
LEMMA OutsideInv ==
    ASSUME RowsInv, RequestPasswordReset \/ SetSuspension \/ \E p \in sessions : EndSession(p)
    PROVE  RowsInv'
<1>1. MailInv /\ AccountInv
  BY DEF RowsInv
<1>2. CASE RequestPasswordReset
  <2>1. MailInv'
    BY <1>1, <1>2, IssueInv DEF RequestPasswordReset
  <2>2. AccountInv'
    BY <1>1, <1>2, MailedGrows, AccountStutterInv DEF RequestPasswordReset
  <2>3. QED
    BY <2>1, <2>2, PrimedParts
<1>3. CASE SetSuspension \/ \E p \in sessions : EndSession(p)
  <2>1. UNCHANGED <<mailVars, resets, client, lock, used, excused>>
    BY <1>3 DEF SetSuspension, EndSession
  <2>2. user' \in UserRow
    BY <1>1, <1>3 DEF SetSuspension, EndSession, AccountInv, UserRow, Status
  <2>3. sessions' \subseteq Passwords
    BY <1>1, <1>3 DEF SetSuspension, EndSession, AccountInv
  <2>4. AccountInv'
    BY <1>1, <2>1, <2>2, <2>3 DEF AccountInv, LockInStep, mailVars
  <2>5. QED
    BY <1>1, <2>1, <2>4, MailStutterInv, PrimedParts
<1>4. QED
  BY <1>2, <1>3

\* A reset that begins, or that is turned away.
LEMMA ConfirmStartInv ==
    ASSUME RowsInv, NEW c \in Clients,
           ConfirmRejected(c) \/ \E t \in Tokens : ConfirmBegin(c, t)
    PROVE  RowsInv'
<1>1. MailInv /\ AccountInv
  BY DEF RowsInv
<1>2. UNCHANGED <<mailVars, user, resets, sessions, lock, used, excused>>
  BY DEF ConfirmRejected, ConfirmBegin
<1>3. /\ UNCHANGED mailed /\ user' \in UserRow /\ sessions' \subseteq Passwords
      /\ excused' \subseteq Passwords
  BY <1>1, <1>2 DEF mailVars, AccountInv
<1>4. CASE ConfirmRejected(c)
  BY <1>1, <1>2, <1>3, <1>4, NoRequestType, ClientStepInv, MailStutterInv, PrimedParts
  DEF ConfirmRejected, Idle
<1>5. ASSUME NEW t \in Tokens, ConfirmBegin(c, t) PROVE RowsInv'
  <2> DEFINE r == [NoRequest EXCEPT !.pc = "confirm", !.id = t]
  <2>1. r \in RequestType /\ r.pc = "confirm" /\ r.id = t
    <3>1. t \in 0..MaxTokens /\ "confirm" \in ClientPC
      BY MailTokensAssumption DEF ClientPC, Tokens
    <3>2. QED
      BY <3>1, NoRequestType DEF RequestType
  <2>2. client' = [client EXCEPT ![c] = r] /\ client[c].pc = "idle"
    BY <1>5, NoRequestType DEF ConfirmBegin
  <2> HIDE DEF r
  <2>3. AccountInv'
    BY <1>1, <1>2, <1>3, <2>1, <2>2, ClientStepInv
  <2>4. QED
    BY <1>1, <1>2, <2>3, MailStutterInv, PrimedParts
<1>6. QED
  BY <1>4, <1>5

\* The transaction of a reset: only a mailed token gets this far, and the copies kept for
\* a rollback are of rows that were there.
LEMMA ConfirmCommitInv ==
    ASSUME RowsInv, NEW c \in Clients, ConfirmCommit(c)
    PROVE  RowsInv'
<1> DEFINE t == client[c].id
           r == [client[c] EXCEPT !.pc = "invalidate", !.user = user, !.copy = token[t]]
<1>1. MailInv /\ AccountInv
  BY DEF RowsInv
<1>2. /\ t \in Tokens /\ token[t] \in TokenRow /\ Usable(token[t])
      /\ lock = NoClient /\ NoClient \notin Clients /\ c # NoClient /\ now \in Nat
  BY <1>1, PasswordResetAssumption, MailTokensAssumption
  DEF AccountInv, LockInStep, ConfirmCommit, Confirmable, Locked, MailInv, MailTypeOK
<1>3. token[t].present /\ t \in mailed
  BY <1>1, <1>2 DEF Usable, MailInv, OpenMeansMailed
<1>4. /\ token' = Update(t, Consume(token[t]))
      /\ UNCHANGED <<now, issued, pending, job, sweep, repeats, faults, mailed>>
  BY DEF ConfirmCommit
<1>5. MailInv'
  BY <1>1, <1>2, <1>3, <1>4, ConsumeType, UpdateInv DEF OpenMeansMailed
<1>6. /\ r \in RequestType
      /\ r.pc = "invalidate" /\ r.id = t /\ r.copy = token[t]
  BY <1>1, <1>2 DEF AccountInv, RequestType, ClientPC
<1>7. client' = [client EXCEPT ![c] = r]
  <2>1. r = [client[c] EXCEPT !.pc = "invalidate", !.user = user, !.copy = token[t]]
    OBVIOUS
  <2>2. QED
    BY <2>1 DEF ConfirmCommit
<1>8. /\ resets' \in 0..MaxResets
      /\ user' \in UserRow
      /\ sessions' = sessions /\ excused' = excused /\ lock' = c
  BY <1>1, PasswordResetAssumption DEF ConfirmCommit, AccountInv, UserRow, Passwords
<1>9. /\ used' \in [Tokens -> Nat]
      /\ used'[t] > 0
  BY <1>1, <1>2 DEF ConfirmCommit, AccountInv
<1> HIDE DEF r
<1>10. /\ client' \in [Clients -> RequestType] /\ client'[c] = r
       /\ \A d \in Clients \ {c} : client'[d] = client[d]
       /\ \A d \in Clients : client[d].pc \notin {"invalidate", "restore"}
  BY <1>1, <1>2, <1>6, <1>7 DEF AccountInv, LockInStep
<1>11. LockInStep'
  <2>1. ASSUME NEW d \in Clients \ {c}
        PROVE  /\ ~(client'[d].pc \in {"invalidate", "restore"}) /\ lock' # d
               /\ client'[d].pc = "confirm" => client'[d].id \in Tokens
    BY <1>1, <1>8, <1>10 DEF AccountInv, LockInStep
  <2>2. QED
    BY <2>1, <1>2, <1>3, <1>4, <1>6, <1>8, <1>9, <1>10 DEF LockInStep
<1>12. AccountInv'
  BY <1>1, <1>8, <1>9, <1>10, <1>11 DEF AccountInv
<1>13. QED
  BY <1>5, <1>12, PrimedParts

\* A reset ends: with the sessions gone, with both rows written back, or with neither.
LEMMA ConfirmEndInv ==
    ASSUME RowsInv, NEW c \in Clients, Invalidate(c) \/ Restore(c) \/ RestoreFails(c)
    PROVE  RowsInv'
<1> DEFINE t == client[c].id
<1>1. MailInv /\ AccountInv
  BY DEF RowsInv
<1>2. client[c].pc \in {"invalidate", "restore"} /\ Idle(c) /\ lock' = NoClient
  BY DEF Invalidate, Restore, RestoreFails
<1>3. /\ t \in Tokens /\ used[t] \in Nat \ {0} /\ t \in mailed
      /\ client[c].copy \in TokenRow /\ client[c].user \in UserRow
  BY <1>1, <1>2 DEF AccountInv, LockInStep, RequestType
<1> HIDE DEF t
<1>4. CASE Invalidate(c)
  <2>1. UNCHANGED <<mailVars, user, resets, used, excused>> /\ sessions' = {}
    BY <1>4 DEF Invalidate
  <2>2. AccountInv'
    BY <1>1, <1>2, <2>1, UnlockInv DEF AccountInv, mailVars
  <2>3. QED
    BY <1>1, <2>1, <2>2, MailStutterInv, PrimedParts
<1>5. CASE Restore(c)
  <2>1. /\ token' = Update(t, client[c].copy)
        /\ UNCHANGED <<now, issued, pending, job, sweep, repeats, faults, mailed>>
    BY <1>5 DEF Restore, t
  <2>2. MailInv'
    BY <1>1, <1>3, <2>1, UpdateInv DEF OpenMeansMailed
  <2>3. user' \in UserRow /\ sessions' \subseteq Passwords /\ UNCHANGED <<resets, mailed, excused>>
    BY <1>1, <1>3, <1>5 DEF Restore, AccountInv
  <2>4. used' \in [Tokens -> Nat]
    <3>1. used' = [used EXCEPT ![t] = @ - 1] /\ used[t] - 1 \in Nat
      BY <1>3, <1>5 DEF Restore, t
    <3>2. QED
      BY <1>1, <3>1 DEF AccountInv
  <2>5. AccountInv'
    BY <1>1, <1>2, <2>3, <2>4, UnlockInv DEF AccountInv
  <2>6. QED
    BY <2>2, <2>5, PrimedParts
<1>6. CASE RestoreFails(c)
  <2>1. /\ faults > 0 /\ faults' = faults - 1
        /\ UNCHANGED <<now, issued, token, pending, job, sweep, repeats, mailed>>
        /\ UNCHANGED <<user, resets, sessions, used>>
        /\ excused' = excused \cup sessions
    BY <1>6 DEF RestoreFails
  <2>2. AccountInv'
    BY <1>1, <1>2, <2>1, UnlockInv DEF AccountInv
  <2>3. QED
    BY <1>1, <2>1, <2>2, FaultInv, PrimedParts
<1>7. QED
  BY <1>4, <1>5, <1>6

\* A failed invalidation keeps the lock, and the request turns to writing back.
LEMMA InvalidateFailsInv ==
    ASSUME RowsInv, NEW c \in Clients, InvalidateFails(c)
    PROVE  RowsInv'
<1> DEFINE r == [client[c] EXCEPT !.pc = "restore"]
<1>1. MailInv /\ AccountInv
  BY DEF RowsInv
<1>2. /\ faults > 0 /\ faults' = faults - 1
      /\ UNCHANGED <<now, issued, token, pending, job, sweep, repeats, mailed>>
      /\ UNCHANGED <<user, resets, sessions, lock, used, excused>>
      /\ client[c].pc = "invalidate"
      /\ client' = [client EXCEPT ![c] = r]
  BY DEF InvalidateFails
<1>3. /\ r \in RequestType /\ r.pc = "restore"
      /\ r.id = client[c].id /\ r.copy = client[c].copy
  BY <1>1 DEF AccountInv, RequestType, ClientPC
<1> HIDE DEF r
<1>4. /\ client' \in [Clients -> RequestType] /\ client'[c] = r
      /\ \A d \in Clients \ {c} : client'[d] = client[d]
  BY <1>1, <1>2, <1>3 DEF AccountInv
<1>5. LockInStep'
  BY <1>1, <1>2, <1>3, <1>4 DEF AccountInv, LockInStep
<1>6. AccountInv'
  BY <1>1, <1>2, <1>4, <1>5 DEF AccountInv
<1>7. QED
  BY <1>1, <1>2, <1>6, FaultInv, PrimedParts

\* The deletion of the account, and the logout after it.
LEMMA DeletionInv ==
    ASSUME RowsInv, NEW c \in Clients, DeleteMe(c) \/ InvalidateUserSessions(c)
    PROVE  RowsInv'
<1>1. MailInv /\ AccountInv
  BY DEF RowsInv
<1>2. UNCHANGED <<mailVars, resets, lock, used, excused>> /\ UNCHANGED mailed
  BY DEF DeleteMe, InvalidateUserSessions, mailVars
<1>3. user' \in UserRow /\ sessions' \subseteq Passwords /\ excused' \subseteq Passwords
  BY <1>1, <1>2 DEF DeleteMe, InvalidateUserSessions, AccountInv, UserRow, Status
<1>4. MailInv'
  BY <1>1, <1>2, MailStutterInv
<1>5. CASE DeleteMe(c)
  <2> DEFINE r == [NoRequest EXCEPT !.pc = "logout"]
  <2>1. r \in RequestType /\ r.pc = "logout"
    BY NoRequestType DEF RequestType, ClientPC
  <2>2. client' = [client EXCEPT ![c] = r] /\ client[c].pc = "idle"
    BY <1>5, NoRequestType DEF DeleteMe
  <2> HIDE DEF r
  <2>3. AccountInv'
    BY <1>1, <1>2, <1>3, <2>1, <2>2, ClientStepInv
  <2>4. QED
    BY <1>4, <2>3, PrimedParts
<1>6. CASE InvalidateUserSessions(c)
  <2>1. client' = [client EXCEPT ![c] = NoRequest] /\ client[c].pc = "logout"
    BY <1>6 DEF InvalidateUserSessions, Idle
  <2>2. AccountInv'
    BY <1>1, <1>2, <1>3, <2>1, NoRequestType, ClientStepInv
  <2>3. QED
    BY <1>4, <2>2, PrimedParts
<1>7. QED
  BY <1>5, <1>6

\* A crash frees the lock together with the client that held it.
LEMMA CrashInv ==
    ASSUME RowsInv, Crash
    PROVE  RowsInv'
<1>1. MailInv /\ AccountInv
  BY DEF RowsInv
<1>2. faults' \in 0..MaxFaults
  BY <1>1, MailTokensAssumption DEF MailInv, MailTypeOK, Crash
<1>3. /\ job' = [w \in Deliverers |-> NoJob] /\ sweep' = {} /\ sessions' = {}
      /\ client' = [c \in Clients |-> NoRequest] /\ lock' = NoClient
      /\ UNCHANGED <<now, issued, token, pending, repeats, mailed, user, resets, used, excused>>
  BY DEF Crash
<1>4. MailInv'
  BY <1>1, <1>2, <1>3, NoJobType DEF MailInv, MailTypeOK, JobsInStep, OpenMeansMailed
<1>5. LockInStep'
  BY <1>3, NoRequestType, PasswordResetAssumption DEF LockInStep
<1>6. AccountInv'
  BY <1>1, <1>3, <1>5, NoRequestType DEF AccountInv
<1>7. QED
  BY <1>4, <1>6, PrimedParts

\* The steps of the mail delivery handler, the cleanup job and the clock.
LEMMA TokensStepInv ==
    ASSUME RowsInv, (MailStep /\ UNCHANGED accountVars) \/ UNCHANGED vars
    PROVE  RowsInv'
<1>1. MailInv /\ AccountInv
  BY DEF RowsInv
<1>2. CASE MailStep /\ UNCHANGED accountVars
  BY <1>1, <1>2, MailStepInv, MailedGrows, AccountStutterInv, PrimedParts
<1>3. CASE UNCHANGED vars
  <2>1. UNCHANGED mailVars /\ UNCHANGED accountVars /\ UNCHANGED mailed
    BY <1>3 DEF vars, mailVars
  <2>2. QED
    BY <1>1, <2>1, MailStutterInv, AccountStutterInv, PrimedParts
<1>4. QED
  BY <1>2, <1>3

\* Every step keeps rows, copies and lock in step.
LEMMA RowsNext == RowsInv /\ [Next]_vars => RowsInv'
  BY OutsideInv, LoginInv, ConfirmStartInv, ConfirmCommitInv, ConfirmEndInv, InvalidateFailsInv,
     DeletionInv, CrashInv, TokensStepInv
  DEF Next, ConfirmPasswordReset

SessionsInv == SessionsOfThisPassword /\ SessionsDuringReset

\* What adds no session and changes neither password nor lock leaves nothing stale.
LEMMA SessionsStutterInv ==
    ASSUME SessionsInv, sessions' \subseteq sessions, excused \subseteq excused',
           user'.password = user.password, lock' = lock,
           \A c \in Clients : lock = c => client'[c].user = client[c].user
    PROVE  SessionsInv'
  BY DEF SessionsInv, SessionsOfThisPassword, SessionsDuringReset, Locked

\* Where the lock is given up, the sessions left are those of the password, or excused.
LEMMA SessionsUnlockInv ==
    ASSUME lock' = NoClient,
           \A p \in sessions' : p = user'.password \/ p \in excused'
    PROVE  SessionsInv'
  BY PasswordResetAssumption DEF SessionsInv, SessionsOfThisPassword, SessionsDuringReset, Locked

\* A session of an earlier password is only ever left by a login that was late or by a
\* reset that failed twice over.
LEMMA SessionsNext == RowsInv /\ SessionsInv /\ [Next]_vars => SessionsInv'
<1> SUFFICES ASSUME RowsInv, SessionsInv, [Next]_vars PROVE SessionsInv'
  OBVIOUS
<1>1. AccountInv
  BY DEF RowsInv
<1>2. ASSUME NEW c \in Clients
      PROVE  lock = c <=> client[c].pc \in {"invalidate", "restore"}
  BY <1>1 DEF AccountInv, LockInStep
<1>3. ASSUME UNCHANGED <<sessions, user, lock, excused>>, NEW c \in Clients, lock # c,
             \A d \in Clients \ {c} : client'[d] = client[d]
      PROVE  SessionsInv'
  BY <1>3, SessionsStutterInv
<1>4. ASSUME UNCHANGED accountVars
      PROVE  SessionsInv'
  BY <1>4, SessionsStutterInv DEF accountVars
<1>5. CASE RequestPasswordReset \/ (MailStep /\ UNCHANGED accountVars) \/ UNCHANGED vars
  BY <1>4, <1>5 DEF RequestPasswordReset, vars
<1>6. ASSUME NEW c \in Clients, VerifyCredentials(c) \/ ConfirmRejected(c)
             \/ \E t \in Tokens : ConfirmBegin(c, t)
      PROVE  SessionsInv'
  <2>1. UNCHANGED <<sessions, user, lock, excused>> /\ client[c].pc \in {"idle", "confirm"}
    BY <1>6, NoRequestType DEF VerifyCredentials, ConfirmRejected, ConfirmBegin
  <2>2. \A d \in Clients \ {c} : client'[d] = client[d]
    BY <1>1, <1>6 DEF AccountInv, VerifyCredentials, ConfirmRejected, ConfirmBegin, Idle
  <2>3. QED
    BY <1>2, <1>3, <2>1, <2>2
<1>7. ASSUME NEW c \in Clients, SaveSession(c) PROVE SessionsInv'
  BY <1>7, PasswordResetAssumption, SessionsUnlockInv
  DEF SaveSession, Locked, SessionsInv, SessionsOfThisPassword
<1>8. ASSUME NEW c \in Clients, ConfirmCommit(c) PROVE SessionsInv'
  <2>1. /\ client'[c].user = user /\ lock' = c /\ c # NoClient
        /\ UNCHANGED <<sessions, excused>> /\ ~Locked
    BY <1>1, <1>8, PasswordResetAssumption DEF ConfirmCommit, AccountInv
  <2>2. \A p \in sessions : p = client'[c].user.password \/ p \in excused
    BY <2>1 DEF SessionsInv, SessionsOfThisPassword
  <2>3. QED
    BY <2>1, <2>2 DEF SessionsInv, SessionsOfThisPassword, SessionsDuringReset, Locked
<1>9. ASSUME NEW c \in Clients, Invalidate(c) \/ Restore(c) \/ RestoreFails(c)
      PROVE  SessionsInv'
  <2>1. \A p \in sessions : p = client[c].user.password \/ p \in excused
    BY <1>2, <1>9 DEF Invalidate, Restore, RestoreFails, SessionsInv, SessionsDuringReset
  <2>2. QED
    BY <1>9, <2>1, SessionsUnlockInv DEF Invalidate, Restore, RestoreFails
<1>10. ASSUME NEW c \in Clients, InvalidateFails(c) PROVE SessionsInv'
  <2>1. \A d \in Clients : client'[d].user = client[d].user
    BY <1>1, <1>10 DEF InvalidateFails, AccountInv, RequestType
  <2>2. QED
    BY <1>10, <2>1, SessionsStutterInv DEF InvalidateFails
<1>11. ASSUME NEW c \in Clients, DeleteMe(c) \/ InvalidateUserSessions(c)
       PROVE  SessionsInv'
  <2>1. /\ UNCHANGED <<lock, excused>> /\ user'.password = user.password
        /\ sessions' \subseteq sessions /\ client[c].pc \in {"idle", "logout"}
    BY <1>1, <1>11, NoRequestType DEF DeleteMe, InvalidateUserSessions, AccountInv, UserRow
  <2>2. \A d \in Clients \ {c} : client'[d] = client[d]
    BY <1>1, <1>11 DEF AccountInv, DeleteMe, InvalidateUserSessions, Idle
  <2>3. QED
    BY <1>2, <2>1, <2>2, SessionsStutterInv
<1>12. CASE SetSuspension \/ \E p \in sessions : EndSession(p)
  <2>1. UNCHANGED <<client, lock, excused>> /\ user'.password = user.password
        /\ sessions' \subseteq sessions
    BY <1>1, <1>12 DEF SetSuspension, EndSession, AccountInv, UserRow
  <2>2. QED
    BY <2>1, SessionsStutterInv
<1>13. CASE Crash
  BY <1>13, SessionsUnlockInv DEF Crash
<1>14. QED
  BY <1>5, <1>6, <1>7, <1>8, <1>9, <1>10, <1>11, <1>12, <1>13 DEF Next, ConfirmPasswordReset

\* Every step, and every stutter, keeps the invariant.
LEMMA NextInv == IInv /\ [Next]_vars => IInv'
<1> SUFFICES ASSUME IInv, [Next]_vars PROVE IInv'
  OBVIOUS
<1>1. RowsInv /\ SessionsInv
  BY IInvParts DEF SessionsInv
<1>2. RowsInv' /\ SessionsInv'
  BY <1>1, RowsNext, SessionsNext
<1>3. QED
  BY <1>2 DEF SessionsInv, RowsInv, IInv, AccountInv, TypeOK, MailInv, RequestType

-----------------------------------------------------------------------------
(* One use of each token *)

\* What the argument below needs of the types.
OnceTypes ==
    /\ issued \in 0..MaxTokens
    /\ token \in [Tokens -> TokenRow]
    /\ pending \subseteq Tokens
    /\ job \in [Deliverers -> [pc : JobPC, id : 0..MaxTokens, copy : TokenRow]]
    /\ repeats \in 0..MaxRepeats
    /\ used \in [Tokens -> Nat]

\* The types these lemmas use are part of the invariant.
LEMMA OnceTypesHold == IInv => OnceTypes
  BY DEF IInv, TypeOK, MailTypeOK, OnceTypes

\* A step that leaves rows, events, deliveries and uses alone.
LEMMA OnceStutter ==
    ASSUME OnceInv, UNCHANGED <<issued, token, pending, job, used, repeats>>
    PROVE  OnceInv'
  BY DEF OnceInv, UnissuedUntouched, Delivering, OneOpening, Open

\* A row is written and one use of its token counted or taken back: the row ends up open
\* only if the token ends up unused.
LEMMA OnceRowStep ==
    ASSUME OnceInv, OnceTypes, NEW t \in Tokens, NEW r \in TokenRow,
           t <= issued \/ (~r.present /\ used'[t] = used[t]),
           token' = Update(t, r),
           used' \in [Tokens -> Nat],
           \A k \in Tokens \ {t} : used'[k] = used[k],
           repeats = MaxRepeats => /\ used'[t] <= 1
                                   /\ Open(r) => used'[t] = 0
                                   /\ t \in pending => ~Open(r) /\ used'[t] = 0,
           UNCHANGED <<issued, pending, job, repeats>>
    PROVE  OnceInv'
<1>1. token'[t] = r /\ \A k \in Tokens \ {t} : token'[k] = token[k]
  BY DEF OnceTypes, Update
<1>2. UnissuedUntouched'
  <2>1. CASE t <= issued
    BY <1>1, <2>1, MailTokensAssumption
       DEF OnceInv, OnceTypes, UnissuedUntouched, Delivering, Tokens
  <2>2. CASE ~r.present /\ used'[t] = used[t]
    BY <1>1, <2>2 DEF OnceInv, UnissuedUntouched, Delivering
  <2>3. QED
    BY <2>1, <2>2
<1>3. ASSUME repeats = MaxRepeats PROVE OneOpening'
  BY <1>1, <1>3 DEF OnceInv, OneOpening, OnceTypes
<1>4. QED
  BY <1>2, <1>3 DEF OnceInv

\* A delivery ends: its event is no longer owed, or the delivery has come to nothing.  A row
\* it has written on the way out may be open, if the event is no longer owed.
LEMMA OnceJobEnds ==
    ASSUME OnceInv, OnceTypes, NEW w \in Deliverers,
           job' = [job EXCEPT ![w] = NoJob],
           pending' \in {pending, pending \ {job[w].id}}, job[w] # NoJob,
           \/ token' = token
           \/ /\ pending' = pending \ {job[w].id}
              /\ \E r \in TokenRow : token' = Update(job[w].id, r),
           UNCHANGED <<issued, used, repeats>>
    PROVE  OnceInv'
<1> DEFINE t == job[w].id
<1>1. /\ \A v \in Deliverers : job'[v] # NoJob => v # w /\ job'[v] = job[v]
      /\ \A k \in Tokens \ {t} : token'[k] = token[k]
  BY DEF OnceTypes, Update
<1>2. \A k \in Tokens : k > issued => k # t
  BY DEF OnceInv, UnissuedUntouched, Delivering
<1>3. UnissuedUntouched'
  BY <1>1, <1>2 DEF OnceInv, UnissuedUntouched, Delivering
<1>4. ASSUME repeats = MaxRepeats PROVE OneOpening'
  <2>1. \A v \in Deliverers : job'[v] # NoJob => job[v].id # t
    BY <1>1, <1>4 DEF OnceInv, OneOpening
  <2>2. t \in Tokens /\ used[t] = 0
    BY <1>4 DEF OnceInv, OneOpening, OnceTypes
  <2>3. \A k \in Tokens : used[k] <= 1 /\ (Open(token'[k]) => used[k] = 0)
    BY <1>1, <1>4, <2>2 DEF OnceInv, OneOpening, OnceTypes
  <2>4. \A k \in pending' : ~Open(token'[k]) /\ used[k] = 0
    BY <1>1, <1>4 DEF OnceInv, OneOpening, OnceTypes
  <2>5. QED
    BY <1>1, <1>4, <2>1, <2>3, <2>4 DEF OnceInv, OneOpening
<1>5. QED
  BY <1>3, <1>4 DEF OnceInv

\* A delivery goes on, with the copy it has or with one that is not open; what it writes on
\* the way is open only if its copy was.
LEMMA OnceJobMoves ==
    ASSUME OnceInv, OnceTypes, NEW w \in Deliverers, NEW j,
           job' = [job EXCEPT ![w] = j],
           job[w] # NoJob, j.id = job[w].id,
           ~Open(j.copy) \/ j.copy = job[w].copy,
           \/ token' = token
           \/ \E r \in TokenRow : /\ token' = Update(job[w].id, r)
                                  /\ Open(r) => Open(job[w].copy),
           UNCHANGED <<issued, pending, used, repeats>>
    PROVE  OnceInv'
<1> DEFINE t == job[w].id
<1>1. /\ job'[w] = j /\ \A v \in Deliverers \ {w} : job'[v] = job[v]
      /\ \A k \in Tokens \ {t} : token'[k] = token[k]
  BY DEF OnceTypes, Update
<1>2. \A v \in Deliverers : job'[v] # NoJob => job[v] # NoJob /\ job'[v].id = job[v].id
  BY <1>1
<1>3. \A k \in Tokens : k > issued => k # t
  BY DEF OnceInv, UnissuedUntouched, Delivering
<1>4. UnissuedUntouched'
  BY <1>1, <1>2, <1>3 DEF OnceInv, UnissuedUntouched, Delivering
<1>5. ASSUME repeats = MaxRepeats PROVE OneOpening'
  <2>1. ~Open(job[w].copy) /\ ~Open(j.copy) /\ t \in pending
    BY <1>5 DEF OnceInv, OneOpening
  <2>2. t \in Tokens /\ (Open(token'[t]) => Open(token[t]))
    BY <1>5, <2>1 DEF OnceTypes, Update
  <2>3. \A k \in Tokens : Open(token'[k]) => Open(token[k])
    BY <1>1, <2>2
  <2>4. ASSUME NEW v \in Deliverers, job'[v] # NoJob
        PROVE  /\ job'[v].id \in pending /\ ~Open(job'[v].copy)
               /\ \A u \in Deliverers : job'[u] # NoJob /\ job'[u].id = job'[v].id => u = v
    BY <1>1, <1>2, <1>5, <2>1, <2>4 DEF OnceInv, OneOpening
  <2>5. QED
    BY <1>5, <2>3, <2>4 DEF OnceInv, OneOpening, OnceTypes
<1>6. QED
  BY <1>4, <1>5 DEF OnceInv

\* The first delivery of an event finds a row that is not open; any other uses up a repeat.
LEMMA OnceDeliver ==
    ASSUME OnceInv, OnceTypes, NEW w \in Deliverers, NEW t \in Tokens, Deliver(w, t), used' = used
    PROVE  OnceInv'
<1> DEFINE j == [pc   |-> IF token[t].present /\ token[t].delivered THEN "select" ELSE "send",
                 id   |-> t,
                 copy |-> token[t]]
<1>1. /\ job' = [job EXCEPT ![w] = j] /\ j.id = t /\ j.copy = token[t]
      /\ UNCHANGED <<issued, token, pending>>
  BY DEF Deliver
<1> HIDE DEF j
<1>2. UnissuedUntouched'
  <2>1. t <= issued /\ t \in Nat /\ issued \in Nat
    BY MailTokensAssumption DEF Deliver, OnceTypes, Tokens
  <2>2. \A v \in Deliverers : job'[v] # NoJob => (job[v] # NoJob /\ job'[v] = job[v]) \/ job'[v].id = t
    BY <1>1 DEF OnceTypes
  <2>3. ASSUME NEW k \in Tokens, k > issued
        PROVE  ~Delivering(k)'
    <3>1. ~Delivering(k) /\ k # t
      BY <2>1, <2>3 DEF OnceInv, UnissuedUntouched, Tokens
    <3>2. QED
      BY <2>2, <3>1 DEF Delivering
  <2>4. QED
    BY <1>1, <2>3 DEF OnceInv, UnissuedUntouched
<1>3. ASSUME repeats' = MaxRepeats PROVE OneOpening'
  <2>1. repeats = MaxRepeats /\ t \in pending /\ ~Delivering(t)
    BY <1>3, MailTokensAssumption DEF Deliver, OnceTypes
  <2>2. job'[w] = j /\ \A v \in Deliverers \ {w} : job'[v] = job[v]
    BY <1>1 DEF OnceTypes
  <2>3. ~Open(token[t])
    BY <2>1 DEF OnceInv, OneOpening
  <2>4. \A v \in Deliverers \ {w} : job'[v] # NoJob => job'[v].id # t
    BY <2>1, <2>2 DEF Delivering
  <2>5. ASSUME NEW v \in Deliverers, job'[v] # NoJob
        PROVE  /\ job'[v].id \in pending /\ ~Open(job'[v].copy)
               /\ \A u \in Deliverers : job'[u] # NoJob /\ job'[u].id = job'[v].id => u = v
    BY <1>1, <2>1, <2>2, <2>3, <2>4, <2>5 DEF OnceInv, OneOpening
  <2>6. QED
    BY <1>1, <2>1, <2>5 DEF OnceInv, OneOpening
<1>4. QED
  BY <1>2, <1>3 DEF OnceInv

\* The handler: it sends, records what it has read, selects again and opens the row.
LEMMA OnceHandling ==
    ASSUME OnceInv, OnceTypes, NEW w \in Deliverers, Handling(w) \/ Abandon(w), used' = used
    PROVE  OnceInv'
<1> DEFINE t == job[w].id
<1>1. job[w] # NoJob /\ job[w] \in [pc : JobPC, id : 0..MaxTokens, copy : TokenRow]
  BY DEF Handling, Send, Record, Select, Activate, Abandon, NoJob, OnceTypes
<1>2. CASE Send(w)
  <2> DEFINE j == [job[w] EXCEPT !.pc = "record"]
  <2>1. j.id = job[w].id /\ j.copy = job[w].copy
    BY <1>1
  <2>2. CASE job' = [job EXCEPT ![w] = j] /\ UNCHANGED pending
    <3> HIDE DEF j
    <3>1. QED
      BY <1>1, <1>2, <2>1, <2>2, OnceJobMoves DEF Send
  <2>3. CASE Done(w)
    BY <1>1, <1>2, <2>3, OnceJobEnds DEF Send, Done
  <2>4. QED
    BY <1>2, <2>2, <2>3 DEF Send
<1>3. CASE Select(w)
  <2> DEFINE r == token[t]
             j == [job[w] EXCEPT !.pc = "write", !.copy = r]
  <2>1. j.id = job[w].id /\ j.copy = r
    BY <1>1
  <2>2. CASE r.consumed /\ job' = [job EXCEPT ![w] = j] /\ UNCHANGED pending
    <3>1. ~Open(j.copy)
      BY <2>1, <2>2 DEF Open
    <3> HIDE DEF j, r
    <3>2. QED
      BY <1>1, <1>3, <2>1, <2>2, <3>1, OnceJobMoves DEF Select
  <2>3. CASE Done(w)
    BY <1>1, <1>3, <2>3, OnceJobEnds DEF Select, Done
  <2>4. QED
    BY <1>3, <2>2, <2>3 DEF Select
<1>4. CASE Abandon(w)
  BY <1>1, <1>4, OnceJobEnds DEF Abandon
<1>5. CASE Record(w)
  <2> DEFINE j == [job[w] EXCEPT !.pc = "select"]
             r == [job[w].copy EXCEPT !.delivered = TRUE]
  <2>1. j.id = t /\ j.copy = job[w].copy
    BY <1>1
  <2>2. r \in TokenRow /\ (Open(r) => Open(job[w].copy))
    BY <1>1 DEF Open, TokenRow
  <2>3. /\ token' = Update(t, r) /\ job' = [job EXCEPT ![w] = j]
        /\ UNCHANGED <<issued, pending, repeats>>
    BY <1>5 DEF Record
  <2> HIDE DEF j, r
  <2>4. QED
    BY <1>1, <2>1, <2>2, <2>3, OnceJobMoves
<1>6. CASE Activate(w)
  <2> DEFINE r == Reopen(job[w].copy)
  <2>1. r \in TokenRow
    BY <1>1 DEF Reopen, TokenRow
  <2>2. /\ token' = Update(t, r) /\ Done(w) /\ UNCHANGED <<issued, repeats>>
    BY <1>6 DEF Activate
  <2> HIDE DEF r
  <2>3. QED
    BY <1>1, <2>1, <2>2, OnceJobEnds DEF Done
<1>7. QED
  BY <1>2, <1>3, <1>4, <1>5, <1>6 DEF Handling

\* A new token is owed its mail, closed and unused.
LEMMA OnceIssue ==
    ASSUME OnceInv, OnceTypes, Issue, used' = used
    PROVE  OnceInv'
<1>1. /\ issued' = issued + 1 /\ issued + 1 \in Tokens
      /\ pending' = pending \cup {issued + 1}
      /\ \A t \in Tokens : ~Open(token'[t])
      /\ \A t \in Tokens : t # issued + 1 => ~token'[t].present
      /\ UNCHANGED <<job, repeats>>
  BY MailTokensAssumption DEF Issue, OnceTypes, Tokens, Open, NewToken, NoToken
<1>2. ASSUME NEW t \in Tokens, t > issued + 1
      PROVE  ~token'[t].present /\ t \notin pending' /\ ~Delivering(t)' /\ used[t] = 0
  <2>1. t > issued /\ t # issued + 1
    BY <1>2, MailTokensAssumption DEF OnceTypes, Tokens
  <2>2. QED
    BY <1>1, <2>1 DEF OnceInv, UnissuedUntouched, Delivering
<1>3. used[issued + 1] = 0
  BY <1>1, MailTokensAssumption DEF OnceInv, UnissuedUntouched, OnceTypes
<1>4. ASSUME repeats = MaxRepeats PROVE OneOpening'
  BY <1>1, <1>3, <1>4 DEF OnceInv, OneOpening, OnceTypes
<1>5. QED
  BY <1>1, <1>2, <1>4 DEF OnceInv, UnissuedUntouched

\* The transaction of a reset takes an open row, closes it and counts one use.
LEMMA OnceCommit ==
    ASSUME OnceInv, OnceTypes, MailInv, AccountInv, NEW c \in Clients, ConfirmCommit(c)
    PROVE  OnceInv'
<1> DEFINE t == client[c].id
           r == Consume(token[t])
<1>1. t \in Tokens /\ Open(token[t]) /\ now \in Nat
  BY MailTokensAssumption
  DEF AccountInv, LockInStep, ConfirmCommit, Confirmable, Usable, Open, MailInv, MailTypeOK
<1>2. r \in TokenRow /\ ~Open(r)
  BY <1>1, ConsumeType DEF OnceTypes, Open
<1>3. t <= issued
  BY <1>1, MailTokensAssumption DEF OnceInv, UnissuedUntouched, OnceTypes, Tokens, Open
<1>4. /\ token' = Update(t, r) /\ used' = [used EXCEPT ![t] = @ + 1]
      /\ UNCHANGED <<issued, pending, job, repeats>>
  BY DEF ConfirmCommit
<1> HIDE DEF t, r
<1>5. used' \in [Tokens -> Nat] /\ used'[t] = used[t] + 1 /\ \A k \in Tokens \ {t} : used'[k] = used[k]
  BY <1>1, <1>4 DEF OnceTypes
<1>6. ASSUME repeats = MaxRepeats PROVE used'[t] <= 1 /\ t \notin pending
  BY <1>1, <1>5, <1>6 DEF OnceInv, OneOpening
<1>7. QED
  BY <1>1, <1>2, <1>3, <1>4, <1>5, <1>6, OnceRowStep

\* The rollback writes back an open row, and the use it was opened for is taken back.
LEMMA OnceRestore ==
    ASSUME OnceInv, OnceTypes, AccountInv, NEW c \in Clients, Restore(c)
    PROVE  OnceInv'
<1> DEFINE t == client[c].id
           r == client[c].copy
<1>1. t \in Tokens /\ used[t] > 0 /\ r \in TokenRow
  BY DEF AccountInv, LockInStep, Restore, RequestType
<1>2. t <= issued
  BY <1>1, MailTokensAssumption DEF OnceInv, UnissuedUntouched, OnceTypes, Tokens
<1>3. /\ token' = Update(t, r) /\ used' = [used EXCEPT ![t] = @ - 1]
      /\ UNCHANGED <<issued, pending, job, repeats>>
  BY DEF Restore
<1> HIDE DEF t, r
<1>4. used' \in [Tokens -> Nat] /\ used'[t] = used[t] - 1 /\ \A k \in Tokens \ {t} : used'[k] = used[k]
  BY <1>1, <1>3 DEF OnceTypes
<1>5. ASSUME repeats = MaxRepeats PROVE used'[t] = 0 /\ t \notin pending
  BY <1>1, <1>4, <1>5 DEF OnceInv, OneOpening, OnceTypes
<1>6. QED
  BY <1>1, <1>2, <1>3, <1>4, <1>5, OnceRowStep

\* The cleanup job deletes a row.
LEMMA OnceSweep ==
    ASSUME OnceInv, OnceTypes, NEW t \in Tokens, SweepDelete(t), used' = used
    PROVE  OnceInv'
<1>1. NoToken \in TokenRow /\ ~NoToken.present /\ ~Open(NoToken)
  BY DEF NoToken, TokenRow, Open
<1>2. token' = Update(t, NoToken) /\ UNCHANGED <<issued, pending, job, repeats>>
  BY DEF SweepDelete, Update
<1> HIDE DEF NoToken
<1>3. repeats = MaxRepeats => used'[t] <= 1 /\ (t \in pending => used'[t] = 0)
  BY DEF OnceInv, OneOpening
<1>4. QED
  BY <1>1, <1>2, <1>3, OnceRowStep DEF OnceTypes

\* A crash ends every delivery; the events stay owed.
LEMMA OnceCrash ==
    ASSUME OnceInv, Crash
    PROVE  OnceInv'
<1>1. UNCHANGED <<issued, token, pending, used, repeats>> /\ \A w \in Deliverers : job'[w] = NoJob
  BY DEF Crash
<1>2. QED
  BY <1>1 DEF OnceInv, UnissuedUntouched, Delivering, OneOpening

\* No step opens a row, or uses a token, a second time.
LEMMA OnceNext == IInv /\ OnceInv /\ [Next]_vars => OnceInv'
<1> SUFFICES ASSUME IInv, OnceInv, [Next]_vars PROVE OnceInv'
  OBVIOUS
<1>1. OnceTypes /\ MailInv /\ AccountInv
  BY OnceTypesHold, IInvParts DEF RowsInv
<1>2. CASE RequestPasswordReset
  BY <1>1, <1>2, OnceIssue DEF RequestPasswordReset, accountVars
<1>3. CASE MailStep /\ UNCHANGED accountVars
  <2>1. used' = used
    BY <1>3 DEF accountVars
  <2>2. CASE SweepSelect \/ Tick
    BY <2>1, <2>2, OnceStutter DEF SweepSelect, Tick
  <2>3. QED
    BY <1>1, <1>3, <2>1, <2>2, OnceDeliver, OnceHandling, OnceSweep DEF MailStep
<1>4. ASSUME NEW c \in Clients, ConfirmCommit(c) \/ Restore(c)
      PROVE  OnceInv'
  BY <1>1, <1>4, OnceCommit, OnceRestore
<1>5. ASSUME NEW c \in Clients,
             \/ VerifyCredentials(c) \/ SaveSession(c) \/ ConfirmRejected(c) \/ Invalidate(c)
             \/ InvalidateFails(c) \/ RestoreFails(c) \/ DeleteMe(c) \/ InvalidateUserSessions(c)
             \/ \E t \in Tokens : ConfirmBegin(c, t)
      PROVE  OnceInv'
  BY <1>5, OnceStutter
  DEF VerifyCredentials, SaveSession, ConfirmRejected, Invalidate, InvalidateFails, RestoreFails,
      DeleteMe, InvalidateUserSessions, ConfirmBegin, mailVars
<1>6. CASE SetSuspension \/ (\E p \in sessions : EndSession(p)) \/ UNCHANGED vars
  BY <1>6, OnceStutter DEF SetSuspension, EndSession, vars, mailVars, accountVars
<1>7. CASE Crash
  BY <1>7, OnceCrash
<1>8. QED
  BY <1>2, <1>3, <1>4, <1>5, <1>6, <1>7 DEF Next, ConfirmPasswordReset

-----------------------------------------------------------------------------
\* A user without tokens and sessions.
LEMMA InitInv == Init => IInv
<1> SUFFICES ASSUME Init PROVE IInv
  OBVIOUS
<1>1. MailInv
  BY MailInitInv DEF Init
<1>2. /\ user \in UserRow /\ resets \in 0..MaxResets /\ sessions \subseteq Passwords
      /\ lock = NoClient /\ used \in [Tokens -> Nat] /\ excused \subseteq Passwords
      /\ client = [c \in Clients |-> NoRequest]
  BY PasswordResetAssumption DEF Init, UserRow, Passwords, Status
<1>3. LockInStep
  BY <1>2, NoRequestType, PasswordResetAssumption DEF LockInStep
<1>4. RowsInv
  BY <1>1, <1>2, <1>3, NoRequestType DEF AccountInv, RowsInv
<1>5. SessionsOfThisPassword /\ SessionsDuringReset
  BY <1>2, PasswordResetAssumption DEF Init, SessionsOfThisPassword, SessionsDuringReset
<1>6. QED
  BY <1>4, <1>5, IInvParts

\* The lock, the compensation and the token table stay in step in every reachable state.
THEOREM Invariance == Spec => []IInv
  BY InitInv, NextInv, PTL DEF Spec

\* Rows, copies, jobs, sessions and requests stay within their types.
THEOREM TypeCorrect == Spec => []TypeOK
<1>1. IInv => TypeOK
  BY DEF IInv
<1>2. QED
  BY <1>1, Invariance, PTL

\* No reset token can be used before its mail is sent, whatever copies of its row the
\* handler and the compensation write back.
THEOREM MailedFirst == Spec => []UsableWasMailed
<1>1. IInv => UsableWasMailed
  BY MailInvSuffices DEF IInv
<1>2. QED
  BY <1>1, Invariance, PTL

\* Outside a reset every session was opened with the current password, but for those of a
\* login overtaken by the reset and of a reset that failed twice over.
THEOREM SessionsEndWithPassword == Spec => []SessionsOfThisPassword
<1>1. IInv => SessionsOfThisPassword
  BY DEF IInv
<1>2. QED
  BY <1>1, Invariance, PTL

\* While no event has been delivered twice, no reset token changes the password twice,
\* whatever clients race for it, whatever stale rows the handler writes back and however
\* often the compensation reopens it (account/service.go ConfirmPasswordReset).
THEOREM TokenUsedOnce == Spec => []UsedOnceUnlessRepeated
<1>1. Init => OnceInv
  BY DEF Init, MailInit, OnceInv, UnissuedUntouched, Delivering, OneOpening, Open, NoToken
<1>2. OnceInv => UsedOnceUnlessRepeated
  BY DEF OnceInv, OneOpening, UsedOnceUnlessRepeated, UsedOnce
<1>3. QED
  BY <1>1, <1>2, OnceNext, Invariance, PTL DEF Spec

=============================================================================
