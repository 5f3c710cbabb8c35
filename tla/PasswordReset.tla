---------------------------- MODULE PasswordReset ----------------------------
(***************************************************************************)
(* One user's password and sessions: password reset with its tokens, the   *)
(* user lock and the compensation after a failed session invalidation,     *)
(* login, account deletion and suspension, interleaved as requests of      *)
(* several clients.                                                        *)
(*                                                                         *)
(* The user row is in the database, the sessions are in the cache of the   *)
(* process: no transaction spans both.  A password is named by the reset   *)
(* that set it.  Sessions opened with the same password are not told       *)
(* apart, so `sessions` holds the passwords of the sessions there are.     *)
(***************************************************************************)
EXTENDS MailTokens

CONSTANTS
    Clients,         \* goroutines serving requests of, or about, this user
    NoClient,        \* nobody
    MaxResets        \* bound: password resets that commit

ASSUME PasswordResetAssumption ==
    /\ MaxResets \in Nat
    /\ NoClient \notin Clients

VARIABLES
    user,      \* the user row: password and status
    resets,    \* resets that have committed
    sessions,  \* passwords with which the sessions in the cache were opened
    client,    \* client[c]: the request c serves, and what it has read so far
    lock,      \* holder of the user's lock in CacheSessionRepository
    used,      \* history: used[t], times token t changed the password for good
    excused    \* history: passwords whose sessions may outlive them: saved late by a login, or
               \*   left by a reset that could neither end the sessions nor roll back

accountVars == <<user, resets, sessions, client, lock, used, excused>>
vars == <<mailVars, accountVars>>

Passwords == 0..MaxResets
Status    == {"active", "suspended", "deleted"}
UserRow   == [password : Passwords, status : Status]
NoRequest == [pc |-> "idle", id |-> 0, user |-> [password |-> 0, status |-> "active"],
              copy |-> NoToken]
ClientPC  == {"idle", "save", "confirm", "invalidate", "restore", "logout"}

TypeOK ==
    /\ MailTypeOK
    /\ user \in UserRow
    /\ resets \in 0..MaxResets
    /\ sessions \subseteq Passwords
    /\ client \in [Clients -> [pc : ClientPC, id : 0..MaxTokens, user : UserRow, copy : TokenRow]]
    /\ lock \in Clients \cup {NoClient}
    /\ used \in [Tokens -> Nat]
    /\ excused \subseteq Passwords

Init ==
    /\ MailInit
    /\ user = [password |-> 0, status |-> "active"]
    /\ resets = 0
    /\ sessions = {}
    /\ client = [c \in Clients |-> NoRequest]
    /\ lock = NoClient
    /\ used = [t \in Tokens |-> 0]
    /\ excused = {}

Locked  == lock # NoClient
Idle(c) == client' = [client EXCEPT ![c] = NoRequest]

-----------------------------------------------------------------------------
(* Login and its session *)

\* VerifyCredentials: reads the row, compares the password, holds no lock.
VerifyCredentials(c) ==
    /\ client[c] = NoRequest
    /\ user.status # "deleted"
    /\ client' = [client EXCEPT ![c] = [NoRequest EXCEPT !.pc = "save", !.user = user]]
    /\ UNCHANGED <<mailVars, user, resets, sessions, lock, used, excused>>

\* sessionRepository.Save, under the user's lock.  The cache may turn the session away.
SaveSession(c) ==
    /\ client[c].pc = "save"
    /\ ~Locked
    /\ LET p == client[c].user.password IN
       \/ /\ sessions' = sessions \cup {p}
          /\ excused' = IF p = user.password THEN excused ELSE excused \cup {p}
       \/ UNCHANGED <<sessions, excused>>
    /\ Idle(c)
    /\ UNCHANGED <<mailVars, user, resets, lock, used>>

\* A logout, the end of a session's life, or an eviction from the cache.
EndSession(p) ==
    /\ p \in sessions
    /\ sessions' = sessions \ {p}
    /\ UNCHANGED <<mailVars, user, resets, client, lock, used, excused>>

-----------------------------------------------------------------------------
(* Password reset *)

RequestPasswordReset ==
    /\ user.status # "deleted"
    /\ Issue
    /\ UNCHANGED accountVars

\* ConfirmPasswordReset looks the token up to learn the user, and hashes the password.
ConfirmBegin(c, t) ==
    /\ client[c] = NoRequest
    /\ token[t].present
    /\ client' = [client EXCEPT ![c] = [NoRequest EXCEPT !.pc = "confirm", !.id = t]]
    /\ UNCHANGED <<mailVars, user, resets, sessions, lock, used, excused>>

Confirmable(t) == Usable(token[t]) /\ user.status # "deleted"

\* Fault: the token is not consumed.
ConfirmCommitUnconsumed(c) ==
    LET t == client[c].id IN
    /\ client[c].pc = "confirm"
    /\ ~Locked
    /\ Confirmable(t)
    /\ resets < MaxResets
    /\ resets' = resets + 1
    /\ user' = [user EXCEPT !.password = resets + 1]
    /\ lock' = c
    /\ client' = [client EXCEPT ![c].pc = "invalidate", ![c].user = user, ![c].copy = token[t]]
    /\ used' = [used EXCEPT ![t] = @ + 1]
    /\ UNCHANGED <<mailVars, sessions, excused>>

\* Under the user's lock one transaction checks the token again, sets the password and
\* consumes the token; the row and the token as they were are kept for a rollback.
ConfirmCommit(c) ==
    LET t == client[c].id IN
    /\ client[c].pc = "confirm"
    /\ ~Locked
    /\ Confirmable(t)
    /\ resets < MaxResets
    /\ resets' = resets + 1
    /\ user' = [user EXCEPT !.password = resets + 1]
    /\ token' = Update(t, Consume(token[t]))
    /\ lock' = c
    /\ client' = [client EXCEPT ![c].pc = "invalidate", ![c].user = user, ![c].copy = token[t]]
    /\ used' = [used EXCEPT ![t] = @ + 1]
    /\ UNCHANGED <<now, issued, pending, job, sweep, repeats, faults, mailed, sessions, excused>>

ConfirmRejected(c) ==
    /\ client[c].pc = "confirm"
    /\ ~Locked
    /\ ~Confirmable(client[c].id)
    /\ Idle(c)
    /\ UNCHANGED <<mailVars, user, resets, sessions, lock, used, excused>>

\* Fault: the old sessions survive.
InvalidateNothing(c) ==
    /\ client[c].pc = "invalidate"
    /\ lock' = NoClient
    /\ Idle(c)
    /\ UNCHANGED <<mailVars, user, resets, sessions, used, excused>>

\* scope.DeleteByUser, then the lock is released.
Invalidate(c) ==
    /\ client[c].pc = "invalidate"
    /\ sessions' = {}
    /\ lock' = NoClient
    /\ Idle(c)
    /\ UNCHANGED <<mailVars, user, resets, used, excused>>

InvalidateFails(c) ==
    /\ client[c].pc = "invalidate"
    /\ faults > 0
    /\ faults' = faults - 1
    /\ client' = [client EXCEPT ![c].pc = "restore"]
    /\ UNCHANGED <<now, issued, token, pending, job, sweep, repeats, mailed>>
    /\ UNCHANGED <<user, resets, sessions, lock, used, excused>>

\* restorePasswordResetState writes back both rows, every column, as they were read.
Restore(c) ==
    LET t == client[c].id IN
    /\ client[c].pc = "restore"
    /\ user' = client[c].user
    /\ token' = Update(t, client[c].copy)
    /\ used' = [used EXCEPT ![t] = @ - 1]
    /\ lock' = NoClient
    /\ Idle(c)
    /\ UNCHANGED <<now, issued, pending, job, sweep, repeats, faults, mailed, resets, sessions, excused>>

RestoreFails(c) ==
    /\ client[c].pc = "restore"
    /\ faults > 0
    /\ faults' = faults - 1
    /\ lock' = NoClient
    /\ Idle(c)
    /\ excused' = excused \cup sessions
    /\ UNCHANGED <<now, issued, token, pending, job, sweep, repeats, mailed>>
    /\ UNCHANGED <<user, resets, sessions, used>>

-----------------------------------------------------------------------------
(* Account deletion and suspension, in transactions of their own without the lock *)

DeleteMe(c) ==
    /\ client[c] = NoRequest
    /\ user.status # "deleted"
    /\ user' = [user EXCEPT !.status = "deleted"]
    /\ client' = [client EXCEPT ![c] = [NoRequest EXCEPT !.pc = "logout"]]
    /\ UNCHANGED <<mailVars, resets, sessions, lock, used, excused>>

\* InvalidateUserSessions: best effort.
InvalidateUserSessions(c) ==
    /\ client[c].pc = "logout"
    /\ ~Locked
    /\ sessions' \in {sessions, {}}
    /\ Idle(c)
    /\ UNCHANGED <<mailVars, user, resets, lock, used, excused>>

SetSuspension ==
    /\ user.status # "deleted"
    /\ \E s \in {"active", "suspended"} \ {user.status} : user' = [user EXCEPT !.status = s]
    /\ UNCHANGED <<mailVars, resets, sessions, client, lock, used, excused>>

-----------------------------------------------------------------------------
\* The process dies: the sessions were its own.
Crash ==
    /\ faults > 0
    /\ faults' = faults - 1
    /\ job' = [w \in Deliverers |-> NoJob]
    /\ sweep' = {}
    /\ sessions' = {}
    /\ client' = [c \in Clients |-> NoRequest]
    /\ lock' = NoClient
    /\ UNCHANGED <<now, issued, token, pending, repeats, mailed, user, resets, used, excused>>

ConfirmPasswordReset(c) ==
    \/ \E t \in Tokens : ConfirmBegin(c, t)
    \/ ConfirmCommit(c) \/ ConfirmRejected(c)
    \/ Invalidate(c) \/ InvalidateFails(c)
    \/ Restore(c) \/ RestoreFails(c)

Next ==
    \/ RequestPasswordReset
    \/ \E c \in Clients :
          \/ VerifyCredentials(c) \/ SaveSession(c)
          \/ ConfirmPasswordReset(c)
          \/ DeleteMe(c) \/ InvalidateUserSessions(c)
    \/ \E p \in sessions : EndSession(p)
    \/ SetSuspension
    \/ Crash
    \/ MailStep /\ UNCHANGED accountVars

Spec == Init /\ [][Next]_vars

-----------------------------------------------------------------------------
(* Properties *)

\* A reset token changes the password at most once.
UsedOnce == \A t \in Tokens : used[t] <= 1

\* It does so while no event has been delivered twice, whatever clients race for it and
\* whatever the compensation writes back (account/service.go ConfirmPasswordReset).
UsedOnceUnlessRepeated == repeats = MaxRepeats => UsedOnce

\* Outside a reset the only sessions of an earlier password are those of logins that
\* checked it before a reset and saved their session after it, and those a reset left that
\* failed twice over (account/service.go ConfirmPasswordReset, session/service.go Login).
SessionsOfThisPassword ==
    ~Locked => \A p \in sessions : p = user.password \/ p \in excused

\* The lock is held by exactly the client that has changed the password and not yet
\* ended the sessions, and its copies are those of a lawful rollback.
LockInStep ==
    \A c \in Clients :
        /\ client[c].pc \in {"invalidate", "restore"} <=> lock = c
        /\ client[c].pc \in {"confirm", "invalidate", "restore"} => client[c].id \in Tokens
        /\ lock = c => /\ used[client[c].id] > 0
                       /\ client[c].copy.present
                       /\ client[c].id \in mailed

\* During a reset the sessions are those of the password its client keeps for a rollback.
SessionsDuringReset ==
    \A c \in Clients :
        lock = c => \A p \in sessions : p = client[c].user.password \/ p \in excused

\* A token not yet issued has no row, no event and no delivery, and has changed nothing.
UnissuedUntouched ==
    \A t \in Tokens : t > issued =>
        ~token[t].present /\ t \notin pending /\ ~Delivering(t) /\ used[t] = 0

Open(r) == r.present /\ ~r.consumed

\* One opening of the row pays for one use: a token whose event is owed has neither, the
\* delivery under way is the only one of its token, and a row is open only while unused.
OneOpening ==
    /\ \A t \in Tokens : used[t] <= 1 /\ (Open(token[t]) => used[t] = 0)
    /\ \A t \in pending : ~Open(token[t]) /\ used[t] = 0
    /\ \A w \in Deliverers : job[w] # NoJob =>
          /\ job[w].id \in pending
          /\ ~Open(job[w].copy)
          /\ \A v \in Deliverers : job[v] # NoJob /\ job[v].id = job[w].id => v = w

OnceInv == UnissuedUntouched /\ (repeats = MaxRepeats => OneOpening)

IInv ==
    /\ MailInv
    /\ TypeOK
    /\ LockInStep
    /\ SessionsOfThisPassword
    /\ SessionsDuringReset

=============================================================================
