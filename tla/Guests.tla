------------------------------- MODULE Guests -------------------------------
(***************************************************************************)
(* Guest accounts: issued to a browser with a session, activated, perhaps  *)
(* upgraded to a member account, and cleaned up by a job once abandoned.   *)
(*                                                                         *)
(* The account is a row of the database, its sessions are in the cache of  *)
(* the process, and the per-user lock of CacheSessionRepository is taken   *)
(* by some of the operations only.  Issuing a guest is a chain of          *)
(* statements without a transaction, each of which writes the whole row    *)
(* from a copy read before.                                                *)
(*                                                                         *)
(* Of the time a row was issued, activated or expired the code asks how    *)
(* long ago it was and which of two rows is the older: `age` answers the   *)
(* first, up to the longer grace, and `stamp` the second.                  *)
(***************************************************************************)
EXTENDS Integers, FiniteSets

CONSTANTS
    Guests,         \* accounts that start as guests
    Clients,        \* goroutines serving requests of their holders
    NoClient,       \* nobody
    PendingGrace,   \* pendingGracePeriodSeconds of the cleanup job
    UnusedGrace,    \* activeUnusedGracePeriodSeconds
    BatchSize,      \* batchSize
    MaxUpgrades,    \* bound: upgrades tried for one guest
    MaxFaults       \* bound: failed calls and crashes

ASSUME GuestsAssumption ==
    /\ PendingGrace \in Nat \ {0}
    /\ UnusedGrace \in Nat \ {0}
    /\ BatchSize \in Nat \ {0}
    /\ MaxUpgrades \in Nat
    /\ MaxFaults \in Nat
    /\ NoClient \notin Clients

VARIABLES
    user,       \* user[g]: the row of account g
    sessions,   \* sessions[g]: its tokens with a session; 0 is the one issued to the guest
    content,    \* accounts with a published post or a comment of theirs
    issue,      \* issue[g]: where IssueGuestToken of g stands, and its copy of the row
    client,     \* client[c]: the request c serves, the token it came with, its copies
    lock,       \* lock[g]: holder of the user's lock
    batch,      \* accounts the cleanup job has selected and not yet looked at
    stamp,      \* the latest stamp given
    tries,      \* tries[g]: upgrades tried
    faults,     \* faults still allowed
    members,    \* history: accounts ever upgraded
    broken      \* history: accounts whose upgrade could neither finish nor be undone

rowVars == <<user, stamp, content>>
vars    == <<user, sessions, content, issue, client, lock, batch, stamp, tries, faults, members, broken>>

MaxAge  == IF PendingGrace > UnusedGrace THEN PendingGrace ELSE UnusedGrace
Tokens  == 0..MaxUpgrades
Kind    == {"none", "guest", "member", "deleted"}
Status  == {"none", "pending", "active", "expired"}
User    == [kind : Kind, status : Status, age : 0..MaxAge, stamp : Nat]
Account(kind) == [kind |-> kind, status |-> "none", age |-> 0, stamp |-> 0]
Issue == [pc : {"idle", "select", "activate", "save", "reselect", "expire"}, copy : User]
Upgrading == {"commit", "reject", "drop", "undo"}
RequestState == [pc : Upgrading \cup {"idle", "authorised"},
                 id : Guests \cup {NoClient}, token : Tokens, copy : User]
NoIssue   == [pc |-> "idle", copy |-> Account("none")]
NoRequest == [pc |-> "idle", id |-> NoClient, token |-> 0, copy |-> Account("none")]

TypeOK ==
    /\ user \in [Guests -> User]
    /\ \A g \in Guests : user[g].status = "none" <=> user[g].kind # "guest"
    /\ sessions \in [Guests -> SUBSET Tokens]
    /\ content \subseteq Guests
    /\ issue \in [Guests -> Issue]
    /\ client \in [Clients -> RequestState]
    /\ lock \in [Guests -> Clients \cup {NoClient}]
    /\ batch \subseteq Guests
    /\ stamp \in Nat
    /\ tries \in [Guests -> Tokens]
    /\ faults \in 0..MaxFaults
    /\ members \subseteq Guests
    /\ broken \subseteq Guests

Init ==
    /\ user = [g \in Guests |-> Account("none")]
    /\ sessions = [g \in Guests |-> {}]
    /\ content = {}
    /\ issue = [g \in Guests |-> NoIssue]
    /\ client = [c \in Clients |-> NoRequest]
    /\ lock = [g \in Guests |-> NoClient]
    /\ batch = {}
    /\ stamp = 0
    /\ tries = [g \in Guests |-> 0]
    /\ faults = MaxFaults
    /\ members = {}
    /\ broken = {}

Locked(g) == lock[g] # NoClient
IsGuest(g) == user[g].kind = "guest"
IsActiveGuest(g) == IsGuest(g) /\ user[g].status = "active"
Marked(status) == [kind |-> "guest", status |-> status, age |-> 0, stamp |-> stamp + 1]

Fail == faults > 0 /\ faults' = faults - 1

-----------------------------------------------------------------------------
(* IssueGuestToken *)

Issuing(g, pc) == issue[g].pc = pc
IssueGoto(g, pc) == issue' = [issue EXCEPT ![g] = [NoIssue EXCEPT !.pc = pc]]

IssueGuestAccount(g) ==
    /\ user[g].kind = "none"
    /\ user' = [user EXCEPT ![g] = Marked("pending")]
    /\ stamp' = stamp + 1
    /\ IssueGoto(g, "select")
    /\ UNCHANGED <<sessions, content, client, lock, batch, tries, faults, members, broken>>

\* markGuestActive and expireGuestBestEffort read the row, stamp the copy ...
SelectToMark(g, from, status, write, otherwise) ==
    /\ Issuing(g, from)
    /\ IF IsGuest(g)
       THEN /\ issue' = [issue EXCEPT ![g] = [pc |-> write, copy |-> Marked(status)]]
            /\ stamp' = stamp + 1
       ELSE IssueGoto(g, otherwise) /\ UNCHANGED stamp
    /\ UNCHANGED <<user, sessions, content, client, lock, batch, tries, faults, members, broken>>

\* ... and write every column of it, whatever the row has become.
WriteMarked(g, from, next) ==
    /\ Issuing(g, from)
    /\ user' = [user EXCEPT ![g] = issue[g].copy]
    /\ IssueGoto(g, next)
    /\ UNCHANGED <<sessions, content, client, lock, batch, stamp, tries, faults, members, broken>>

\* An account that is gone is no error: the session is saved all the same.
markGuestActive(g) ==
    \/ SelectToMark(g, "select", "active", "activate", "save")
    \/ WriteMarked(g, "activate", "save")

expireGuestBestEffort(g) ==
    \/ SelectToMark(g, "reselect", "expired", "expire", "idle")
    \/ WriteMarked(g, "expire", "idle")

\* The cache may evict the session as soon as it is in.
SaveGuestSession(g) ==
    /\ Issuing(g, "save")
    /\ ~Locked(g)
    /\ sessions' = [sessions EXCEPT ![g] = @ \cup {0}]
    /\ IssueGoto(g, "idle")
    /\ UNCHANGED <<rowVars, client, lock, batch, tries, faults, members, broken>>

SaveGuestSessionFails(g) ==
    /\ Issuing(g, "save")
    /\ ~Locked(g)
    /\ Fail
    /\ IssueGoto(g, "reselect")
    /\ UNCHANGED <<rowVars, sessions, client, lock, batch, tries, members, broken>>

\* A statement of the chain fails; the request ends where it stands.
IssueFails(g) ==
    /\ issue[g].pc \in {"select", "activate", "reselect", "expire"}
    /\ Fail
    /\ IssueGoto(g, "idle")
    /\ UNCHANGED <<rowVars, sessions, client, lock, batch, tries, members, broken>>

-----------------------------------------------------------------------------
(* Requests with a token *)

\* A logout, the end of the token's life or an eviction from the cache.
EndSession(g, t) ==
    /\ t \in sessions[g]
    /\ sessions' = [sessions EXCEPT ![g] = @ \ {t}]
    /\ UNCHANGED <<rowVars, issue, client, lock, batch, tries, faults, members, broken>>

\* The middleware lets a request in; what follows runs on the user id alone.
ValidateTokenToId(c, g, t) ==
    /\ client[c] = NoRequest
    /\ ~Locked(g)
    /\ t \in sessions[g]
    /\ user[g].kind = "member" \/ IsActiveGuest(g)
    /\ client' = [client EXCEPT ![c] = [NoRequest EXCEPT !.pc = "authorised", !.id = g, !.token = t]]
    /\ UNCHANGED <<rowVars, sessions, issue, lock, batch, tries, faults, members, broken>>

Finish(c) == client' = [client EXCEPT ![c] = NoRequest]
Unlock(g) == lock' = [lock EXCEPT ![g] = NoClient]

\* Creating or deleting a post or comment: one transaction, in which the author must be a
\* member or an active guest; a refused or failed one changes nothing,
\* nor does any other request.
Write(c) ==
    LET g == client[c].id IN
    /\ client[c].pc = "authorised"
    /\ content' \in IF user[g].kind = "member" \/ IsActiveGuest(g)
                    THEN {content, content \cup {g}, content \ {g}}
                    ELSE {content}
    /\ Finish(c)
    /\ UNCHANGED <<user, stamp, sessions, issue, lock, batch, tries, faults, members, broken>>

\* DeleteMe is for members; the sessions are dropped afterwards, or run out.
DeleteMe(c) ==
    LET g == client[c].id IN
    /\ client[c].pc = "authorised"
    /\ user[g].kind = "member"
    /\ user' = [user EXCEPT ![g] = Account("deleted")]
    /\ Finish(c)
    /\ UNCHANGED <<stamp, content, sessions, issue, lock, batch, tries, faults, members, broken>>

-----------------------------------------------------------------------------
(* UpgradeGuestAccount, under the user's lock from here to Unlock *)

Candidate(g) == tries[g]

\* The current token must have a session; the one that will replace it is saved first.
UpgradeBegin(c) ==
    LET g == client[c].id IN
    /\ client[c].pc = "authorised"
    /\ ~Locked(g)
    /\ client[c].token \in sessions[g]
    /\ tries[g] < MaxUpgrades
    /\ tries' = [tries EXCEPT ![g] = @ + 1]
    /\ sessions' = [sessions EXCEPT ![g] = @ \cup {tries[g] + 1}]
    /\ lock' = [lock EXCEPT ![g] = c]
    /\ client' = [client EXCEPT ![c].pc = "commit"]
    /\ UNCHANGED <<rowVars, issue, batch, faults, members, broken>>

\* Fault: the guest's status is not reset.
UpgradeCommitKeepsStatus(c) ==
    LET g == client[c].id IN
    /\ client[c].pc = "commit"
    /\ IsGuest(g)
    /\ user' = [user EXCEPT ![g].kind = "member"]
    /\ members' = members \cup {g}
    /\ client' = [client EXCEPT ![c].pc = "drop", ![c].copy = user[g]]
    /\ UNCHANGED <<stamp, content, sessions, issue, lock, batch, tries, faults, broken>>

\* applyGuestUpgrade: the account becomes a member's; a copy is kept for a rollback.
UpgradeCommit(c) ==
    LET g == client[c].id IN
    /\ client[c].pc = "commit"
    /\ IsGuest(g)
    /\ user' = [user EXCEPT ![g] = Account("member")]
    /\ members' = members \cup {g}
    /\ client' = [client EXCEPT ![c].pc = "drop", ![c].copy = user[g]]
    /\ UNCHANGED <<stamp, content, sessions, issue, lock, batch, tries, faults, broken>>

\* The account is no guest's any more, or the user name is taken, or the transaction fails.
UpgradeRejected(c) ==
    /\ client[c].pc = "commit"
    /\ client' = [client EXCEPT ![c].pc = "reject"]
    /\ UNCHANGED <<rowVars, sessions, issue, lock, batch, tries, faults, members, broken>>

\* Deletes token t under the lock and leaves.
DeleteAndUnlock(c, t) ==
    LET g == client[c].id IN
    /\ sessions' = [sessions EXCEPT ![g] = @ \ {t}]
    /\ Unlock(g)
    /\ Finish(c)

DropCandidate(c) ==
    /\ client[c].pc = "reject"
    /\ \/ DeleteAndUnlock(c, Candidate(client[c].id)) /\ UNCHANGED <<faults, broken>>
       \/ /\ Fail                  \* its error is ignored
          /\ broken' = broken \cup {client[c].id}
          /\ Unlock(client[c].id)
          /\ Finish(c)
          /\ UNCHANGED sessions
    /\ UNCHANGED <<rowVars, issue, batch, tries, members>>

\* Fault: the token of the guest keeps its session.
KeepCurrent(c) ==
    /\ client[c].pc = "drop"
    /\ Unlock(client[c].id)
    /\ Finish(c)
    /\ UNCHANGED <<rowVars, sessions, issue, batch, tries, faults, members, broken>>

DropCurrent(c) ==
    /\ client[c].pc = "drop"
    /\ DeleteAndUnlock(c, client[c].token)
    /\ UNCHANGED <<rowVars, issue, batch, tries, faults, members, broken>>

DropCurrentFails(c) ==
    /\ client[c].pc = "drop"
    /\ Fail
    /\ client' = [client EXCEPT ![c].pc = "undo"]
    /\ UNCHANGED <<rowVars, sessions, issue, lock, batch, tries, members, broken>>

\* The candidate is deleted and the whole row written back as it was.
Undo(c) ==
    LET g == client[c].id IN
    /\ client[c].pc = "undo"
    /\ DeleteAndUnlock(c, Candidate(g))
    /\ user' = [user EXCEPT ![g] = client[c].copy]
    /\ UNCHANGED <<stamp, content, issue, batch, tries, faults, members, broken>>

\* Either half of it, or both, may fail as well.
UndoFails(c) ==
    LET g == client[c].id IN
    /\ client[c].pc = "undo"
    /\ Fail
    /\ \/ sessions' = [sessions EXCEPT ![g] = @ \ {Candidate(g)}] /\ UNCHANGED user
       \/ user' = [user EXCEPT ![g] = client[c].copy] /\ UNCHANGED sessions
       \/ UNCHANGED <<user, sessions>>
    /\ broken' = broken \cup {g}
    /\ Unlock(g)
    /\ Finish(c)
    /\ UNCHANGED <<stamp, content, issue, batch, tries, members>>

UpgradeGuestAccount(c) ==
    \/ UpgradeBegin(c) \/ UpgradeCommit(c) \/ UpgradeRejected(c) \/ DropCandidate(c)
    \/ DropCurrent(c) \/ DropCurrentFails(c) \/ Undo(c) \/ UndoFails(c)

-----------------------------------------------------------------------------
(* The cleanup job: a SELECT, then one transaction per account under its lock *)

Grace(g) == IF user[g].status = "active" THEN UnusedGrace ELSE PendingGrace

\* Faults: a guest may be cleaned up from the moment it is issued; expired guests and
\* active ones are forgotten.
EligibleAtOnce(g) == IsGuest(g)
EligibleWhilePending(g) ==
    IsGuest(g) /\ user[g].status = "pending" /\ user[g].age >= PendingGrace

guestEligibleForCleanup(g) == IsGuest(g) /\ user[g].age >= Grace(g)

Eligible == {g \in Guests : guestEligibleForCleanup(g)}

\* The BatchSize oldest, whether or not they are still in use.
SelectGuestCleanupCandidates ==
    /\ batch = {}
    /\ Eligible # {}
    /\ batch' = {g \in Eligible :
                   Cardinality({h \in Eligible : user[h].stamp < user[g].stamp}) < BatchSize}
    /\ UNCHANGED <<rowVars, sessions, issue, client, lock, tries, faults, members, broken>>

\* Fault: what the guest wrote does not keep the account.
InUseBySession(g) == sessions[g] # {}

InUse(g) == sessions[g] # {} \/ g \in content

cleanupGuest(g) ==
    /\ g \in batch
    /\ ~Locked(g)
    /\ user' = IF IsGuest(g) /\ ~InUse(g) THEN [user EXCEPT ![g] = Account("deleted")] ELSE user
    /\ batch' = batch \ {g}
    /\ UNCHANGED <<stamp, content, sessions, issue, client, lock, tries, faults, members, broken>>

\* An error ends the run of the job.
CleanupFails ==
    /\ batch # {}
    /\ Fail
    /\ batch' = {}
    /\ UNCHANGED <<rowVars, sessions, issue, client, lock, tries, members, broken>>

-----------------------------------------------------------------------------
Older(r) == [r EXCEPT !.age = IF r.kind = "guest" /\ @ < MaxAge THEN @ + 1 ELSE @]

Tick ==
    /\ user' = [g \in Guests |-> Older(user[g])]
    /\ issue' = [g \in Guests |-> [issue[g] EXCEPT !.copy = Older(@)]]
    /\ client' = [c \in Clients |-> [client[c] EXCEPT !.copy = Older(@)]]
    /\ UNCHANGED <<content, stamp, sessions, lock, batch, tries, faults, members, broken>>

\* The process dies: the sessions were its own.
Crash ==
    /\ Fail
    /\ sessions' = [g \in Guests |-> {}]
    /\ issue' = [g \in Guests |-> NoIssue]
    /\ client' = [c \in Clients |-> NoRequest]
    /\ lock' = [g \in Guests |-> NoClient]
    /\ batch' = {}
    /\ UNCHANGED <<rowVars, tries, members, broken>>

IssueGuestToken(g) ==
    \/ IssueGuestAccount(g)
    \/ markGuestActive(g) \/ SaveGuestSession(g)
    \/ SaveGuestSessionFails(g) \/ expireGuestBestEffort(g) \/ IssueFails(g)

Request(c) ==
    \/ \E g \in Guests, t \in Tokens : ValidateTokenToId(c, g, t)
    \/ Write(c) \/ DeleteMe(c) \/ UpgradeGuestAccount(c)

Cleanup ==
    SelectGuestCleanupCandidates \/ CleanupFails \/ (\E g \in Guests : cleanupGuest(g))

Step ==
    \/ \E g \in Guests : IssueGuestToken(g) \/ (\E t \in Tokens : EndSession(g, t))
    \/ \E c \in Clients : Request(c)
    \/ Cleanup
    \/ Crash

Next == Step \/ Tick

Spec == Init /\ [][Next]_vars

\* Goroutines are scheduled, the job runs on its interval, time goes on, and with it every
\* session comes to its end (the tokens live 24 hours).
Fairness ==
    /\ WF_vars(Tick)
    /\ WF_vars(SelectGuestCleanupCandidates)
    /\ \A g \in Guests :
          /\ WF_vars(cleanupGuest(g))
          /\ WF_vars(\E t \in Tokens : EndSession(g, t))
          /\ WF_vars(markGuestActive(g) \/ SaveGuestSession(g) \/ expireGuestBestEffort(g))
    /\ \A c \in Clients :
          /\ WF_vars(UpgradeRejected(c) \/ UpgradeCommit(c))
          /\ WF_vars(DropCandidate(c) \/ DropCurrent(c) \/ Undo(c))

\* A machine that keeps up: issuing a guest takes no time that counts against a grace.
KeepsUp == \A g \in Guests : issue[g].pc = "idle"

TimelySpec == Init /\ [][Step \/ (KeepsUp /\ Tick)]_vars
FairSpec   == Init /\ [][Step \/ (KeepsUp /\ Tick)]_vars /\ Fairness

-----------------------------------------------------------------------------
(* Properties *)

\* Whoever published something as a guest keeps the account: the job deletes accounts
\* without content, and no request it overlaps can write for a deleted one
\* (guestcleanup/service.go cleanupGuest, post and comment command handlers).
ContentKeepsAccount ==
    \A g \in content : user[g].kind = "deleted" => g \in members

\* A guest's session is worth something: while it is in the cache its account is an active
\* guest, or was upgraded.  Only on a machine that keeps up: otherwise the job, which takes
\* pending guests, can come between activation and session (session/service.go
\* IssueGuestToken).
SessionIsWorthIt ==
    \A g \in Guests : sessions[g] # {} => IsActiveGuest(g) \/ g \in members

\* Between upgrades the tokens with a session are those of the kind of account it is: the
\* guest's token and no other for a guest, never the guest's for a member, unless an upgrade
\* failed and its rollback too (account/service.go UpgradeGuestAccount).
TokensMatchAccount ==
    \A g \in Guests \ broken :
        ~Locked(g) => /\ user[g].kind = "guest" => sessions[g] \subseteq {0}
                      /\ user[g].kind = "member" => 0 \notin sessions[g]

\* A request holds the lock of the account it upgrades from UpgradeBegin to the end.
RequestInStep ==
    \A c \in Clients :
        /\ client[c].pc # "idle" => client[c].id \in Guests
        /\ client[c].pc \in Upgrading => lock[client[c].id] = c

\* A lock is held by such a request only, and not before the account is issued.
LockInStep ==
    \A g \in Guests :
        Locked(g) => /\ client[lock[g]].pc \in Upgrading
                     /\ client[lock[g]].id = g
                     /\ tries[g] > 0
                     /\ user[g].kind # "none"
                     /\ issue[g].pc = "idle"

\* Nobody uses an account before its first session is saved.
IssueInStep ==
    \A g \in Guests :
        /\ user[g].kind = "none" => issue[g].pc = "idle"
        /\ user[g].kind = "none" \/ issue[g].pc # "idle" => sessions[g] = {} /\ g \notin members
        /\ user[g].kind = "none" => g \notin content
        /\ user[g].kind = "member" => g \in members
        /\ issue[g].pc \in {"activate", "expire"} => issue[g].copy.kind = "guest"
        /\ issue[g].copy.status = "none" <=> issue[g].copy.kind # "guest"

\* What an upgrade finds and leaves, step by step.
UpgradeInStep ==
    \A g \in Guests :
        Locked(g) =>
          LET c == client[lock[g]] IN
          /\ c.pc \in {"drop", "undo"} => g \in members /\ ~IsGuest(g)
          /\ c.pc \in {"drop", "undo"} => c.copy.kind = "guest" /\ c.copy.status # "none"
          /\ g \notin broken =>
               /\ IsGuest(g) => c.token = 0 /\ sessions[g] \subseteq {0, Candidate(g)}
               /\ c.pc \in {"drop", "undo"}
                     => c.token = 0 /\ sessions[g] \subseteq {0, Candidate(g)}
               /\ c.pc \in {"commit", "reject"} /\ user[g].kind = "member" => 0 \notin sessions[g]

\* The inductive invariant behind TypeOK, ContentKeepsAccount and TokensMatchAccount.
IInv ==
    /\ TypeOK
    /\ RequestInStep
    /\ LockInStep
    /\ IssueInStep
    /\ UpgradeInStep
    /\ TokensMatchAccount
    /\ ContentKeepsAccount

\* On a machine that keeps up no time passes for an account being issued, so the job has
\* not selected it, and its session comes after its activation.
IssueInTime ==
    /\ \A g \in batch : user[g].kind # "none" /\ issue[g].pc = "idle"
    /\ \A g \in Guests :
          /\ issue[g].pc # "idle" => IsGuest(g) /\ user[g].age = 0
          /\ issue[g].pc \in {"activate", "expire"} => issue[g].copy.age = 0
          /\ issue[g].pc = "activate" => issue[g].copy.status = "active"
          /\ issue[g].pc = "save" => IsActiveGuest(g)

\* What a machine that keeps up adds to IInv.
TimelyInv == IssueInTime /\ SessionIsWorthIt

\* An account once deleted comes back only by the rollback of an upgrade.
DeletedStaysDeleted ==
    [][\A g \in Guests :
          user[g].kind = "deleted" /\ user'[g].kind # "deleted"
             => \E c \in Clients : client[c].pc = "undo" /\ client[c].id = g]_vars

\* A guest that was abandoned, having written nothing, is in the end cleaned up.
EventuallyCleaned ==
    \A g \in Guests :
        (IsGuest(g) /\ ~InUse(g) /\ issue[g].pc = "idle")
            ~> (~IsGuest(g) \/ InUse(g))

=============================================================================
