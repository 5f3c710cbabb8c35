---------------------------- MODULE GuestsProofs ----------------------------
(***************************************************************************)
(* The invariants of Guests, for any guests, clients, graces, batches and  *)
(* faults.  One lemma per action; under it one step per conjunct of IInv.  *)
(* At the end what needs guests to be issued in time: that a session       *)
(* belongs to an account worth it, and that the deleted stay deleted.      *)
(***************************************************************************)
EXTENDS Guests, TLAPS

USE GuestsAssumption

\* Rows written when an account is issued, marked, upgraded or deleted.
LEMMA Rows ==
    ASSUME TypeOK
    PROVE  /\ MaxAge \in Nat
           /\ \A k \in Kind : Account(k) \in User
           /\ \A s \in Status : Marked(s) \in User
  BY DEF TypeOK, MaxAge, Account, Marked, User, Kind, Status

\* Time changes a row's age and nothing else.
LEMMA OlderRow ==
    ASSUME NEW r \in User
    PROVE  Older(r) \in User /\ Older(r).kind = r.kind /\ Older(r).status = r.status
  BY DEF Older, User, MaxAge

\* What becomes of a request and of an issue.
LEMMA States ==
    ASSUME TypeOK
    PROVE  /\ NoRequest \in RequestState
           /\ NoIssue \in Issue
           /\ \A c \in Clients, p \in Upgrading : [client[c] EXCEPT !.pc = p] \in RequestState
           /\ \A c \in Clients, g \in Guests, t \in Tokens :
                 [NoRequest EXCEPT !.pc = "authorised", !.id = g, !.token = t] \in RequestState
           /\ \A c \in Clients, g \in Guests :
                 [client[c] EXCEPT !.pc = "drop", !.copy = user[g]] \in RequestState
           /\ \A p \in {"idle", "select", "activate", "save", "reselect", "expire"} :
                 [NoIssue EXCEPT !.pc = p] \in Issue
           /\ \A p \in {"activate", "expire"}, u \in User : [pc |-> p, copy |-> u] \in Issue
<1>1. Account("none") \in User /\ 0 \in Tokens
  BY Rows DEF Kind, Tokens
<1>2. client \in [Clients -> RequestState] /\ user \in [Guests -> User]
  BY DEF TypeOK
<1>3. QED
  BY <1>1, <1>2 DEF RequestState, Issue, NoRequest, NoIssue, Upgrading

\* The INSERT of a guest.
LEMMA IssueGuestAccountInv ==
    ASSUME IInv, NEW g \in Guests, IssueGuestAccount(g)
    PROVE  IInv'
<1>1. TypeOK
  BY DEF IInv
<1>2. TypeOK'
  <2>1. /\ user' \in [Guests -> User]
        /\ \A h \in Guests : user'[h].status = "none" <=> user'[h].kind # "guest"
    BY <1>1, Rows DEF IInv, TypeOK, UpgradeInStep, LockInStep, RequestInStep, Locked,
           RequestState, IsGuest, Account, Marked, Kind, Status, rowVars,
           IssueGuestAccount, IssueGoto
  <2>2. issue' \in [Guests -> Issue]
    BY <1>1, Rows, States DEF IInv, TypeOK, IssueGuestAccount, IssueGoto, rowVars
  <2>3. client' \in [Clients -> RequestState]
    BY <1>1, States DEF IInv, TypeOK, rowVars, IssueGuestAccount, IssueGoto
  <2>4. QED
    BY <1>1, <2>1, <2>2, <2>3 DEF IInv, TypeOK, IssueGuestAccount, IssueGoto, rowVars
<1>3. RequestInStep'
  BY <1>1 DEF IInv, RequestInStep, IssueGuestAccount, IssueGoto, rowVars
<1>4. LockInStep'
  BY <1>1 DEF IInv, LockInStep, Locked, IssueGuestAccount, IssueGoto, rowVars
<1>5. IssueInStep'
  BY <1>1 DEF IInv, IssueInStep, RequestInStep, LockInStep, UpgradeInStep, TypeOK, Tokens,
         Account, Marked, NoIssue, NoRequest, Issue, RequestState, rowVars, Locked,
         IsGuest, Upgrading, IssueGuestAccount, IssueGoto
<1>6. UpgradeInStep'
  BY <1>1 DEF IInv, UpgradeInStep, RequestInStep, LockInStep, IssueInStep,
         TokensMatchAccount, TypeOK, Tokens, Account, Marked, NoRequest, RequestState,
         Upgrading, rowVars, Locked, IsGuest, Candidate, IssueGuestAccount, IssueGoto
<1>7. TokensMatchAccount'
  BY <1>1 DEF IInv, TokensMatchAccount, UpgradeInStep, RequestInStep, LockInStep,
         IssueInStep, TypeOK, Tokens, Account, Marked, RequestState, Upgrading, rowVars,
         Locked, IsGuest, Candidate, IssueGuestAccount, IssueGoto
<1>8. ContentKeepsAccount'
  BY <1>1 DEF IInv, ContentKeepsAccount, IssueInStep, RequestInStep, LockInStep,
         UpgradeInStep, TypeOK, Account, Marked, rowVars, Locked, IsGuest, IsActiveGuest,
         Upgrading, IssueGuestAccount, IssueGoto
<1>9. QED
  BY <1>2, <1>3, <1>4, <1>5, <1>6, <1>7, <1>8 DEF IInv

\* Activation and expiry: the row is read and a copy stamped.
LEMMA SelectToMarkInv ==
    ASSUME IInv, NEW g \in Guests, NEW from \in {"select", "reselect"},
           NEW status \in {"active", "expired"}, NEW write \in {"activate", "expire"},
           NEW otherwise \in {"save", "idle"}, SelectToMark(g, from, status, write, otherwise)
    PROVE  IInv'
<1>1. TypeOK
  BY DEF IInv
<1>a. sessions[g] = {} /\ g \notin members /\ user[g].kind # "none"
  BY <1>1 DEF IInv, TypeOK, IssueInStep, SelectToMark, Issuing
<1>b. PICK new \in Issue :
        /\ issue' = [issue EXCEPT ![g] = new]
        /\ new.pc \in {"activate", "expire"} => new.copy.kind = "guest"
        /\ new.copy.status = "none" <=> new.copy.kind # "guest"
  <2>1. CASE IsGuest(g)
    <3> DEFINE new == [pc |-> write, copy |-> Marked(status)]
    <3>1. new \in Issue /\ new.copy.kind = "guest" /\ new.copy.status # "none"
      BY <1>1, <1>a, Rows, States DEF Status, Marked
    <3>2. QED
      BY <2>1, <3>1 DEF SelectToMark
  <2>2. CASE ~IsGuest(g)
    <3> DEFINE new == [NoIssue EXCEPT !.pc = otherwise]
    <3>1. /\ new \in Issue /\ new.pc \notin {"activate", "expire"}
          /\ new.copy.kind = "none" /\ new.copy.status = "none"
      BY <1>1, <1>a, States DEF NoIssue, Account
    <3>2. QED
      BY <2>2, <3>1 DEF SelectToMark, IssueGoto
  <2>3. QED
    BY <2>1, <2>2
<1>c. stamp' \in Nat
  BY <1>1, <1>a, <1>b DEF TypeOK, SelectToMark
<1>2. TypeOK'
  BY <1>1, <1>a, <1>b, <1>c DEF TypeOK, SelectToMark
<1>3. RequestInStep'
  BY <1>1, <1>a, <1>b, <1>c DEF IInv, RequestInStep, SelectToMark
<1>4. LockInStep'
  BY <1>1, <1>a, <1>b, <1>c DEF IInv, LockInStep, Locked, Issuing, SelectToMark
<1>5. IssueInStep'
  BY <1>1, <1>a, <1>b, <1>c DEF IInv, IssueInStep, SelectToMark
<1>6. UpgradeInStep'
  BY <1>1, <1>a, <1>b, <1>c DEF IInv, UpgradeInStep, Locked, IsGuest, Candidate,
         SelectToMark
<1>7. TokensMatchAccount'
  BY <1>1, <1>a, <1>b, <1>c DEF IInv, TokensMatchAccount, Locked, SelectToMark
<1>8. ContentKeepsAccount'
  BY <1>1, <1>a, <1>b, <1>c DEF IInv, ContentKeepsAccount, SelectToMark
<1>9. QED
  BY <1>2, <1>3, <1>4, <1>5, <1>6, <1>7, <1>8 DEF IInv

\* Activation and expiry: the copy is written.
LEMMA WriteMarkedInv ==
    ASSUME IInv, NEW g \in Guests, NEW from \in {"activate", "expire"},
           NEW next \in {"save", "idle"}, WriteMarked(g, from, next)
    PROVE  IInv'
<1>1. TypeOK
  BY DEF IInv
<1>a. /\ issue[g].copy \in User /\ issue[g].copy.kind = "guest" /\ issue[g].copy.status # "none"
      /\ sessions[g] = {} /\ g \notin members /\ ~Locked(g) /\ user[g].kind # "none"
  BY <1>1 DEF IInv, TypeOK, IssueInStep, LockInStep, Issue, WriteMarked, Issuing
<1>2. TypeOK'
  <2>1. /\ user' \in [Guests -> User]
        /\ \A h \in Guests : user'[h].status = "none" <=> user'[h].kind # "guest"
    BY <1>1, <1>a, Rows DEF IInv, TypeOK, WriteMarked, IssueGoto, Issuing, rowVars
  <2>2. issue' \in [Guests -> Issue]
    BY <1>1, <1>a, Rows, States DEF IInv, TypeOK, WriteMarked, IssueGoto, Issuing, rowVars
  <2>3. client' \in [Clients -> RequestState]
    BY <1>1, <1>a, States DEF IInv, TypeOK, rowVars, WriteMarked, IssueGoto, Issuing
  <2>4. QED
    BY <1>1, <1>a, <2>1, <2>2, <2>3 DEF IInv, TypeOK, WriteMarked, IssueGoto, Issuing,
           rowVars
<1>3. RequestInStep'
  BY <1>1, <1>a DEF IInv, RequestInStep, WriteMarked, IssueGoto, Issuing, rowVars
<1>4. LockInStep'
  BY <1>1, <1>a DEF IInv, LockInStep, Locked, WriteMarked, IssueGoto, Issuing, rowVars
<1>5. IssueInStep'
  BY <1>1, <1>a DEF IInv, IssueInStep, RequestInStep, LockInStep, UpgradeInStep, TypeOK,
         Tokens, Account, Marked, NoIssue, NoRequest, Issue, RequestState, rowVars,
         Locked, IsGuest, Upgrading, WriteMarked, IssueGoto, Issuing
<1>6. UpgradeInStep'
  BY <1>1, <1>a DEF IInv, UpgradeInStep, Locked, IsGuest, Candidate, WriteMarked,
         IssueGoto, Issuing, rowVars
<1>7. TokensMatchAccount'
  BY <1>1, <1>a DEF IInv, TokensMatchAccount, Locked, WriteMarked, IssueGoto, Issuing,
         rowVars
<1>8. ContentKeepsAccount'
  BY <1>1, <1>a DEF IInv, ContentKeepsAccount, WriteMarked, IssueGoto, Issuing, rowVars
<1>9. QED
  BY <1>2, <1>3, <1>4, <1>5, <1>6, <1>7, <1>8 DEF IInv

\* The first session.
LEMMA SaveGuestSessionInv ==
    ASSUME IInv, NEW g \in Guests, SaveGuestSession(g)
    PROVE  IInv'
<1>1. TypeOK
  BY DEF IInv
<1>2. TypeOK'
  <2>1. /\ user' \in [Guests -> User]
        /\ \A h \in Guests : user'[h].status = "none" <=> user'[h].kind # "guest"
    BY <1>1, Rows DEF IInv, TypeOK, rowVars, SaveGuestSession, IssueGoto, Issuing
  <2>2. issue' \in [Guests -> Issue]
    BY <1>1, Rows, States DEF IInv, TypeOK, SaveGuestSession, IssueGoto, Issuing, rowVars
  <2>3. client' \in [Clients -> RequestState]
    BY <1>1, States DEF IInv, TypeOK, rowVars, SaveGuestSession, IssueGoto, Issuing
  <2>4. QED
    BY <1>1, <2>1, <2>2, <2>3 DEF IInv, TypeOK, rowVars, Tokens, Candidate,
           SaveGuestSession, IssueGoto, Issuing
<1>3. RequestInStep'
  BY <1>1 DEF IInv, RequestInStep, SaveGuestSession, IssueGoto, Issuing, rowVars
<1>4. LockInStep'
  BY <1>1 DEF IInv, LockInStep, Locked, SaveGuestSession, IssueGoto, Issuing, rowVars
<1>5. IssueInStep'
  BY <1>1 DEF IInv, IssueInStep, RequestInStep, LockInStep, UpgradeInStep, TypeOK, Tokens,
         Account, Marked, NoIssue, NoRequest, Issue, RequestState, rowVars, Locked,
         IsGuest, Upgrading, SaveGuestSession, IssueGoto, Issuing
<1>6. UpgradeInStep'
  BY <1>1 DEF IInv, UpgradeInStep, Locked, IsGuest, Candidate, SaveGuestSession,
         IssueGoto, Issuing, rowVars
<1>7. TokensMatchAccount'
  BY <1>1 DEF IInv, TokensMatchAccount, UpgradeInStep, RequestInStep, LockInStep,
         IssueInStep, TypeOK, Tokens, Account, Marked, RequestState, Upgrading, rowVars,
         Locked, IsGuest, Candidate, SaveGuestSession, IssueGoto, Issuing
<1>8. ContentKeepsAccount'
  BY <1>1 DEF IInv, ContentKeepsAccount, SaveGuestSession, IssueGoto, Issuing, rowVars
<1>9. QED
  BY <1>2, <1>3, <1>4, <1>5, <1>6, <1>7, <1>8 DEF IInv

\* The first session cannot be saved.
LEMMA SaveFailsInv ==
    ASSUME IInv, NEW g \in Guests, SaveGuestSessionFails(g)
    PROVE  IInv'
<1>1. TypeOK
  BY DEF IInv
<1>2. TypeOK'
  <2>1. /\ user' \in [Guests -> User]
        /\ \A h \in Guests : user'[h].status = "none" <=> user'[h].kind # "guest"
    BY <1>1, Rows DEF IInv, TypeOK, rowVars, SaveGuestSessionFails, IssueGoto, Issuing,
           Fail
  <2>2. issue' \in [Guests -> Issue]
    BY <1>1, Rows, States DEF IInv, TypeOK, SaveGuestSessionFails, IssueGoto, Issuing,
           Fail, rowVars
  <2>3. client' \in [Clients -> RequestState]
    BY <1>1, States DEF IInv, TypeOK, rowVars, SaveGuestSessionFails, IssueGoto, Issuing,
           Fail
  <2>4. QED
    BY <1>1, <2>1, <2>2, <2>3 DEF IInv, TypeOK, SaveGuestSessionFails, IssueGoto, Issuing,
           Fail, rowVars
<1>3. RequestInStep'
  BY <1>1 DEF IInv, RequestInStep, SaveGuestSessionFails, IssueGoto, Issuing, Fail,
         rowVars
<1>4. LockInStep'
  BY <1>1 DEF IInv, LockInStep, Locked, SaveGuestSessionFails, IssueGoto, Issuing, Fail,
         rowVars
<1>5. IssueInStep'
  BY <1>1 DEF IInv, IssueInStep, RequestInStep, LockInStep, UpgradeInStep, TypeOK, Tokens,
         Account, Marked, NoIssue, NoRequest, Issue, RequestState, rowVars, Locked,
         IsGuest, Upgrading, SaveGuestSessionFails, IssueGoto, Issuing, Fail
<1>6. UpgradeInStep'
  BY <1>1 DEF IInv, UpgradeInStep, Locked, IsGuest, Candidate, SaveGuestSessionFails,
         IssueGoto, Issuing, Fail, rowVars
<1>7. TokensMatchAccount'
  BY <1>1 DEF IInv, TokensMatchAccount, Locked, SaveGuestSessionFails, IssueGoto, Issuing,
         Fail, rowVars
<1>8. ContentKeepsAccount'
  BY <1>1 DEF IInv, ContentKeepsAccount, SaveGuestSessionFails, IssueGoto, Issuing, Fail,
         rowVars
<1>9. QED
  BY <1>2, <1>3, <1>4, <1>5, <1>6, <1>7, <1>8 DEF IInv

\* Another statement of the chain fails.
LEMMA IssueFailsInv ==
    ASSUME IInv, NEW g \in Guests, IssueFails(g)
    PROVE  IInv'
<1>1. TypeOK
  BY DEF IInv
<1>2. TypeOK'
  <2>1. /\ user' \in [Guests -> User]
        /\ \A h \in Guests : user'[h].status = "none" <=> user'[h].kind # "guest"
    BY <1>1, Rows DEF IInv, TypeOK, rowVars, IssueFails, IssueGoto, Issuing, Fail
  <2>2. issue' \in [Guests -> Issue]
    BY <1>1, Rows, States DEF IInv, TypeOK, IssueFails, IssueGoto, Issuing, Fail, rowVars
  <2>3. client' \in [Clients -> RequestState]
    BY <1>1, States DEF IInv, TypeOK, rowVars, IssueFails, IssueGoto, Issuing, Fail
  <2>4. QED
    BY <1>1, <2>1, <2>2, <2>3 DEF IInv, TypeOK, IssueFails, IssueGoto, Issuing, Fail,
           rowVars
<1>3. RequestInStep'
  BY <1>1 DEF IInv, RequestInStep, IssueFails, IssueGoto, Issuing, Fail, rowVars
<1>4. LockInStep'
  BY <1>1 DEF IInv, LockInStep, Locked, IssueFails, IssueGoto, Issuing, Fail, rowVars
<1>5. IssueInStep'
  BY <1>1 DEF IInv, IssueInStep, RequestInStep, LockInStep, UpgradeInStep, TypeOK, Tokens,
         Account, Marked, NoIssue, NoRequest, Issue, RequestState, rowVars, Locked,
         IsGuest, Upgrading, IssueFails, IssueGoto, Issuing, Fail
<1>6. UpgradeInStep'
  BY <1>1 DEF IInv, UpgradeInStep, Locked, IsGuest, Candidate, IssueFails, IssueGoto,
         Issuing, Fail, rowVars
<1>7. TokensMatchAccount'
  BY <1>1 DEF IInv, TokensMatchAccount, Locked, IssueFails, IssueGoto, Issuing, Fail,
         rowVars
<1>8. ContentKeepsAccount'
  BY <1>1 DEF IInv, ContentKeepsAccount, IssueFails, IssueGoto, Issuing, Fail, rowVars
<1>9. QED
  BY <1>2, <1>3, <1>4, <1>5, <1>6, <1>7, <1>8 DEF IInv

\* The end of a session.
LEMMA EndSessionInv ==
    ASSUME IInv, NEW g \in Guests, NEW t \in Tokens, EndSession(g, t)
    PROVE  IInv'
<1>1. TypeOK
  BY DEF IInv
<1>2. TypeOK'
  <2>1. /\ user' \in [Guests -> User]
        /\ \A h \in Guests : user'[h].status = "none" <=> user'[h].kind # "guest"
    BY <1>1, Rows DEF IInv, TypeOK, rowVars, EndSession
  <2>2. issue' \in [Guests -> Issue]
    BY <1>1, Rows, States DEF IInv, TypeOK, rowVars, EndSession
  <2>3. client' \in [Clients -> RequestState]
    BY <1>1, States DEF IInv, TypeOK, rowVars, EndSession
  <2>4. QED
    BY <1>1, <2>1, <2>2, <2>3 DEF IInv, TypeOK, EndSession, rowVars
<1>3. RequestInStep'
  BY <1>1 DEF IInv, RequestInStep, EndSession, rowVars
<1>4. LockInStep'
  BY <1>1 DEF IInv, LockInStep, Locked, EndSession, rowVars
<1>5. IssueInStep'
  BY <1>1 DEF IInv, IssueInStep, EndSession, rowVars
<1>6. UpgradeInStep'
  BY <1>1 DEF IInv, UpgradeInStep, Locked, IsGuest, Candidate, EndSession, rowVars
<1>7. TokensMatchAccount'
  BY <1>1 DEF IInv, TokensMatchAccount, Locked, EndSession, rowVars
<1>8. ContentKeepsAccount'
  BY <1>1 DEF IInv, ContentKeepsAccount, EndSession, rowVars
<1>9. QED
  BY <1>2, <1>3, <1>4, <1>5, <1>6, <1>7, <1>8 DEF IInv

\* A request is let in.
LEMMA ValidateInv ==
    ASSUME IInv, NEW c \in Clients, NEW g \in Guests, NEW t \in Tokens, ValidateTokenToId(c, g, t)
    PROVE  IInv'
<1>1. TypeOK
  BY DEF IInv
<1>2. TypeOK'
  <2>1. /\ user' \in [Guests -> User]
        /\ \A h \in Guests : user'[h].status = "none" <=> user'[h].kind # "guest"
    BY <1>1, Rows DEF IInv, TypeOK, rowVars, ValidateTokenToId
  <2>2. issue' \in [Guests -> Issue]
    BY <1>1, Rows, States DEF IInv, TypeOK, rowVars, ValidateTokenToId
  <2>3. client' \in [Clients -> RequestState]
    BY <1>1, States DEF IInv, TypeOK, ValidateTokenToId, rowVars
  <2>4. QED
    BY <1>1, <2>1, <2>2, <2>3 DEF IInv, TypeOK, ValidateTokenToId, rowVars
<1>3. RequestInStep'
  BY <1>1 DEF IInv, RequestInStep, LockInStep, TypeOK, RequestState, NoRequest, Upgrading,
         rowVars, Locked, ValidateTokenToId
<1>4. LockInStep'
  BY <1>1 DEF IInv, RequestInStep, LockInStep, IssueInStep, TypeOK, RequestState,
         NoRequest, Upgrading, rowVars, Locked, Tokens, Account, Marked, IsGuest,
         ValidateTokenToId
<1>5. IssueInStep'
  BY <1>1 DEF IInv, IssueInStep, ValidateTokenToId, rowVars
<1>6. UpgradeInStep'
  BY <1>1 DEF IInv, UpgradeInStep, RequestInStep, LockInStep, IssueInStep,
         TokensMatchAccount, TypeOK, Tokens, Account, Marked, NoRequest, RequestState,
         Upgrading, rowVars, Locked, IsGuest, Candidate, ValidateTokenToId
<1>7. TokensMatchAccount'
  BY <1>1 DEF IInv, TokensMatchAccount, Locked, ValidateTokenToId, rowVars
<1>8. ContentKeepsAccount'
  BY <1>1 DEF IInv, ContentKeepsAccount, ValidateTokenToId, rowVars
<1>9. QED
  BY <1>2, <1>3, <1>4, <1>5, <1>6, <1>7, <1>8 DEF IInv

\* A request that writes content.
LEMMA WriteInv ==
    ASSUME IInv, NEW c \in Clients, Write(c)
    PROVE  IInv'
<1>1. client[c].pc # "idle" /\ client[c].id \in Guests /\ client[c].token \in Tokens
  BY DEF IInv, TypeOK, RequestInStep, RequestState, Write, Finish
<1>a. /\ content' \subseteq Guests
      /\ \A h \in content' : h \in content \/ user[h].kind \in {"guest", "member"}
  BY <1>1 DEF IInv, TypeOK, Write, IsActiveGuest, IsGuest
<1>2. TypeOK'
  <2>1. /\ user' \in [Guests -> User]
        /\ \A h \in Guests : user'[h].status = "none" <=> user'[h].kind # "guest"
    BY <1>1, <1>a, Rows DEF IInv, TypeOK, rowVars, Write, Finish
  <2>2. issue' \in [Guests -> Issue]
    BY <1>1, <1>a, Rows, States DEF IInv, TypeOK, rowVars, Write, Finish
  <2>3. client' \in [Clients -> RequestState]
    BY <1>1, <1>a, States DEF IInv, TypeOK, Write, Finish, rowVars
  <2>4. QED
    BY <1>1, <1>a, <2>1, <2>2, <2>3 DEF IInv, TypeOK, Write, Finish, rowVars
<1>3. RequestInStep'
  BY <1>1, <1>a DEF IInv, RequestInStep, LockInStep, TypeOK, RequestState, NoRequest,
         Upgrading, rowVars, Locked, Write, Finish
<1>4. LockInStep'
  BY <1>1, <1>a DEF IInv, RequestInStep, LockInStep, IssueInStep, TypeOK, RequestState,
         NoRequest, Upgrading, rowVars, Locked, Tokens, Account, Marked, IsGuest, Write,
         Finish
<1>5. IssueInStep'
  BY <1>1, <1>a DEF IInv, IssueInStep, Write, Finish, rowVars
<1>6. UpgradeInStep'
  BY <1>1, <1>a DEF IInv, UpgradeInStep, RequestInStep, LockInStep, IssueInStep,
         TokensMatchAccount, TypeOK, Tokens, Account, Marked, NoRequest, RequestState,
         Upgrading, rowVars, Locked, IsGuest, Candidate, Write, Finish
<1>7. TokensMatchAccount'
  BY <1>1, <1>a DEF IInv, TokensMatchAccount, Locked, Write, Finish, rowVars
<1>8. ContentKeepsAccount'
  BY <1>1, <1>a DEF IInv, ContentKeepsAccount, Write, Finish, rowVars
<1>9. QED
  BY <1>2, <1>3, <1>4, <1>5, <1>6, <1>7, <1>8 DEF IInv

\* A member deletes the account.
LEMMA DeleteMeInv ==
    ASSUME IInv, NEW c \in Clients, DeleteMe(c)
    PROVE  IInv'
<1>1. client[c].pc # "idle" /\ client[c].id \in Guests /\ client[c].token \in Tokens
  BY DEF IInv, TypeOK, RequestInStep, RequestState, DeleteMe, Finish
<1>2. TypeOK'
  <2>1. /\ user' \in [Guests -> User]
        /\ \A h \in Guests : user'[h].status = "none" <=> user'[h].kind # "guest"
    BY <1>1, Rows DEF IInv, TypeOK, UpgradeInStep, LockInStep, RequestInStep, Locked,
           RequestState, IsGuest, Account, Marked, Kind, Status, rowVars, DeleteMe, Finish
  <2>2. issue' \in [Guests -> Issue]
    BY <1>1, Rows, States DEF IInv, TypeOK, rowVars, DeleteMe, Finish
  <2>3. client' \in [Clients -> RequestState]
    BY <1>1, States DEF IInv, TypeOK, DeleteMe, Finish, rowVars
  <2>4. QED
    BY <1>1, <2>1, <2>2, <2>3 DEF IInv, TypeOK, DeleteMe, Finish, rowVars
<1>3. RequestInStep'
  BY <1>1 DEF IInv, RequestInStep, LockInStep, TypeOK, RequestState, NoRequest, Upgrading,
         rowVars, Locked, DeleteMe, Finish
<1>4. LockInStep'
  BY <1>1 DEF IInv, RequestInStep, LockInStep, IssueInStep, TypeOK, RequestState,
         NoRequest, Upgrading, rowVars, Locked, Tokens, Account, Marked, IsGuest,
         DeleteMe, Finish
<1>5. IssueInStep'
  BY <1>1 DEF IInv, IssueInStep, RequestInStep, LockInStep, UpgradeInStep, TypeOK, Tokens,
         Account, Marked, NoIssue, NoRequest, Issue, RequestState, rowVars, Locked,
         IsGuest, Upgrading, DeleteMe, Finish
<1>6. UpgradeInStep'
  BY <1>1 DEF IInv, UpgradeInStep, RequestInStep, LockInStep, IssueInStep,
         TokensMatchAccount, TypeOK, Tokens, Account, Marked, NoRequest, RequestState,
         Upgrading, rowVars, Locked, IsGuest, Candidate, DeleteMe, Finish
<1>7. TokensMatchAccount'
  BY <1>1 DEF IInv, TokensMatchAccount, UpgradeInStep, RequestInStep, LockInStep,
         IssueInStep, TypeOK, Tokens, Account, Marked, RequestState, Upgrading, rowVars,
         Locked, IsGuest, Candidate, DeleteMe, Finish
<1>8. ContentKeepsAccount'
  BY <1>1 DEF IInv, ContentKeepsAccount, IssueInStep, RequestInStep, LockInStep,
         UpgradeInStep, TypeOK, Account, Marked, rowVars, Locked, IsGuest, IsActiveGuest,
         Upgrading, DeleteMe, Finish
<1>9. QED
  BY <1>2, <1>3, <1>4, <1>5, <1>6, <1>7, <1>8 DEF IInv

\* An upgrade takes the lock.
LEMMA UpgradeBeginInv ==
    ASSUME IInv, NEW c \in Clients, UpgradeBegin(c)
    PROVE  IInv'
<1>1. client[c].pc # "idle" /\ client[c].id \in Guests /\ client[c].token \in Tokens
  BY DEF IInv, TypeOK, RequestInStep, RequestState, UpgradeBegin
<1>2. TypeOK'
  <2>1. /\ user' \in [Guests -> User]
        /\ \A h \in Guests : user'[h].status = "none" <=> user'[h].kind # "guest"
    BY <1>1, Rows DEF IInv, TypeOK, rowVars, UpgradeBegin
  <2>2. issue' \in [Guests -> Issue]
    BY <1>1, Rows, States DEF IInv, TypeOK, rowVars, UpgradeBegin
  <2>3. client' \in [Clients -> RequestState]
    BY <1>1, States DEF IInv, TypeOK, Upgrading, rowVars, UpgradeBegin
  <2>4. QED
    BY <1>1, <2>1, <2>2, <2>3 DEF IInv, TypeOK, rowVars, Tokens, Candidate, UpgradeBegin
<1>3. RequestInStep'
  BY <1>1 DEF IInv, RequestInStep, LockInStep, TypeOK, RequestState, NoRequest, Upgrading,
         rowVars, Locked, UpgradeBegin
<1>4. LockInStep'
  BY <1>1 DEF IInv, RequestInStep, LockInStep, IssueInStep, TypeOK, RequestState,
         NoRequest, Upgrading, rowVars, Locked, Tokens, Account, Marked, IsGuest,
         UpgradeBegin
<1>5. IssueInStep'
  BY <1>1 DEF IInv, IssueInStep, UpgradeBegin, rowVars
<1>6. UpgradeInStep'
  BY <1>1 DEF IInv, UpgradeInStep, RequestInStep, LockInStep, IssueInStep,
         TokensMatchAccount, TypeOK, Tokens, Account, Marked, NoRequest, RequestState,
         Upgrading, rowVars, Locked, IsGuest, Candidate, UpgradeBegin
<1>7. TokensMatchAccount'
  BY <1>1 DEF IInv, TokensMatchAccount, UpgradeInStep, RequestInStep, LockInStep,
         IssueInStep, TypeOK, Tokens, Account, Marked, RequestState, Upgrading, rowVars,
         Locked, IsGuest, Candidate, UpgradeBegin
<1>8. ContentKeepsAccount'
  BY <1>1 DEF IInv, ContentKeepsAccount, UpgradeBegin, rowVars
<1>9. QED
  BY <1>2, <1>3, <1>4, <1>5, <1>6, <1>7, <1>8 DEF IInv

\* The account becomes a member's.
LEMMA UpgradeCommitInv ==
    ASSUME IInv, NEW c \in Clients, UpgradeCommit(c)
    PROVE  IInv'
<1>1. client[c].pc # "idle" /\ client[c].id \in Guests /\ client[c].token \in Tokens
  BY DEF IInv, TypeOK, RequestInStep, RequestState, UpgradeCommit
<1>2. TypeOK'
  <2>1. /\ user' \in [Guests -> User]
        /\ \A h \in Guests : user'[h].status = "none" <=> user'[h].kind # "guest"
    BY <1>1, Rows DEF IInv, TypeOK, UpgradeInStep, LockInStep, RequestInStep, Locked,
           RequestState, IsGuest, Account, Marked, Kind, Status, rowVars, UpgradeCommit
  <2>2. issue' \in [Guests -> Issue]
    BY <1>1, Rows, States DEF IInv, TypeOK, rowVars, UpgradeCommit
  <2>3. client' \in [Clients -> RequestState]
    BY <1>1, States DEF IInv, TypeOK, UpgradeCommit, rowVars
  <2>4. QED
    BY <1>1, <2>1, <2>2, <2>3 DEF IInv, TypeOK, UpgradeCommit, rowVars
<1>3. RequestInStep'
  BY <1>1 DEF IInv, RequestInStep, LockInStep, TypeOK, RequestState, NoRequest, Upgrading,
         rowVars, Locked, UpgradeCommit
<1>4. LockInStep'
  BY <1>1 DEF IInv, RequestInStep, LockInStep, IssueInStep, TypeOK, RequestState,
         NoRequest, Upgrading, rowVars, Locked, Tokens, Account, Marked, IsGuest,
         UpgradeCommit
<1>5. IssueInStep'
  BY <1>1 DEF IInv, IssueInStep, RequestInStep, LockInStep, UpgradeInStep, TypeOK, Tokens,
         Account, Marked, NoIssue, NoRequest, Issue, RequestState, rowVars, Locked,
         IsGuest, Upgrading, UpgradeCommit
<1>6. UpgradeInStep'
  BY <1>1 DEF IInv, UpgradeInStep, RequestInStep, LockInStep, IssueInStep,
         TokensMatchAccount, TypeOK, Tokens, Account, Marked, NoRequest, RequestState,
         Upgrading, rowVars, Locked, IsGuest, Candidate, UpgradeCommit
<1>7. TokensMatchAccount'
  BY <1>1 DEF IInv, TokensMatchAccount, UpgradeInStep, RequestInStep, LockInStep,
         IssueInStep, TypeOK, Tokens, Account, Marked, RequestState, Upgrading, rowVars,
         Locked, IsGuest, Candidate, UpgradeCommit
<1>8. ContentKeepsAccount'
  BY <1>1 DEF IInv, ContentKeepsAccount, UpgradeCommit, rowVars
<1>9. QED
  BY <1>2, <1>3, <1>4, <1>5, <1>6, <1>7, <1>8 DEF IInv

\* The account stays as it is.
LEMMA UpgradeRejectedInv ==
    ASSUME IInv, NEW c \in Clients, UpgradeRejected(c)
    PROVE  IInv'
<1>1. client[c].pc # "idle" /\ client[c].id \in Guests /\ client[c].token \in Tokens
  BY DEF IInv, TypeOK, RequestInStep, RequestState, UpgradeRejected
<1>2. TypeOK'
  <2>1. /\ user' \in [Guests -> User]
        /\ \A h \in Guests : user'[h].status = "none" <=> user'[h].kind # "guest"
    BY <1>1, Rows DEF IInv, TypeOK, rowVars, UpgradeRejected
  <2>2. issue' \in [Guests -> Issue]
    BY <1>1, Rows, States DEF IInv, TypeOK, rowVars, UpgradeRejected
  <2>3. client' \in [Clients -> RequestState]
    BY <1>1, States DEF IInv, TypeOK, Upgrading, rowVars, UpgradeRejected
  <2>4. QED
    BY <1>1, <2>1, <2>2, <2>3 DEF IInv, TypeOK, UpgradeRejected, rowVars
<1>3. RequestInStep'
  BY <1>1 DEF IInv, RequestInStep, LockInStep, TypeOK, RequestState, NoRequest, Upgrading,
         rowVars, Locked, UpgradeRejected
<1>4. LockInStep'
  BY <1>1 DEF IInv, RequestInStep, LockInStep, IssueInStep, TypeOK, RequestState,
         NoRequest, Upgrading, rowVars, Locked, Tokens, Account, Marked, IsGuest,
         UpgradeRejected
<1>5. IssueInStep'
  BY <1>1 DEF IInv, IssueInStep, UpgradeRejected, rowVars
<1>6. UpgradeInStep'
  BY <1>1 DEF IInv, UpgradeInStep, Locked, IsGuest, Candidate, UpgradeRejected, rowVars
<1>7. TokensMatchAccount'
  BY <1>1 DEF IInv, TokensMatchAccount, Locked, UpgradeRejected, rowVars
<1>8. ContentKeepsAccount'
  BY <1>1 DEF IInv, ContentKeepsAccount, UpgradeRejected, rowVars
<1>9. QED
  BY <1>2, <1>3, <1>4, <1>5, <1>6, <1>7, <1>8 DEF IInv

\* The candidate token of a rejected upgrade is dropped.
LEMMA DropCandidateInv ==
    ASSUME IInv, NEW c \in Clients, DropCandidate(c)
    PROVE  IInv'
<1>1. client[c].pc # "idle" /\ client[c].id \in Guests /\ client[c].token \in Tokens
  BY DEF IInv, TypeOK, RequestInStep, RequestState, DropCandidate, DeleteAndUnlock,
         Unlock, Finish, Fail
<1>a. /\ client' = [client EXCEPT ![c] = NoRequest]
      /\ lock' = [lock EXCEPT ![client[c].id] = NoClient]
  BY DEF DropCandidate, DeleteAndUnlock, Unlock, Finish
<1>b. /\ sessions' \in [Guests -> SUBSET Tokens]
      /\ \A h \in Guests : sessions'[h] \subseteq sessions[h]
  <2>1. sessions \in [Guests -> SUBSET Tokens]
    BY DEF IInv, TypeOK
  <2>2. sessions' = sessions \/ \E t : sessions' = [sessions EXCEPT ![client[c].id] = @ \ {t}]
    BY DEF DropCandidate, DeleteAndUnlock
  <2>3. QED
    BY <2>1, <2>2
<1>2. TypeOK'
  <2>1. client' \in [Clients -> RequestState] /\ lock' \in [Guests -> Clients \cup {NoClient}]
    BY <1>a, States DEF IInv, TypeOK
  <2>2. broken' \subseteq Guests /\ faults' \in 0..MaxFaults
    BY <1>1 DEF IInv, TypeOK, DropCandidate, Fail
  <2>3. QED
    BY <1>b, <2>1, <2>2 DEF IInv, TypeOK, DropCandidate, rowVars
<1>3. RequestInStep'
  BY <1>1, <1>a, <1>b DEF IInv, RequestInStep, LockInStep, TypeOK, RequestState,
         NoRequest, Upgrading, rowVars, Locked, DropCandidate, DeleteAndUnlock, Unlock,
         Finish, Fail
<1>4. LockInStep'
  BY <1>1, <1>a, <1>b DEF IInv, RequestInStep, LockInStep, IssueInStep, TypeOK,
         RequestState, NoRequest, Upgrading, rowVars, Locked, Tokens, Account, Marked,
         IsGuest, DropCandidate, DeleteAndUnlock, Unlock, Finish, Fail
<1>5. IssueInStep'
  BY <1>1, <1>a, <1>b DEF IInv, IssueInStep, DropCandidate, DeleteAndUnlock, Unlock,
         Finish, Fail, rowVars
<1>6. UpgradeInStep'
  BY <1>1, <1>a, <1>b DEF IInv, UpgradeInStep, RequestInStep, LockInStep, IssueInStep,
         TokensMatchAccount, TypeOK, Tokens, Account, Marked, NoRequest, RequestState,
         Upgrading, rowVars, Locked, IsGuest, Candidate, DropCandidate, DeleteAndUnlock,
         Unlock, Finish, Fail
<1>7. TokensMatchAccount'
  BY <1>1, <1>a, <1>b DEF IInv, TokensMatchAccount, UpgradeInStep, RequestInStep,
         LockInStep, IssueInStep, TypeOK, Tokens, Account, Marked, RequestState,
         Upgrading, rowVars, Locked, IsGuest, Candidate, DropCandidate, DeleteAndUnlock,
         Unlock, Finish, Fail
<1>8. ContentKeepsAccount'
  BY <1>1, <1>a, <1>b DEF IInv, ContentKeepsAccount, DropCandidate, DeleteAndUnlock,
         Unlock, Finish, Fail, rowVars
<1>9. QED
  BY <1>2, <1>3, <1>4, <1>5, <1>6, <1>7, <1>8 DEF IInv

\* The token of the guest is dropped.
LEMMA DropCurrentInv ==
    ASSUME IInv, NEW c \in Clients, DropCurrent(c)
    PROVE  IInv'
<1>1. client[c].pc # "idle" /\ client[c].id \in Guests /\ client[c].token \in Tokens
  BY DEF IInv, TypeOK, RequestInStep, RequestState, DropCurrent, DeleteAndUnlock, Unlock,
         Finish
<1>2. TypeOK'
  <2>1. /\ user' \in [Guests -> User]
        /\ \A h \in Guests : user'[h].status = "none" <=> user'[h].kind # "guest"
    BY <1>1, Rows DEF IInv, TypeOK, rowVars, DropCurrent, DeleteAndUnlock, Unlock, Finish
  <2>2. issue' \in [Guests -> Issue]
    BY <1>1, Rows, States DEF IInv, TypeOK, rowVars, DropCurrent, DeleteAndUnlock, Unlock,
           Finish
  <2>3. client' \in [Clients -> RequestState]
    BY <1>1, States DEF IInv, TypeOK, DropCurrent, DeleteAndUnlock, Unlock, Finish,
           rowVars
  <2>4. QED
    BY <1>1, <2>1, <2>2, <2>3 DEF IInv, TypeOK, DropCurrent, DeleteAndUnlock, Unlock,
           Finish, rowVars
<1>3. RequestInStep'
  BY <1>1 DEF IInv, RequestInStep, LockInStep, TypeOK, RequestState, NoRequest, Upgrading,
         rowVars, Locked, DropCurrent, DeleteAndUnlock, Unlock, Finish
<1>4. LockInStep'
  BY <1>1 DEF IInv, RequestInStep, LockInStep, IssueInStep, TypeOK, RequestState,
         NoRequest, Upgrading, rowVars, Locked, Tokens, Account, Marked, IsGuest,
         DropCurrent, DeleteAndUnlock, Unlock, Finish
<1>5. IssueInStep'
  BY <1>1 DEF IInv, IssueInStep, DropCurrent, DeleteAndUnlock, Unlock, Finish, rowVars
<1>6. UpgradeInStep'
  BY <1>1 DEF IInv, UpgradeInStep, RequestInStep, LockInStep, IssueInStep,
         TokensMatchAccount, TypeOK, Tokens, Account, Marked, NoRequest, RequestState,
         Upgrading, rowVars, Locked, IsGuest, Candidate, DropCurrent, DeleteAndUnlock,
         Unlock, Finish
<1>7. TokensMatchAccount'
  BY <1>1 DEF IInv, TokensMatchAccount, UpgradeInStep, RequestInStep, LockInStep,
         IssueInStep, TypeOK, Tokens, Account, Marked, RequestState, Upgrading, rowVars,
         Locked, IsGuest, Candidate, DropCurrent, DeleteAndUnlock, Unlock, Finish
<1>8. ContentKeepsAccount'
  BY <1>1 DEF IInv, ContentKeepsAccount, DropCurrent, DeleteAndUnlock, Unlock, Finish,
         rowVars
<1>9. QED
  BY <1>2, <1>3, <1>4, <1>5, <1>6, <1>7, <1>8 DEF IInv

\* It could not be dropped.
LEMMA DropCurrentFailsInv ==
    ASSUME IInv, NEW c \in Clients, DropCurrentFails(c)
    PROVE  IInv'
<1>1. client[c].pc # "idle" /\ client[c].id \in Guests /\ client[c].token \in Tokens
  BY DEF IInv, TypeOK, RequestInStep, RequestState, DropCurrentFails, Fail
<1>2. TypeOK'
  <2>1. /\ user' \in [Guests -> User]
        /\ \A h \in Guests : user'[h].status = "none" <=> user'[h].kind # "guest"
    BY <1>1, Rows DEF IInv, TypeOK, rowVars, DropCurrentFails, Fail
  <2>2. issue' \in [Guests -> Issue]
    BY <1>1, Rows, States DEF IInv, TypeOK, rowVars, DropCurrentFails, Fail
  <2>3. client' \in [Clients -> RequestState]
    BY <1>1, States DEF IInv, TypeOK, Upgrading, rowVars, DropCurrentFails, Fail
  <2>4. QED
    BY <1>1, <2>1, <2>2, <2>3 DEF IInv, TypeOK, DropCurrentFails, Fail, rowVars
<1>3. RequestInStep'
  BY <1>1 DEF IInv, RequestInStep, LockInStep, TypeOK, RequestState, NoRequest, Upgrading,
         rowVars, Locked, DropCurrentFails, Fail
<1>4. LockInStep'
  BY <1>1 DEF IInv, RequestInStep, LockInStep, IssueInStep, TypeOK, RequestState,
         NoRequest, Upgrading, rowVars, Locked, Tokens, Account, Marked, IsGuest,
         DropCurrentFails, Fail
<1>5. IssueInStep'
  BY <1>1 DEF IInv, IssueInStep, DropCurrentFails, Fail, rowVars
<1>6. UpgradeInStep'
  BY <1>1 DEF IInv, UpgradeInStep, Locked, IsGuest, Candidate, DropCurrentFails, Fail,
         rowVars
<1>7. TokensMatchAccount'
  BY <1>1 DEF IInv, TokensMatchAccount, Locked, DropCurrentFails, Fail, rowVars
<1>8. ContentKeepsAccount'
  BY <1>1 DEF IInv, ContentKeepsAccount, DropCurrentFails, Fail, rowVars
<1>9. QED
  BY <1>2, <1>3, <1>4, <1>5, <1>6, <1>7, <1>8 DEF IInv

\* The rollback.
LEMMA UndoInv ==
    ASSUME IInv, NEW c \in Clients, Undo(c)
    PROVE  IInv'
<1>1. client[c].pc # "idle" /\ client[c].id \in Guests /\ client[c].token \in Tokens
  BY DEF IInv, TypeOK, RequestInStep, RequestState, Undo, DeleteAndUnlock, Unlock, Finish
<1>2. TypeOK'
  <2>1. /\ user' \in [Guests -> User]
        /\ \A h \in Guests : user'[h].status = "none" <=> user'[h].kind # "guest"
    BY <1>1, Rows DEF IInv, TypeOK, UpgradeInStep, LockInStep, RequestInStep, Locked,
           RequestState, IsGuest, Account, Marked, Kind, Status, rowVars, Undo,
           DeleteAndUnlock, Unlock, Finish
  <2>2. issue' \in [Guests -> Issue]
    BY <1>1, Rows, States DEF IInv, TypeOK, rowVars, Undo, DeleteAndUnlock, Unlock, Finish
  <2>3. client' \in [Clients -> RequestState]
    BY <1>1, States DEF IInv, TypeOK, Undo, DeleteAndUnlock, Unlock, Finish, rowVars
  <2>4. QED
    BY <1>1, <2>1, <2>2, <2>3 DEF IInv, TypeOK, Undo, DeleteAndUnlock, Unlock, Finish,
           rowVars
<1>3. RequestInStep'
  BY <1>1 DEF IInv, RequestInStep, LockInStep, TypeOK, RequestState, NoRequest, Upgrading,
         rowVars, Locked, Undo, DeleteAndUnlock, Unlock, Finish
<1>4. LockInStep'
  BY <1>1 DEF IInv, RequestInStep, LockInStep, IssueInStep, TypeOK, RequestState,
         NoRequest, Upgrading, rowVars, Locked, Tokens, Account, Marked, IsGuest, Undo,
         DeleteAndUnlock, Unlock, Finish
<1>5. IssueInStep'
  BY <1>1 DEF IInv, IssueInStep, RequestInStep, LockInStep, UpgradeInStep, TypeOK, Tokens,
         Account, Marked, NoIssue, NoRequest, Issue, RequestState, rowVars, Locked,
         IsGuest, Upgrading, Undo, DeleteAndUnlock, Unlock, Finish
<1>6. UpgradeInStep'
  BY <1>1 DEF IInv, UpgradeInStep, RequestInStep, LockInStep, IssueInStep,
         TokensMatchAccount, TypeOK, Tokens, Account, Marked, NoRequest, RequestState,
         Upgrading, rowVars, Locked, IsGuest, Candidate, Undo, DeleteAndUnlock, Unlock,
         Finish
<1>7. TokensMatchAccount'
  BY <1>1 DEF IInv, TokensMatchAccount, UpgradeInStep, RequestInStep, LockInStep,
         IssueInStep, TypeOK, Tokens, Account, Marked, RequestState, Upgrading, rowVars,
         Locked, IsGuest, Candidate, Undo, DeleteAndUnlock, Unlock, Finish
<1>8. ContentKeepsAccount'
  BY <1>1 DEF IInv, ContentKeepsAccount, IssueInStep, RequestInStep, LockInStep,
         UpgradeInStep, TypeOK, Account, Marked, rowVars, Locked, IsGuest, IsActiveGuest,
         Upgrading, Undo, DeleteAndUnlock, Unlock, Finish
<1>9. QED
  BY <1>2, <1>3, <1>4, <1>5, <1>6, <1>7, <1>8 DEF IInv

\* The rollback fails.
LEMMA UndoFailsInv ==
    ASSUME IInv, NEW c \in Clients, UndoFails(c)
    PROVE  IInv'
<1>1. client[c].pc # "idle" /\ client[c].id \in Guests /\ client[c].token \in Tokens
  BY DEF IInv, TypeOK, RequestInStep, RequestState, UndoFails, Unlock, Finish, Fail
<1>a. /\ client[c].copy \in User /\ client[c].copy.kind = "guest" /\ client[c].copy.status # "none"
      /\ lock[client[c].id] = c
  BY <1>1, GuestsAssumption DEF IInv, TypeOK, UpgradeInStep, RequestInStep, LockInStep,
         Locked, RequestState, Upgrading, UndoFails
<1>b. user' = user \/ user' = [user EXCEPT ![client[c].id] = client[c].copy]
  BY DEF UndoFails
<1>c. /\ sessions' \in [Guests -> SUBSET Tokens]
      /\ \A h \in Guests : sessions'[h] \subseteq sessions[h]
  BY <1>1, <1>a, <1>b DEF IInv, TypeOK, UndoFails
<1>2. TypeOK'
  <2>1. /\ user' \in [Guests -> User]
        /\ \A h \in Guests : user'[h].status = "none" <=> user'[h].kind # "guest"
    <3>1. CASE user' = user
      BY <3>1 DEF IInv, TypeOK
    <3>2. CASE user' = [user EXCEPT ![client[c].id] = client[c].copy]
      BY <3>2, <1>1, <1>a, <1>b, <1>c DEF IInv, TypeOK
    <3>3. QED
      BY <1>b, <3>1, <3>2
  <2>2. client' \in [Clients -> RequestState]
    BY States DEF IInv, TypeOK, UndoFails, Finish
  <2>3. lock' \in [Guests -> Clients \cup {NoClient}] /\ broken' \subseteq Guests /\ faults' \in 0..MaxFaults
    BY <1>1, <1>a, <1>b, <1>c DEF IInv, TypeOK, UndoFails, Unlock, Fail
  <2>4. QED
    BY <1>c, <2>1, <2>2, <2>3 DEF IInv, TypeOK, UndoFails
<1>3. RequestInStep'
  BY <1>1, <1>a, <1>b, <1>c DEF IInv, RequestInStep, LockInStep, TypeOK, RequestState,
         NoRequest, Upgrading, rowVars, Locked, UndoFails, Unlock, Finish, Fail
<1>4. LockInStep'
  BY <1>1, <1>a, <1>b, <1>c DEF IInv, RequestInStep, LockInStep, IssueInStep, TypeOK,
         RequestState, NoRequest, Upgrading, rowVars, Locked, Tokens, Account, Marked,
         IsGuest, UndoFails, Unlock, Finish, Fail
<1>5. IssueInStep'
  BY <1>1, <1>a, <1>b, <1>c DEF IInv, IssueInStep, RequestInStep, LockInStep,
         UpgradeInStep, TypeOK, Tokens, Account, Marked, NoIssue, NoRequest, Issue,
         RequestState, rowVars, Locked, IsGuest, Upgrading, UndoFails, Unlock, Finish,
         Fail
<1>6. UpgradeInStep'
  BY <1>1, <1>a, <1>b, <1>c DEF IInv, UpgradeInStep, RequestInStep, LockInStep,
         IssueInStep, TokensMatchAccount, TypeOK, Tokens, Account, Marked, NoRequest,
         RequestState, Upgrading, rowVars, Locked, IsGuest, Candidate, UndoFails, Unlock,
         Finish, Fail
<1>7. TokensMatchAccount'
  BY <1>1, <1>a, <1>b, <1>c DEF IInv, TokensMatchAccount, UpgradeInStep, RequestInStep,
         LockInStep, IssueInStep, TypeOK, Tokens, Account, Marked, RequestState,
         Upgrading, rowVars, Locked, IsGuest, Candidate, UndoFails, Unlock, Finish, Fail
<1>8. ContentKeepsAccount'
  BY <1>1, <1>a, <1>b, <1>c DEF IInv, ContentKeepsAccount, IssueInStep, RequestInStep,
         LockInStep, UpgradeInStep, TypeOK, Account, Marked, rowVars, Locked, IsGuest,
         IsActiveGuest, Upgrading, UndoFails, Unlock, Finish, Fail
<1>9. QED
  BY <1>2, <1>3, <1>4, <1>5, <1>6, <1>7, <1>8 DEF IInv

\* The cleanup job selects accounts, or is cut short.
LEMMA SelectCandidatesInv ==
    ASSUME IInv, 
           SelectGuestCleanupCandidates \/
           CleanupFails
    PROVE  IInv'
<1>1. TypeOK
  BY DEF IInv
<1>a. /\ batch' \subseteq Guests /\ faults' \in 0..MaxFaults
      /\ UNCHANGED <<rowVars, sessions, issue, client, lock, tries, members, broken>>
  <2>1. CASE SelectGuestCleanupCandidates
    BY <1>1, <2>1 DEF TypeOK, SelectGuestCleanupCandidates, Eligible
  <2>2. CASE CleanupFails
    BY <1>1, <2>2 DEF TypeOK, CleanupFails, Fail
  <2>3. QED
    BY <2>1, <2>2
<1>2. TypeOK'
  BY <1>1, <1>a DEF TypeOK, rowVars
<1>3. RequestInStep'
  BY <1>1, <1>a DEF IInv, RequestInStep, rowVars
<1>4. LockInStep'
  BY <1>1, <1>a DEF IInv, LockInStep, Locked, rowVars
<1>5. IssueInStep'
  BY <1>1, <1>a DEF IInv, IssueInStep, rowVars
<1>6. UpgradeInStep'
  BY <1>1, <1>a DEF IInv, UpgradeInStep, Locked, IsGuest, Candidate, rowVars
<1>7. TokensMatchAccount'
  BY <1>1, <1>a DEF IInv, TokensMatchAccount, Locked, rowVars
<1>8. ContentKeepsAccount'
  BY <1>1, <1>a DEF IInv, ContentKeepsAccount, rowVars
<1>9. QED
  BY <1>2, <1>3, <1>4, <1>5, <1>6, <1>7, <1>8 DEF IInv

\* The cleanup job deletes an account.
LEMMA CleanupGuestInv ==
    ASSUME IInv, NEW g \in Guests, cleanupGuest(g)
    PROVE  IInv'
<1>1. TypeOK
  BY DEF IInv
<1>2. TypeOK'
  <2>1. /\ user' \in [Guests -> User]
        /\ \A h \in Guests : user'[h].status = "none" <=> user'[h].kind # "guest"
    BY <1>1, Rows DEF IInv, TypeOK, UpgradeInStep, LockInStep, RequestInStep, Locked,
           RequestState, IsGuest, Account, Marked, Kind, Status, rowVars, cleanupGuest,
           InUse
  <2>2. issue' \in [Guests -> Issue]
    BY <1>1, Rows, States DEF IInv, TypeOK, rowVars, cleanupGuest, InUse
  <2>3. client' \in [Clients -> RequestState]
    BY <1>1, States DEF IInv, TypeOK, rowVars, cleanupGuest, InUse
  <2>4. QED
    BY <1>1, <2>1, <2>2, <2>3 DEF IInv, TypeOK, cleanupGuest, InUse, rowVars
<1>3. RequestInStep'
  BY <1>1 DEF IInv, RequestInStep, cleanupGuest, InUse, rowVars
<1>4. LockInStep'
  BY <1>1 DEF IInv, LockInStep, Locked, cleanupGuest, InUse, rowVars
<1>5. IssueInStep'
  BY <1>1 DEF IInv, IssueInStep, RequestInStep, LockInStep, UpgradeInStep, TypeOK, Tokens,
         Account, Marked, NoIssue, NoRequest, Issue, RequestState, rowVars, Locked,
         IsGuest, Upgrading, cleanupGuest, InUse
<1>6. UpgradeInStep'
  BY <1>1 DEF IInv, UpgradeInStep, Locked, IsGuest, Candidate, cleanupGuest, InUse,
         rowVars
<1>7. TokensMatchAccount'
  BY <1>1 DEF IInv, TokensMatchAccount, Locked, cleanupGuest, InUse, rowVars
<1>8. ContentKeepsAccount'
  BY <1>1 DEF IInv, ContentKeepsAccount, cleanupGuest, InUse, rowVars
<1>9. QED
  BY <1>2, <1>3, <1>4, <1>5, <1>6, <1>7, <1>8 DEF IInv

\* Time goes on.
LEMMA TickInv ==
    ASSUME IInv, Tick
    PROVE  IInv'
<1>1. TypeOK
  BY DEF IInv
<1>a. \A h \in Guests :
        /\ user'[h] \in User /\ user'[h].kind = user[h].kind /\ user'[h].status = user[h].status
  BY <1>1, OlderRow DEF TypeOK, Tick
<1>b. \A h \in Guests :
        /\ issue'[h] \in Issue /\ issue'[h].pc = issue[h].pc
        /\ issue'[h].copy.kind = issue[h].copy.kind /\ issue'[h].copy.status = issue[h].copy.status
  <2> SUFFICES ASSUME NEW h \in Guests
               PROVE  /\ issue'[h] \in Issue /\ issue'[h].pc = issue[h].pc
                      /\ issue'[h].copy.kind = issue[h].copy.kind
                      /\ issue'[h].copy.status = issue[h].copy.status
    OBVIOUS
  <2>1. issue[h] \in Issue /\ issue'[h] = [issue[h] EXCEPT !.copy = Older(@)]
    BY <1>1, <1>a DEF TypeOK, Tick
  <2>2. /\ Older(issue[h].copy) \in User
        /\ Older(issue[h].copy).kind = issue[h].copy.kind
        /\ Older(issue[h].copy).status = issue[h].copy.status
    BY <2>1, OlderRow DEF Issue
  <2>3. QED
    BY <2>1, <2>2 DEF Issue
<1>c. \A c \in Clients :
        /\ client'[c] \in RequestState
        /\ client'[c].pc = client[c].pc /\ client'[c].id = client[c].id
        /\ client'[c].token = client[c].token
        /\ client'[c].copy.kind = client[c].copy.kind /\ client'[c].copy.status = client[c].copy.status
  <2> SUFFICES ASSUME NEW c \in Clients
               PROVE  /\ client'[c] \in RequestState
                      /\ client'[c].pc = client[c].pc /\ client'[c].id = client[c].id
                      /\ client'[c].token = client[c].token
                      /\ client'[c].copy.kind = client[c].copy.kind
                      /\ client'[c].copy.status = client[c].copy.status
    OBVIOUS
  <2>1. client[c] \in RequestState /\ client'[c] = [client[c] EXCEPT !.copy = Older(@)]
    BY <1>1, <1>a, <1>b DEF TypeOK, Tick
  <2>2. /\ Older(client[c].copy) \in User
        /\ Older(client[c].copy).kind = client[c].copy.kind
        /\ Older(client[c].copy).status = client[c].copy.status
    BY <2>1, OlderRow DEF RequestState
  <2>3. QED
    BY <2>1, <2>2 DEF RequestState
<1>d. /\ user' \in [Guests -> User] /\ issue' \in [Guests -> Issue]
      /\ client' \in [Clients -> RequestState]
  BY <1>1, <1>a, <1>b, <1>c DEF Tick
<1>e. UNCHANGED <<content, stamp, sessions, lock, batch, tries, faults, members, broken>>
  BY DEF Tick
<1>2. TypeOK'
  BY <1>1, <1>a, <1>b, <1>c, <1>d, <1>e DEF TypeOK
<1>3. RequestInStep'
  BY <1>1, <1>a, <1>b, <1>c, <1>d, <1>e DEF IInv, RequestInStep
<1>4. LockInStep'
  BY <1>1, <1>a, <1>b, <1>c, <1>d, <1>e DEF IInv, LockInStep, Locked, TypeOK
<1>5. IssueInStep'
  BY <1>1, <1>a, <1>b, <1>c, <1>d, <1>e DEF IInv, IssueInStep
<1>6. UpgradeInStep'
  BY <1>1, <1>a, <1>b, <1>c, <1>d, <1>e DEF IInv, UpgradeInStep, LockInStep, Locked,
         IsGuest, Candidate, TypeOK
<1>7. TokensMatchAccount'
  BY <1>1, <1>a, <1>b, <1>c, <1>d, <1>e DEF IInv, TokensMatchAccount, Locked
<1>8. ContentKeepsAccount'
  BY <1>1, <1>a, <1>b, <1>c, <1>d, <1>e DEF IInv, ContentKeepsAccount, TypeOK
<1>9. QED
  BY <1>2, <1>3, <1>4, <1>5, <1>6, <1>7, <1>8 DEF IInv

\* The process dies.
LEMMA CrashInv ==
    ASSUME IInv, Crash
    PROVE  IInv'
<1>1. TypeOK
  BY DEF IInv
<1>2. TypeOK'
  <2>1. /\ user' \in [Guests -> User]
        /\ \A h \in Guests : user'[h].status = "none" <=> user'[h].kind # "guest"
    BY <1>1, Rows DEF IInv, TypeOK, rowVars, Crash, Fail
  <2>2. issue' \in [Guests -> Issue]
    BY <1>1, Rows, States DEF IInv, TypeOK, Crash, Fail, rowVars
  <2>3. client' \in [Clients -> RequestState]
    BY <1>1, States DEF IInv, TypeOK, Crash, Fail, rowVars
  <2>4. QED
    BY <1>1, <2>1, <2>2, <2>3 DEF IInv, TypeOK, Crash, Fail, rowVars
<1>3. RequestInStep'
  BY <1>1 DEF IInv, RequestInStep, LockInStep, TypeOK, RequestState, NoRequest, Upgrading,
         rowVars, Locked, Crash, Fail
<1>4. LockInStep'
  BY <1>1 DEF IInv, LockInStep, Locked, Crash, Fail, rowVars
<1>5. IssueInStep'
  BY <1>1 DEF IInv, IssueInStep, RequestInStep, LockInStep, UpgradeInStep, TypeOK, Tokens,
         Account, Marked, NoIssue, NoRequest, Issue, RequestState, rowVars, Locked,
         IsGuest, Upgrading, Crash, Fail
<1>6. UpgradeInStep'
  BY <1>1 DEF IInv, UpgradeInStep, Locked, IsGuest, Candidate, Crash, Fail, rowVars
<1>7. TokensMatchAccount'
  BY <1>1 DEF IInv, TokensMatchAccount, Locked, Crash, Fail, rowVars
<1>8. ContentKeepsAccount'
  BY <1>1 DEF IInv, ContentKeepsAccount, Crash, Fail, rowVars
<1>9. QED
  BY <1>2, <1>3, <1>4, <1>5, <1>6, <1>7, <1>8 DEF IInv

\* Nothing is issued yet.
LEMMA InitInv ==
    ASSUME Init
    PROVE  IInv
<1>1. TypeOK
  <2>1. 0 \in Tokens /\ Account("none") \in User
    BY DEF Tokens, Account, User, Kind, Status, MaxAge
  <2>2. NoIssue \in Issue /\ NoRequest \in RequestState
    BY <2>1 DEF NoIssue, Issue, NoRequest, RequestState
  <2>3. Account("none").status = "none" /\ Account("none").kind # "guest"
    BY DEF Account
  <2>4. QED
    BY <2>1, <2>2, <2>3 DEF Init, TypeOK
<1>2. RequestInStep /\ LockInStep /\ UpgradeInStep /\ TokensMatchAccount /\ ContentKeepsAccount
  BY DEF Init, RequestInStep, LockInStep, UpgradeInStep, TokensMatchAccount,
         ContentKeepsAccount, Locked, NoRequest, Upgrading, Account
<1>3. IssueInStep
  BY DEF Init, IssueInStep, NoIssue, Account
<1>4. QED
  BY <1>1, <1>2, <1>3 DEF IInv

\* Every step, and every stutter, keeps the invariant.
LEMMA NextInv ==
    ASSUME IInv, [Next]_vars
    PROVE  IInv'
<1>1. CASE Tick
  BY <1>1, TickInv
<1>2. ASSUME NEW g \in Guests, IssueGuestToken(g)
      PROVE  IInv'
  <2>1. CASE markGuestActive(g)
    BY <2>1, SelectToMarkInv, WriteMarkedInv DEF markGuestActive
  <2>2. CASE expireGuestBestEffort(g)
    BY <2>2, SelectToMarkInv, WriteMarkedInv DEF expireGuestBestEffort
  <2>3. QED
    BY <1>2, <2>1, <2>2, IssueGuestAccountInv, SaveGuestSessionInv, SaveFailsInv,
       IssueFailsInv DEF IssueGuestToken
<1>3. ASSUME NEW g \in Guests, NEW t \in Tokens, EndSession(g, t)
      PROVE  IInv'
  BY <1>3, EndSessionInv
<1>4. ASSUME NEW c \in Clients, Request(c)
      PROVE  IInv'
  <2>1. CASE UpgradeGuestAccount(c)
    BY <2>1, UpgradeBeginInv, UpgradeCommitInv, UpgradeRejectedInv, DropCandidateInv,
       DropCurrentInv, DropCurrentFailsInv, UndoInv, UndoFailsInv DEF UpgradeGuestAccount
  <2>2. QED
    BY <1>4, <2>1, ValidateInv, WriteInv, DeleteMeInv DEF Request
<1>5. CASE Cleanup
  BY <1>5, SelectCandidatesInv, CleanupGuestInv DEF Cleanup
<1>6. CASE Crash
  BY <1>6, CrashInv
<1>7. CASE UNCHANGED vars
  BY <1>7 DEF IInv, vars, TypeOK, RequestInStep, LockInStep, IssueInStep, UpgradeInStep,
         TokensMatchAccount, ContentKeepsAccount, Locked, IsGuest, Candidate
<1>8. QED
  BY <1>1, <1>2, <1>3, <1>4, <1>5, <1>6, <1>7 DEF Next, Step

\* IInv holds in every state of every behaviour.
THEOREM Invariance == Spec => []IInv
<1>1. Init => IInv
  BY InitInv
<1>2. IInv /\ [Next]_vars => IInv'
  BY NextInv
<1>3. QED
  BY <1>1, <1>2, PTL DEF Spec

\* The variables keep their types, for any guests, clients, graces, batches and faults.
THEOREM TypeCorrect == Spec => []TypeOK
<1>1. IInv => TypeOK
  BY DEF IInv
<1>2. QED
  BY <1>1, Invariance, PTL

\* However requests, the cleanup job, failures and crashes interleave, a guest with a
\* published post or comment keeps the account.
THEOREM ContentKept == Spec => []ContentKeepsAccount
<1>1. IInv => ContentKeepsAccount
  BY DEF IInv
<1>2. QED
  BY <1>1, Invariance, PTL

\* Whatever fails or dies during an upgrade, and however many are tried at once, afterwards
\* only tokens of the kind of account it is have a session.
THEOREM TokensMatch == Spec => []TokensMatchAccount
<1>1. IInv => TokensMatchAccount
  BY DEF IInv
<1>2. QED
  BY <1>1, Invariance, PTL

-----------------------------------------------------------------------------
(* A machine that keeps up *)

\* One account moves on in its issue, within what the invariant allows; the others stay.
LEMMA TimelyMove ==
    ASSUME TypeOK, TimelyInv, NEW g \in Guests, NEW r \in User, NEW i \in Issue,
           user' = [user EXCEPT ![g] = r], issue' = [issue EXCEPT ![g] = i],
           g \notin batch \/ (r.kind # "none" /\ i.pc = "idle"),
           i.pc # "idle" => r.kind = "guest" /\ r.age = 0,
           i.pc \in {"activate", "expire"} => i.copy.age = 0,
           i.pc = "activate" => i.copy.status = "active",
           i.pc = "save" => r.status = "active",
           sessions'[g] # {} => (r.kind = "guest" /\ r.status = "active") \/ g \in members',
           \A h \in Guests \ {g} : sessions'[h] = sessions[h],
           members \subseteq members', batch' \subseteq batch
    PROVE  TimelyInv'
<1>1. /\ user'[g] = r /\ issue'[g] = i
      /\ \A h \in Guests \ {g} : user'[h] = user[h] /\ issue'[h] = issue[h]
  BY DEF TypeOK
<1>2. IssueInTime'
  BY <1>1 DEF TypeOK, TimelyInv, IssueInTime, IsGuest, IsActiveGuest
<1>3. SessionIsWorthIt'
  BY <1>1 DEF TimelyInv, SessionIsWorthIt, IsGuest, IsActiveGuest
<1>4. QED
  BY <1>2, <1>3 DEF TimelyInv

\* A step that leaves rows and issues alone and adds no session.
LEMMA TimelyStutter ==
    ASSUME TimelyInv, UNCHANGED <<user, issue>>, members \subseteq members',
           batch' \subseteq batch \/ batch' \subseteq Eligible,
           \A g \in Guests : sessions'[g] # {} => sessions[g] # {},
           TypeOK
    PROVE  TimelyInv'
<1>1. \A g \in Eligible : user[g].kind = "guest" /\ user[g].age > 0 /\ issue[g].pc = "idle"
  BY GuestsAssumption
  DEF Eligible, guestEligibleForCleanup, Grace, IsGuest, TimelyInv, IssueInTime, TypeOK, User
<1>2. QED
  BY <1>1 DEF TimelyInv, IssueInTime, SessionIsWorthIt, IsGuest, IsActiveGuest, TypeOK

\* What is being issued is a young guest the job does not know of, without a session.
LEMMA Issuance ==
    ASSUME IInv, TimelyInv, NEW g \in Guests, issue[g].pc # "idle"
    PROVE  /\ user[g] \in User /\ user[g].kind = "guest" /\ user[g].age = 0
           /\ issue[g].copy \in User /\ g \notin batch /\ sessions[g] = {}
  BY DEF IInv, TypeOK, Issue, TimelyInv, IssueInTime, IssueInStep, IsGuest

\* Every step of an issue.
LEMMA TimelyIssue ==
    ASSUME IInv, TimelyInv, NEW g \in Guests, IssueGuestToken(g)
    PROVE  TimelyInv'
<1>1. TypeOK
  BY DEF IInv
<1>2. /\ \A pc \in {"idle", "select", "save", "reselect"} :
            [NoIssue EXCEPT !.pc = pc] \in Issue /\ [NoIssue EXCEPT !.pc = pc].pc = pc
      /\ \A pc \in {"activate", "expire"}, s \in Status :
            [pc |-> pc, copy |-> Marked(s)] \in Issue /\ Marked(s).age = 0 /\ Marked(s).status = s
      /\ Marked("pending") \in User /\ Marked("pending").kind = "guest"
      /\ \A h \in Guests : user[h] \in User
  BY <1>1, Rows, States DEF Issue, NoIssue, Status, Marked, TypeOK
<1>3. user = [user EXCEPT ![g] = user[g]]
  BY <1>1 DEF TypeOK
<1>4. CASE IssueGuestAccount(g)
  <2>1. g \notin batch /\ sessions[g] = {}
    BY <1>4 DEF IssueGuestAccount, IInv, IssueInStep, TimelyInv, IssueInTime
  <2> DEFINE i == [NoIssue EXCEPT !.pc = "select"]
             r == Marked("pending")
  <2>2. /\ user' = [user EXCEPT ![g] = r] /\ issue' = [issue EXCEPT ![g] = i]
        /\ UNCHANGED <<sessions, batch, members>>
    BY <1>4 DEF IssueGuestAccount, IssueGoto
  <2>3. i \in Issue /\ i.pc = "select" /\ r \in User /\ r.kind = "guest" /\ r.age = 0
    BY <1>2 DEF Status
  <2> HIDE DEF i, r
  <2>4. QED
    BY <1>1, <2>1, <2>2, <2>3, TimelyMove
<1>5. ASSUME NEW from \in {"select", "reselect"}, NEW status \in {"active", "expired"},
             NEW write \in {"activate", "expire"}, NEW otherwise,
             write = "activate" => status = "active",
             SelectToMark(g, from, status, write, otherwise)
      PROVE  TimelyInv'
  <2> DEFINE i == [pc |-> write, copy |-> Marked(status)]
  <2>1. /\ user[g] \in User /\ user[g].kind = "guest" /\ user[g].age = 0 /\ g \notin batch
        /\ sessions[g] = {}
    BY <1>5, Issuance DEF SelectToMark, Issuing
  <2>2. /\ issue' = [issue EXCEPT ![g] = i] /\ UNCHANGED <<user, sessions, batch, members>>
    BY <1>5, <2>1 DEF SelectToMark, IsGuest
  <2>3. i \in Issue /\ i.pc = write /\ i.copy.age = 0 /\ i.copy.status = status
    BY <1>2 DEF Status
  <2> HIDE DEF i
  <2>4. user' = [user EXCEPT ![g] = user[g]]
    BY <1>3, <2>2
  <2>5. QED
    BY <1>1, <1>5, <2>1, <2>2, <2>3, <2>4, TimelyMove
<1>6. ASSUME NEW from \in {"activate", "expire"}, NEW next \in {"save", "idle"},
             next = "save" => from = "activate", WriteMarked(g, from, next)
      PROVE  TimelyInv'
  <2> DEFINE i == [NoIssue EXCEPT !.pc = next]
             r == issue[g].copy
  <2>1. /\ user[g] \in User /\ user[g].age = 0 /\ g \notin batch
        /\ sessions[g] = {} /\ r \in User /\ r.kind = "guest" /\ r.age = 0
        /\ from = "activate" => r.status = "active"
    BY <1>6, Issuance DEF WriteMarked, Issuing, IInv, IssueInStep, TimelyInv, IssueInTime
  <2>2. /\ issue' = [issue EXCEPT ![g] = i] /\ user' = [user EXCEPT ![g] = r]
        /\ UNCHANGED <<sessions, batch, members>>
    BY <1>6 DEF WriteMarked, IssueGoto
  <2>3. i \in Issue /\ i.pc = next
    BY <1>2
  <2> HIDE DEF i, r
  <2>4. QED
    BY <1>1, <1>6, <2>1, <2>2, <2>3, TimelyMove
<1>7. CASE SaveGuestSession(g) \/ SaveGuestSessionFails(g) \/ IssueFails(g)
  <2>1. PICK pc \in {"idle", "reselect"} :
           /\ issue' = [issue EXCEPT ![g] = [NoIssue EXCEPT !.pc = pc]]
           /\ UNCHANGED <<user, batch, members>>
    BY <1>7 DEF SaveGuestSession, SaveGuestSessionFails, IssueFails, IssueGoto, rowVars
  <2> DEFINE i == [NoIssue EXCEPT !.pc = pc]
  <2>2. /\ user[g] \in User /\ user[g].kind = "guest" /\ user[g].age = 0 /\ g \notin batch
        /\ sessions[g] = {}
        /\ SaveGuestSession(g) => user[g].status = "active"
    BY <1>7, Issuance
    DEF SaveGuestSession, SaveGuestSessionFails, IssueFails, Issuing, TimelyInv, IssueInTime,
        IsActiveGuest
  <2>3. \/ user[g].status = "active"
        \/ sessions'[g] = {}
    BY <1>7, <2>2 DEF SaveGuestSession, SaveGuestSessionFails, IssueFails
  <2>4. \A h \in Guests \ {g} : sessions'[h] = sessions[h]
    BY <1>1, <1>7 DEF SaveGuestSession, SaveGuestSessionFails, IssueFails, TypeOK
  <2>5. i \in Issue /\ i.pc = pc /\ issue' = [issue EXCEPT ![g] = i]
    BY <1>2, <2>1
  <2>6. user' = [user EXCEPT ![g] = user[g]]
    BY <1>3, <2>1
  <2>7. /\ i.pc # "idle" => user[g].kind = "guest" /\ user[g].age = 0
        /\ i.pc \notin {"activate", "expire", "save"}
        /\ sessions'[g] # {} => (user[g].kind = "guest" /\ user[g].status = "active") \/ g \in members'
    BY <2>2, <2>3, <2>5
  <2> HIDE DEF i
  <2>8. QED
    BY <1>1, <2>1, <2>2, <2>4, <2>5, <2>6, <2>7, TimelyMove
<1>8. QED
  BY <1>4, <1>5, <1>6, <1>7 DEF IssueGuestToken, markGuestActive, expireGuestBestEffort

\* A row written for an account nobody is issuing any more.
LEMMA TimelyRow ==
    ASSUME IInv, TimelyInv, NEW g \in Guests, NEW r \in User,
           user' = [user EXCEPT ![g] = r], issue[g].pc = "idle", r.kind # "none",
           sessions'[g] # {} => g \in members',
           \A h \in Guests \ {g} : sessions'[h] = sessions[h],
           members \subseteq members', batch' \subseteq batch, issue' = issue
    PROVE  TimelyInv'
<1>1. TypeOK /\ issue[g] \in Issue /\ issue' = [issue EXCEPT ![g] = issue[g]]
  BY DEF IInv, TypeOK
<1>2. QED
  BY <1>1, TimelyMove

\* A member is deleted, a guest upgraded or the upgrade rolled back.
LEMMA TimelyAccount ==
    ASSUME IInv, TimelyInv, NEW c \in Clients,
           DeleteMe(c) \/ UpgradeCommit(c) \/ Undo(c)
           \/ (UndoFails(c) /\ user' = [user EXCEPT ![client[c].id] = client[c].copy])
    PROVE  TimelyInv'
<1> DEFINE g == client[c].id
<1>1. /\ TypeOK /\ g \in Guests /\ client[c].copy \in User
      /\ client[c].pc \in Upgrading => lock[g] = c /\ Locked(g)
  BY GuestsAssumption
  DEF IInv, TypeOK, RequestInStep, RequestState, DeleteMe, UpgradeCommit, Undo, UndoFails, Locked
<1>2. UNCHANGED <<issue, batch>> /\ members \subseteq members'
  BY DEF DeleteMe, UpgradeCommit, Undo, UndoFails
<1>3. \A h \in Guests \ {g} : sessions'[h] = sessions[h]
  BY <1>1 DEF DeleteMe, UpgradeCommit, Undo, UndoFails, DeleteAndUnlock, TypeOK
<1>4. g \in members' /\ issue[g].pc = "idle"
  BY <1>1
     DEF IInv, IssueInStep, UpgradeInStep, LockInStep, DeleteMe, UpgradeCommit, Undo, UndoFails,
              Upgrading
<1>5. PICK r \in User : user' = [user EXCEPT ![g] = r] /\ r.kind # "none"
  <2>1. CASE DeleteMe(c)
    BY <1>1, <2>1, Rows DEF DeleteMe, Account, Kind
  <2>2. CASE UpgradeCommit(c)
    BY <1>1, <2>2, Rows DEF UpgradeCommit, Account, Kind
  <2>3. CASE Undo(c) \/ (UndoFails(c) /\ user' = [user EXCEPT ![client[c].id] = client[c].copy])
    <3>1. client[c].copy.kind = "guest"
      BY <1>1, <2>3 DEF IInv, UpgradeInStep, Undo, UndoFails, Upgrading
    <3>2. QED
      BY <1>1, <2>3, <3>1 DEF Undo
  <2>4. QED
    BY <2>1, <2>2, <2>3
<1>6. QED
  BY <1>1, <1>2, <1>3, <1>4, <1>5, TimelyRow

\* Requests that write no row, the selection of the job and the end of a session.
LEMMA TimelyRequest ==
    ASSUME IInv, TimelyInv, NEW c \in Clients,
           \/ \E g \in Guests, t \in Tokens : ValidateTokenToId(c, g, t)
           \/ Write(c) \/ UpgradeBegin(c) \/ UpgradeRejected(c) \/ DropCandidate(c)
           \/ DropCurrent(c) \/ DropCurrentFails(c) \/ (UndoFails(c) /\ user' = user)
    PROVE  TimelyInv'
<1>1. TypeOK /\ UNCHANGED <<user, issue, batch, members>>
  BY DEF IInv, ValidateTokenToId, Write, UpgradeBegin, UpgradeRejected, DropCandidate, DropCurrent,
         DropCurrentFails, UndoFails, rowVars
<1>2. ASSUME NEW g \in Guests, sessions'[g] # {} PROVE sessions[g] # {}
  <2>1. CASE sessions' = sessions
    BY <1>2, <2>1
  <2>2. CASE UpgradeBegin(c)
    BY <1>1, <1>2, <2>2 DEF UpgradeBegin, TypeOK
  <2>3. CASE \E t \in Tokens : sessions' = [sessions EXCEPT ![client[c].id] = @ \ {t}]
    BY <1>1, <1>2, <2>3 DEF TypeOK
  <2>4. client[c].token \in Tokens \/ client[c].pc = "idle"
    BY <1>1 DEF TypeOK, RequestState
  <2>5. client[c].pc # "idle" => Candidate(client[c].id) \in Tokens
    BY <1>1 DEF TypeOK, Candidate, IInv, RequestInStep
  <2>6. QED
    BY <2>1, <2>2, <2>3, <2>4, <2>5
    DEF ValidateTokenToId, Write, UpgradeRejected, DropCandidate, DropCurrent, DropCurrentFails,
        UndoFails, DeleteAndUnlock
<1>3. QED
  BY <1>1, <1>2, TimelyStutter

\* The job selects no account being issued, and deletes none with a session.
LEMMA TimelyCleanup ==
    ASSUME IInv, TimelyInv, Cleanup
    PROVE  TimelyInv'
<1>1. TypeOK
  BY DEF IInv
<1>2. CASE SelectGuestCleanupCandidates \/ CleanupFails
  <2>1. /\ UNCHANGED <<user, issue, members, sessions>>
        /\ batch' \subseteq batch \/ batch' \subseteq Eligible
    BY <1>2 DEF SelectGuestCleanupCandidates, CleanupFails, rowVars
  <2>2. QED
    BY <1>1, <2>1, TimelyStutter
<1>3. ASSUME NEW g \in Guests, cleanupGuest(g) PROVE TimelyInv'
  <2>1. /\ UNCHANGED <<issue, members, sessions>> /\ batch' \subseteq batch
        /\ issue[g].pc = "idle"
    BY <1>3 DEF cleanupGuest, TimelyInv, IssueInTime
  <2>2. CASE user' = user
    BY <1>1, <2>1, <2>2, TimelyStutter
  <2>3. CASE user' # user
    <3>1. user' = [user EXCEPT ![g] = Account("deleted")] /\ sessions[g] = {}
      BY <1>3, <2>3 DEF cleanupGuest, InUse
    <3>2. Account("deleted") \in User /\ Account("deleted").kind = "deleted"
      BY <1>1, Rows DEF Account, Kind
    <3> HIDE DEF Account
    <3>3. QED
      BY <2>1, <3>1, <3>2, TimelyRow
  <2>4. QED
    BY <2>2, <2>3
<1>4. QED
  BY <1>2, <1>3 DEF Cleanup

\* Time passes while nothing is being issued; a crash ends every issue.
LEMMA TimelyOutside ==
    ASSUME IInv, TimelyInv, (KeepsUp /\ Tick) \/ Crash
    PROVE  TimelyInv'
<1>1. TypeOK
  BY DEF IInv
<1>2. CASE KeepsUp /\ Tick
  <2>1. \A g \in Guests : user'[g].kind = user[g].kind /\ user'[g].status = user[g].status
    BY <1>1, <1>2, OlderRow DEF TypeOK, Tick
  <2>2. \A g \in Guests : issue'[g].pc = "idle"
    BY <1>1, <1>2 DEF TypeOK, Issue, KeepsUp, Tick
  <2>3. UNCHANGED <<sessions, batch, members>>
    BY <1>2 DEF Tick
  <2>4. IssueInTime'
    BY <1>1, <2>1, <2>2, <2>3 DEF TypeOK, TimelyInv, IssueInTime
  <2>5. SessionIsWorthIt'
    BY <2>1, <2>3 DEF TimelyInv, SessionIsWorthIt, IsGuest, IsActiveGuest
  <2>6. QED
    BY <2>4, <2>5 DEF TimelyInv
<1>3. CASE Crash
  BY <1>3 DEF Crash, NoIssue, TimelyInv, IssueInTime, SessionIsWorthIt
<1>4. QED
  BY <1>2, <1>3

\* On a machine that keeps up every step keeps the invariant.
LEMMA TimelyNext ==
    ASSUME IInv, TimelyInv, [Step \/ (KeepsUp /\ Tick)]_vars
    PROVE  TimelyInv'
<1>1. TypeOK
  BY DEF IInv
<1>2. ASSUME NEW g \in Guests, NEW t \in Tokens, EndSession(g, t) PROVE TimelyInv'
  <2>1. /\ UNCHANGED <<user, issue, batch, members>>
        /\ \A h \in Guests : sessions'[h] # {} => sessions[h] # {}
    BY <1>1, <1>2 DEF EndSession, rowVars, TypeOK
  <2>2. QED
    BY <1>1, <2>1, TimelyStutter
<1>3. ASSUME NEW c \in Clients, Request(c) PROVE TimelyInv'
  <2>1. UndoFails(c) => \/ user' = user
                        \/ user' = [user EXCEPT ![client[c].id] = client[c].copy]
    BY DEF UndoFails
  <2>2. QED
    BY <1>3, <2>1, TimelyRequest, TimelyAccount DEF Request, UpgradeGuestAccount
<1>4. CASE UNCHANGED vars
  BY <1>1, <1>4, TimelyStutter DEF vars
<1>5. QED
  BY <1>2, <1>3, <1>4, TimelyIssue, TimelyCleanup, TimelyOutside DEF Step

\* Only a request that rolls an upgrade back gives a deleted account another kind.
LEMMA DeletedStep ==
    ASSUME IInv, TimelyInv, [Step \/ (KeepsUp /\ Tick)]_vars, NEW g \in Guests,
           user[g].kind = "deleted", user'[g].kind # "deleted"
    PROVE  \E c \in Clients : client[c].pc = "undo" /\ client[c].id = g
<1>1. TypeOK /\ issue[g].pc = "idle" /\ user' # user
  BY DEF IInv, TimelyInv, IssueInTime, IsGuest
<1>2. ~Tick
  BY <1>1, OlderRow DEF TypeOK, Tick
<1>3. ~Crash /\ ~UNCHANGED vars /\ ~\E h \in Guests, t \in Tokens : EndSession(h, t)
  BY <1>1 DEF Crash, rowVars, vars, EndSession
<1>4. ~Cleanup
  <2>1. \A h \in Guests : Account("deleted").kind = "deleted"
    BY DEF Account
  <2>2. QED
    BY <1>1, <2>1
    DEF Cleanup, SelectGuestCleanupCandidates, CleanupFails, cleanupGuest, rowVars, TypeOK
<1>5. ASSUME NEW h \in Guests PROVE ~IssueGuestToken(h)
  <2>1. h # g => ~(\E r : user' = [user EXCEPT ![h] = r])
    BY <1>1 DEF TypeOK
  <2>2. ASSUME IssueGuestToken(h) PROVE \E r : user' = [user EXCEPT ![h] = r]
    BY <1>1, <2>2
    DEF IssueGuestToken, IssueGuestAccount, markGuestActive, expireGuestBestEffort, SelectToMark,
        WriteMarked, SaveGuestSession, SaveGuestSessionFails, IssueFails, rowVars
  <2>3. ~IssueGuestToken(g)
    BY <1>1
    DEF IssueGuestToken, IssueGuestAccount, markGuestActive, expireGuestBestEffort, SelectToMark,
        WriteMarked, SaveGuestSession, SaveGuestSessionFails, IssueFails, Issuing
  <2>4. QED
    BY <2>1, <2>2, <2>3
<1>6. PICK c \in Clients : Request(c)
  BY <1>2, <1>3, <1>4, <1>5 DEF Step
<1>7. client[c].id = g /\ (DeleteMe(c) \/ UpgradeCommit(c) \/ Undo(c) \/ UndoFails(c))
  BY <1>1, <1>6
  DEF Request, UpgradeGuestAccount, ValidateTokenToId, Write, DeleteMe, UpgradeBegin, UpgradeCommit,
      UpgradeRejected, DropCandidate, DropCurrent, DropCurrentFails, Undo, UndoFails, rowVars, TypeOK
<1>8. ~DeleteMe(c) /\ ~UpgradeCommit(c)
  BY <1>7 DEF DeleteMe, UpgradeCommit, IsGuest
<1>9. QED
  BY <1>7, <1>8 DEF Undo, UndoFails

\* The invariants of a machine that keeps up.
LEMMA TimelyInvariance == TimelySpec => [](IInv /\ TimelyInv)
<1>1. Init => IInv /\ TimelyInv
  BY InitInv DEF Init, TimelyInv, IssueInTime, SessionIsWorthIt, NoIssue
<1>2. IInv /\ TimelyInv /\ [Step \/ (KeepsUp /\ Tick)]_vars => (IInv /\ TimelyInv)'
  BY NextInv, TimelyNext DEF Next
<1>3. QED
  BY <1>1, <1>2, PTL DEF TimelySpec

\* On a machine that keeps up no guest is handed a session for an account the job has
\* cleaned up: whoever has a session has an active guest's account or was upgraded
\* (session/service.go IssueGuestToken, guestcleanup/service.go cleanupGuest).
THEOREM SessionsAreWorthIt == TimelySpec => []SessionIsWorthIt
<1>1. TimelyInv => SessionIsWorthIt
  BY DEF TimelyInv
<1>2. QED
  BY <1>1, TimelyInvariance, PTL

\* No row written from a copy brings a deleted account back, but for the rollback of an
\* upgrade (account/service.go restoreUserState).
THEOREM DeletedStay == TimelySpec => DeletedStaysDeleted
<1>1. IInv /\ TimelyInv /\ [Step \/ (KeepsUp /\ Tick)]_vars
         => [\A g \in Guests :
               user[g].kind = "deleted" /\ user'[g].kind # "deleted"
                  => \E c \in Clients : client[c].pc = "undo" /\ client[c].id = g]_vars
  BY DeletedStep
<1>2. QED
  BY <1>1, TimelyInvariance, PTL DEF TimelySpec, DeletedStaysDeleted

=============================================================================
