------------------------------- MODULE Server -------------------------------
(***************************************************************************)
(* The process: it opens the database and brings its schema up to date,    *)
(* answers requests, runs the outbox relay and the background jobs beside  *)
(* them, and stops when it is told to.  What all of them share is the pool *)
(* of connections to the database and, behind it, the one SQLite file.     *)
(*                                                                         *)
(* A request, a poll of the relay and a run of a job are each a sequence   *)
(* of steps that are seen at the database or wait for somebody:            *)
(*   "query"      statements that read, each on a connection of its own;   *)
(*                however many there are in a row, they are one step       *)
(*   "statement"  one statement that writes, a transaction of its own      *)
(*   "begin", "read", <a table>, "commit"                                  *)
(*                a transaction; its connection is its own until the end   *)
(*   "outside"    a query on the pool while the transaction is open        *)
(*   "body"       the client sends the body of its request                 *)
(*   "mail"       the mail server takes a message                          *)
(* The table "rows" stands for the rows a change reads before it writes    *)
(* them and announces in "outbox", "other" for the rows nobody counts.     *)
(* What the rows say is in the modules of the services.                    *)
(***************************************************************************)
EXTENDS Integers, Sequences, FiniteSets

CONSTANTS
    Clients,        \* who sends requests, one at a time
    Admins,         \* those of them who are administrators
    MaxConns,       \* connections the pool opens
    MaxBackground,  \* bound: of relay and jobs, at work at a time
    Wrap            \* bound: where the counts of the tables start again

ASSUME ServerAssumption ==
    /\ Admins \subseteq Clients /\ IsFiniteSet(Clients)
    /\ MaxConns \in Nat \ {0}
    /\ Wrap \in Nat \ {0, 1}
    /\ MaxBackground \in Nat

VARIABLES
    todo,       \* todo[p]: the steps before process p; none when it is idle
    tx,         \* tx[p]: the transaction p has open
    table,      \* table[t]: how often table t changed, modulo Wrap
    phase,      \* of the process: from "starting" to "exited"
    late        \* the deadline of the shutdown has passed

vars == <<todo, tx, table, phase, late>>

Main       == "main"
Relay      == "relay"
Job        == "job"
Background == {Relay, Job}
Processes  == Clients \cup Background \cup {Main}
Counted    == {"rows", "outbox", "schema", "migrations"}
Tables     == Counted \cup {"other"}
NotRead    == -1
Tx         == [open : BOOLEAN, read : {NotRead} \cup 0..(Wrap - 1), stale : BOOLEAN, wrote : SUBSET Tables]
NoTx       == [open |-> FALSE, read |-> NotRead, stale |-> FALSE, wrote |-> {}]

------------------------------------------------------------------------------
(* The use cases, by what they do at the database.                         *)

Nothing   == <<>>
Lookup    == <<"query">>
Statement == <<"statement">>
Edit      == <<"begin", "read", "other", "commit">>

\* Fault: the author is looked up in a repository outside of the transaction.
ChangeOutside == <<"begin", "read", "outside", "rows", "outbox", "commit">>

Change == <<"begin", "read", "rows", "outbox", "commit">>

CreateReport       == Change
ResolveReport      == Change
GetUserSuspension  == <<"begin", "read", "commit">>
MarkRead           == Lookup \o Statement
RequeueDeadMessage == Lookup \o Statement
IssueGuestToken    == <<"begin", "other", "commit", "query", "statement">>
Upload             == <<"body", "query">> \o Change

\* The views are made inside the transaction, from repositories outside of it.
GetReports == <<"begin", "read", "outside", "commit">>

\* The lookup of the session or of the administrator comes first; it is one
\* with a lookup that follows.
After(work) == IF work # <<>> /\ Head(work) = "query" THEN work ELSE Lookup \o work

Anyone(works)    == [admin : {FALSE}, work : works]
SignedIn(works)  == [admin : {FALSE}, work : {After(w) : w \in works}]
AdminOnly(works) == [admin : {TRUE},  work : {After(w) : w \in works}]

(* The routes of the API, by handlers. *)
SignInRoutes    == Anyone({Change, Lookup, IssueGuestToken}) \cup SignedIn({Change})
VerifyRoutes    == SignedIn({Change}) \cup Anyone({Edit})
RequestReset    == Anyone({Change})
ConfirmReset    == Anyone({Lookup \o Edit})
ProfileRoutes   == SignedIn({Nothing, Lookup})
OwnPostRoutes   == SignedIn({Lookup, Edit})
InboxRoutes     == SignedIn({Lookup, MarkRead, Statement})
ReportRoutes    == SignedIn({CreateReport})
SuspendRoutes   == AdminOnly({GetUserSuspension, Edit})
ResolveRoutes   == AdminOnly({GetReports, ResolveReport})
OutboxRoutes    == AdminOnly({Lookup, RequeueDeadMessage})
VisibilityRoute == AdminOnly({Change})
BoardRoutes     == Anyone({Lookup}) \cup AdminOnly({Change})
BoardPostRoutes == Anyone({Lookup}) \cup SignedIn({Change})
FeedRoutes      == Anyone({Lookup})
DetailRoutes    == Anyone({Lookup})
FileRoutes      == Anyone({Lookup}) \cup SignedIn({Upload, Lookup})
PostRoutes      == SignedIn({Change})
CommentRoutes   == Anyone({Lookup}) \cup SignedIn({Change})
ReactionsRoutes == Anyone({Lookup})
ReactionRoutes  == SignedIn({Lookup \o Change})

ApiRoutes ==
    UNION {SignInRoutes, VerifyRoutes, RequestReset, ConfirmReset, ProfileRoutes, OwnPostRoutes,
           InboxRoutes, ReportRoutes, SuspendRoutes, ResolveRoutes, OutboxRoutes, VisibilityRoute,
           BoardRoutes, BoardPostRoutes, FeedRoutes, DetailRoutes, FileRoutes, PostRoutes,
           CommentRoutes, ReactionsRoutes, ReactionRoutes}

(* The web front end: every page has the shell around it, which may issue a guest. *)
Shell           == SignedIn({Nothing}) \cup Anyone({IssueGuestToken \o Lookup})
FeedPages       == Shell
PostPages       == Shell \cup SignedIn({Lookup})
SignInForms     == Anyone({Nothing, Lookup, Lookup \o IssueGuestToken, Change})
AccountForms    == Anyone({Lookup, Edit, Lookup \o Edit, Change})
PostForms       == SignedIn({Change})
ProfilePages    == SignedIn({Lookup, Edit, Change})
InboxPages      == SignedIn({Lookup, Statement})
ReactionForms   == SignedIn({Lookup \o Change})
AdminPages      == AdminOnly({GetReports, GetReports \o Lookup, ResolveReport, Lookup, RequeueDeadMessage})
BoardPages      == AdminOnly({Lookup, Change})
SuspensionPages == AdminOnly({GetUserSuspension, Edit})
OtherForms      == SignedIn({Change, MarkRead})

Pages ==
    UNION {FeedPages, PostPages, SignInForms, AccountForms, PostForms, ProfilePages, InboxPages,
           ReactionForms, AdminPages, BoardPages, SuspensionPages, OtherForms}

Routes == ApiRoutes \cup Pages

(* What runs in the background, and what the start does.                   *)
Polls == {Edit, Lookup \o Statement, <<"mail", "statement">>}
Jobs  == {Lookup \o Statement, Lookup \o Edit}

Migration == <<"query", "begin", "schema", "migrations", "commit">>
Bootstrap == <<"query", "statement", "query", "statement">>

------------------------------------------------------------------------------
(* The pool and the transactions.                                          *)

\* A connection is free: the others are held by open transactions.
FreeConn == Cardinality({p \in Processes : tx[p].open}) < MaxConns

At(p, step) == todo[p] # <<>> /\ Head(todo[p]) = step

Advance(p) == todo' = [todo EXCEPT ![p] = Tail(@)]

\* SQLite lets one transaction write at a time.
Writer(p) == tx[p].wrote # {}
Locked(p) == \E q \in Processes \ {p} : Writer(q)

\* After a commit, what others have read is an old snapshot.
Outdated(p) ==
    [q \in Processes |-> IF q = p THEN NoTx ELSE [tx[q] EXCEPT !.stale = @ \/ tx[q].read # NotRead]]

\* The value read before the write is what the row is computed from; rows that
\* are only inserted are not read.
Written(p, t) == ((IF t = "rows" THEN tx[p].read ELSE table[t]) + 1) % Wrap

Query(p) ==
    /\ At(p, "query")
    /\ FreeConn
    /\ Advance(p)
    /\ UNCHANGED <<tx, table>>

WriteStatement(p) ==
    /\ At(p, "statement")
    /\ FreeConn /\ ~Locked(p)
    /\ Advance(p)
    /\ tx' = Outdated(p)
    /\ UNCHANGED table

Begin(p) ==
    /\ At(p, "begin")
    /\ FreeConn
    /\ Advance(p)
    /\ tx' = [tx EXCEPT ![p].open = TRUE]
    /\ UNCHANGED table

\* The transaction is deferred: its snapshot is of its first statement.
Read(p) ==
    /\ At(p, "read")
    /\ Advance(p)
    /\ tx' = [tx EXCEPT ![p].read = table["rows"]]
    /\ UNCHANGED table

\* Fault: an old snapshot does not keep a transaction from writing.
MayWriteStale(p) == ~Locked(p)

\* Its first write needs the lock, and a snapshot that is still the latest.
MayWrite(p) == ~Locked(p) /\ ~tx[p].stale

Write(p) ==
    /\ \E t \in Tables :
        /\ At(p, t)
        /\ tx' = [tx EXCEPT ![p].wrote = @ \cup {t}]
    /\ MayWrite(p)
    /\ Advance(p)
    /\ UNCHANGED table

Outside(p) ==
    /\ At(p, "outside")
    /\ FreeConn
    /\ Advance(p)
    /\ UNCHANGED <<tx, table>>

Commit(p) ==
    /\ At(p, "commit")
    /\ Advance(p)
    /\ table' = [t \in Counted |-> IF t \in tx[p].wrote THEN Written(p, t) ELSE table[t]]
    /\ tx' = IF Writer(p) THEN Outdated(p) ELSE [tx EXCEPT ![p] = NoTx]

\* The connection goes back to the pool however the function ends.
Rollback(p) == tx' = [tx EXCEPT ![p] = NoTx]

\* The work ends here: refused by a check, given up by its client, failed, or
\* a panic; the client is told so.
Abort(p) ==
    /\ todo[p] # <<>>
    /\ todo' = [todo EXCEPT ![p] = <<>>]
    /\ Rollback(p)
    /\ UNCHANGED table

\* Another transaction has the lock for too long, or has committed since.
Busy(p) ==
    /\ \/ \E t \in Tables : At(p, t) /\ ~MayWrite(p)
       \/ At(p, "statement") /\ Locked(p)
    /\ Abort(p)

Send(p) == At(p, "mail") /\ Advance(p) /\ UNCHANGED <<tx, table>>

ReadBody(p) == At(p, "body") /\ Advance(p) /\ UNCHANGED <<tx, table>>

Proceed(p) ==
    /\ \/ Query(p) \/ WriteStatement(p) \/ Outside(p)
       \/ Begin(p) \/ Read(p) \/ Write(p) \/ Commit(p)
    /\ UNCHANGED <<phase, late>>

\* Nobody but the mail server and the client can say when these are over.
Heard(p) == (Send(p) \/ ReadBody(p)) /\ UNCHANGED <<phase, late>>

Fail(p) == p # Main /\ Abort(p) /\ UNCHANGED <<phase, late>>

GiveUp(p) == p # Main /\ Busy(p) /\ UNCHANGED <<phase, late>>

------------------------------------------------------------------------------
(* What begins.                                                            *)

Begins(p, work) ==
    /\ todo[p] = <<>>
    /\ todo' = [todo EXCEPT ![p] = work]
    /\ UNCHANGED <<tx, table, phase, late>>

\* A request of somebody who is no administrator to a route of theirs ends
\* with the lookup: it is among those anybody may send.
Receive(c) ==
    /\ phase = "serving"
    /\ \E r \in Routes :
        /\ r.admin => c \in Admins
        /\ Begins(c, r.work)

Cancelled == phase \in {"stopping", "failing"}

InBackground(p, works) ==
    /\ phase \in {"serving", "draining"}
    /\ Cardinality({q \in Background : todo[q] # <<>>}) < MaxBackground
    /\ \E work \in works : Begins(p, work)

Poll == InBackground(Relay, Polls)

RunJob == InBackground(Job, Jobs)

------------------------------------------------------------------------------
(* The process.                                                            *)

\* The schema is migrated unless it is recorded that it was.
Startup == IF table["migrations"] = 0 THEN Migration \o Bootstrap ELSE Bootstrap

Start ==
    /\ phase \in {"exited", "crashed"}
    /\ phase' = "starting"
    /\ todo' = [todo EXCEPT ![Main] = Startup]
    /\ late' = FALSE
    /\ UNCHANGED <<tx, table>>

ListenAndServe ==
    /\ phase = "starting"
    /\ todo[Main] = <<>>
    /\ phase' = "serving"
    /\ UNCHANGED <<todo, tx, table, late>>

\* What the process still did is gone with it, the open transactions first.
Gone(to) ==
    /\ phase' = to
    /\ todo' = [p \in Processes |-> <<>>]
    /\ tx' = [p \in Processes |-> NoTx]
    /\ UNCHANGED <<table, late>>

StartFails == phase = "starting" /\ todo[Main] # <<>> /\ Gone("exited")

ListenFails ==
    /\ phase = "serving"
    /\ phase' = "failing"
    /\ UNCHANGED <<todo, tx, table, late>>

Signal ==
    /\ phase = "serving"
    /\ phase' = "draining"
    /\ UNCHANGED <<todo, tx, table, late>>

Deadline ==
    /\ phase = "stopping"
    /\ ~late
    /\ late' = TRUE
    /\ UNCHANGED <<todo, tx, table, phase>>

\* No request is taken any more; those under way are waited for up to the
\* deadline, then the context of the relay and of the jobs is cancelled.
Idle(p) == todo[p] = <<>>

Shutdown ==
    /\ phase = "draining"
    /\ late' = (\E c \in Clients : ~Idle(c))
    /\ phase' = "stopping"
    /\ UNCHANGED <<todo, tx, table>>

\* Fault: the mail connection is not closed.
CancelWorkButMail(p) ==
    /\ Cancelled
    /\ p \in Background
    /\ ~At(p, "mail")
    /\ Abort(p)
    /\ UNCHANGED <<phase, late>>

\* Statements of a cancelled context fail, and the mail connection is closed.
CancelWork(p) ==
    /\ Cancelled
    /\ p \in Background
    /\ Abort(p)
    /\ UNCHANGED <<phase, late>>

\* Fault: nobody waits for the relay.
WaitForNobody == TRUE

WaitForRelay == Idle(Relay) \/ (phase = "stopping" /\ late)

Exit ==
    /\ Cancelled
    /\ WaitForRelay
    /\ Gone("exited")

Crash == phase \notin {"exited", "crashed"} /\ Gone("crashed")

Init ==
    /\ todo = [p \in Processes |-> <<>>]
    /\ tx = [p \in Processes |-> NoTx]
    /\ table = [t \in Counted |-> 0]
    /\ phase = "exited"
    /\ late = FALSE

Next ==
    \/ \E p \in Processes : Proceed(p) \/ Heard(p) \/ Fail(p) \/ GiveUp(p) \/ CancelWork(p)
    \/ \E c \in Clients : Receive(c)
    \/ Poll \/ RunJob
    \/ Start \/ ListenAndServe \/ StartFails \/ ListenFails
    \/ Signal \/ Deadline \/ Shutdown \/ Exit \/ Crash

\* A connection that comes free is handed to those who wait for one in turn;
\* the wait for the lock is bounded by busy_timeout.
Fairness ==
    /\ \A c \in Clients : SF_vars(Proceed(c)) /\ WF_vars(GiveUp(c))
    /\ \A p \in Background : WF_vars(Proceed(p)) /\ WF_vars(GiveUp(p)) /\ WF_vars(CancelWork(p))
    /\ WF_vars(Deadline) /\ WF_vars(Shutdown) /\ WF_vars(Exit)

Spec == Init /\ [][Next]_vars

FairSpec == Spec /\ Fairness

------------------------------------------------------------------------------
Steps == {"query", "statement", "begin", "read", "outside", "commit", "body", "mail"} \cup Tables

TypeOK ==
    /\ todo \in [Processes -> Seq(Steps)]
    /\ tx \in [Processes -> Tx]
    /\ table \in [Counted -> 0..(Wrap - 1)]
    /\ phase \in {"starting", "serving", "draining", "stopping", "failing", "exited", "crashed"}
    /\ late \in BOOLEAN

Store == INSTANCE SerialStore

\* Whatever runs beside it, fails, or crashes, a transaction of the unit of work
\* or of a migration takes effect whole or not at all, from the latest rows.
ImplementsSerialStore == Store!Spec

\* A request is answered once its client has sent it, also beside a mail server
\* that hangs, as long as fewer administrators list reports than there are
\* connections: each needs a second one while it holds its first.
RequestsAnswered ==
    \A c \in Clients : ~Idle(c) ~> (Idle(c) \/ At(c, "body"))

\* The connections are not all held by transactions that wait for another one.
PoolNeverStuck ==
    Cardinality({p \in Processes : At(p, "outside")}) < MaxConns

\* Told to stop, the process stops only when the requests are answered and the
\* relay is at rest, or the deadline has passed.
StopsInOrder ==
    [][phase = "stopping" /\ phase' = "exited" => late \/ \A p \in Clients \cup {Relay} : Idle(p)]_vars

\* The process comes to its end when told to or when it cannot listen, also with
\* a client that does not send its request or a mail server that hangs.
StopsAtLast == phase \in {"draining", "stopping", "failing"} ~> phase \in {"exited", "crashed"}

------------------------------------------------------------------------------
(* What these rest on.                                                     *)

\* Steps taken without a transaction, and those after which none is open.
Alone    == {"query", "statement", "body", "mail", "begin"}
Complete == {"query", "statement", "body", "mail", "commit"}

\* Step b may come right after step a.
Leads(a, b) ==
    \/ a \in Complete /\ b \in Alone
    \/ a = "begin" /\ b \in {"read", "other", "schema"}
    \/ a = "read" /\ b \in {"outside", "rows", "other", "commit"}
    \/ a = "rows" /\ b = "outbox"
    \/ a = "schema" /\ b = "migrations"
    \/ a \in {"outside", "other", "outbox", "migrations"} /\ b = "commit"

\* No transaction is left open, and a change of the rows or of the schema is followed by what
\* belongs to it before the commit.
WellFormed(s) ==
    \A n \in 1..Len(s) : IF n = Len(s) THEN s[n] \in Complete ELSE Leads(s[n], s[n + 1])

\* The transaction x is one in which step a can be next.
Before(x, a) ==
    \/ a \in Alone /\ x = NoTx
    \/ a \in {"read", "outside", "schema", "other"} /\ x.wrote = {}
    \/ a = "rows" /\ x.wrote = {} /\ x.read # NotRead
    \/ a = "outbox" /\ x.wrote = {"rows"} /\ x.read # NotRead
    \/ a = "migrations" /\ x.wrote = {"schema"}
    \/ a = "commit" /\ \/ x.wrote \in {{}, {"other"}, {"schema", "migrations"}}
                       \/ x.wrote = {"rows", "outbox"} /\ x.read # NotRead

\* What a process has still to do fits what its transaction has done.
StepsInStep ==
    \A p \in Processes :
        /\ WellFormed(todo[p])
        /\ IF todo[p] = <<>> THEN tx[p] = NoTx ELSE Before(tx[p], Head(todo[p]))

\* One transaction writes at a time, and none of those that read before the last commit.
OneWriter ==
    \A p \in Processes : Writer(p) => ~tx[p].stale /\ ~Locked(p)

\* What a transaction has read is the latest unless it is marked as old.
SnapshotsLatest ==
    \A p \in Processes : tx[p].read # NotRead /\ ~tx[p].stale => tx[p].read = table["rows"]

\* While the process waits for the relay only, no request is under way; when it has ended,
\* nothing is.
PhasesInStep ==
    /\ phase = "stopping" => late \/ \A c \in Clients : Idle(c)
    /\ phase \in {"exited", "crashed"} => \A p \in Processes : Idle(p)

\* Only administrators list reports; transactions are not more than connections.
PoolInStep ==
    /\ \A p \in Processes \ Admins : \A n \in 1..Len(todo[p]) : todo[p][n] # "outside"
    /\ Cardinality({p \in Processes : tx[p].open}) <= MaxConns

IInv == TypeOK /\ StepsInStep /\ OneWriter /\ SnapshotsLatest /\ PhasesInStep /\ PoolInStep
=============================================================================
