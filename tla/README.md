# Verification of go-comu-bin

A TLA+ development of the community bulletin board in `src/`: modules that model the parts
whose correctness depends on interleavings, failures and crashes, TLC configurations that
check them on small instances, and theorems, proved with TLAPS, that hold for every size of
the system.

## 1. The system

The program is one Go process: an HTTP API and a server-side rendered web UI over application
services, SQL tables (SQLite, or MySQL), a cache held in the process, background goroutines
(the outbox relay, cleanup jobs on timers) and three adapters to the outside: a mail server, a
file store and password hashing. A use case runs as a transaction of the unit of work, and
the events it dispatches are appended to the table `outbox_messages` in the same transaction;
the relay delivers them later to the handlers that send mail, keep the search index and the
ranking, write notifications and invalidate cached views. Sessions are entries of the cache,
not rows: no transaction spans a user's row and the user's sessions, and a restart ends every
session.

### Inventory

| Component (under `src/internal`) | State | Operations | Interacts with | What is hard | What makes it correct |
|---|---|---|---|---|---|
| **Outbox** `infrastructure/event/outbox`, `persistence/sqlite/outbox_repository.go` | row per event: status, attempt count, next attempt; in each worker a fetched batch and a heartbeat | append, fetch with a lease, dispatch, mark succeeded / retry / dead, renew | producers through the unit of work, every handler | several workers, leases that run out, copies as old as the poll, crash between handler and mark, failed statements | no committed event lost; dead only when exhausted; single owner while the lease holds; every event settles |
| **Outbox administration** `service/outboxadmin` | none of its own | list, requeue, discard dead rows | the same rows | check and statement are not one transaction | a dead row leaves that state only by an administrator |
| **Mail tokens** `event/mail_delivery_handler.go`, `persistence/sqlite/token_repositories.go`, two cleanup jobs | row per token: consumed, delivered, expiry | issue, mail, record, activate, sweep | relay, mailer, account service | five statements without a transaction, whole-row upserts from old copies, repeated and overlapping delivery, a sweep in two steps | usable only after its mail; used once; only the latest usable; becomes usable |
| **Email verification** `service/account`, `service/user` | user's verified mark | sign up, request, confirm, delete | mail tokens | the same, with a confirmation that deletes every row | verified only by mail |
| **Password reset and account lifecycle** `service/account`, `service/user` | password, status; the user's lock | request, confirm with compensation, delete, suspend | mail tokens, sessions | database and cache are changed one after the other, rollback by writing back copies, crash in between | no session outlives the password it was opened with |
| **Sessions** `service/session`, `infrastructure/auth/CacheSessionRepository.go` | cache entries per user and token, per-user locks | login, save, validate, logout, delete all of a user | cache, user rows | login checks the password outside the lock; eviction at any time; the index that finds a user's sessions is apart from them | a session belongs to a usable account; all of a user's are found |
| **Guest accounts** `service/session`, `service/account`, `service/guestcleanup` | guest status and its time stamps | issue, activate, expire, upgrade with rollback, cleanup | sessions, content | chain of whole-row writes without a transaction, cleanup decided before the lock, two-resource upgrade | content keeps its account; tokens match the account; abandoned guests go away |
| **Posts and attachments** `service/post`, `service/attachment` | posts, drafts, attachment rows, files | create, publish, edit, delete, upload, orphan cleanup | file store, outbox | files are outside the transaction; orphan marking and cleanup race edits | no reference to a deleted file, no file kept for ever |
| **Boards, comments, reactions, tags** `service/board`, `comment`, `reaction`, `post/tag_coordinator.go`, `deletion_workflow.go` | rows | create, update, delete, hide, react; a deleted post takes all with it, in batches | outbox, cached views | cascades, tombstones found by their UUID, events that must name everything they outdate | nothing outlives its post; threads stay whole; boards stay under posts; every event drops every view it changed |
| **Search index and ranking, notifications** `event/post_search_index_handler.go`, `post_ranking_handler.go`, `notification_handler.go` | full-text rows; a ranking in memory; an inbox | upsert, delete, rebuild, count, decay, notify, read | outbox | events repeated, out of order and overlapping; a rebuild at every start | the projections converge to the rows; nothing is counted or told twice |
| **Lists** `service/common/cursor_list.go`, `service/*/query_handler.go` | the client's cursor | pages by id, score or relevance, read in batches | rows, ranking, index | items that come, go and move between pages; batches of which everything is hidden | what stays is shown once |
| **Cache** `infrastructure/cache/ristretto`, `event/cache_invalidation_handler.go` | values, an index of keys by prefix, flights | get, load, set, delete, delete by prefix | queries, sessions | loads that race the invalidation; index and store are two structures under no common lock | stale only in known windows; a user's sessions are all found |
| **Process, unit of work, SQL** `cmd/main.go`, `persistence/sqlite`, `infrastructure/job` | pool of connections, transactions, phases of the process | begin, read, write, commit, migrate; start, serve, stop | everything | deferred transactions on one file, a pool of two, a query outside of the transaction that holds a connection, shutdown beside work that hangs | transactions are serial; requests are answered; the process stops in order and at last |
| **HTTP API, web UI** `delivery` | none | routes | services | which statements a request runs, and on which connection | the routes never use up the pool |
| **In-memory persistence, rate limiter, configuration, policies, adapters** | maps, counters, constants | | | one mutex each, or none | |

`PROJECT.json` repeats the list with what is modelled of each, and names the hazards line by
line.

## 2. The modules

| Module | Models | Checked by | Proved in |
|---|---|---|---|
| `AtLeastOnce` | what the outbox promises its producers (abstract) | `Outbox_fair` | `OutboxProofs` |
| `Outbox` | table, relay workers, heartbeats, administrators | `Outbox_fair`, `Outbox_timely` | `OutboxProofs` |
| `MailTokens` | token rows, mail delivery handler, sweep; shared by the next two | through them | `MailTokensProofs` |
| `EmailVerification` | sign-up, request, confirmation, deletion | `EmailVerification_fair` | `MailTokensProofs` |
| `PasswordReset` | reset with lock, compensation and crash; login, deletion, suspension | `PasswordReset_safety` | `MailTokensProofs` |
| `Guests` | guest accounts from issue to upgrade or cleanup | `Guests_fair` | `GuestsProofs` |
| `Attachments` | posts with the attachments they embed, uploads, the file store, the cleanup job | `Attachments_fair` | `AttachmentsProofs` |
| `Discussion` | boards, posts with tags, comments, reactions; the public queries and the keys each event drops | `Discussion_safety` | `DiscussionProofs` |
| `Projections` | search index, ranking, notifications, as consumers of the outbox | `Projections_safety` | `ProjectionsProofs` |
| `Listing` | a client's walk through a list, page by page | `Listing_safety` | `ReadProofs` |
| `Cache` | values and prefix index, loads, invalidation, sessions of a user | `Cache_safety`, `Cache_prefix` | `ReadProofs` |
| `SerialStore` | what the services take a transaction for (abstract) | `Server_fair` | `ServerProofs` |
| `Server` | the process, its pool and transactions, every route, relay and jobs, shutdown | `Server_fair` | `ServerProofs` |

The `MC*` modules add symmetry sets and the values of constants a cfg cannot write, and
nothing else.

### Outbox

`row[m]` is the row of the event with sequence number `m`. The code compares
`next_attempt_at` with the clock only to ask whether it has passed, so a row keeps the time
left (`wait`) and `Tick` runs it down; `locked_at` follows from it and is left out. `seen[w]`
are the attempt counts of the copies worker `w` fetched and has not marked, `age[w]` the time
since the instant its poll began, from which the code computes a retry's delay. The actions
are the statements: `FetchReady` (one transaction that selects a batch in sequence order and
leases all of it), `HandleNext` and the two outcomes of a dispatch, `MarkSucceeded`,
`MarkRetry`, `MarkDead`, a failure of any of them, and for the heartbeat the start of a renewal
and its statement apart, because one that is under way when the handler returns lands after the
mark. An UPDATE of a row that is gone changes nothing, as in SQL. `RequeueDead` and
`DiscardDead` are apart from the check `EnsureDead` for the same reason. `Crash` forgets
everything except the table.

`AtLeastOnce` is the promise: a committed event stays outstanding until every handler has run
to the end once or an administrator dropped it; handlers may run any number of times, also
after the event was retired, in any order. `Outbox` implements it under the mapping
`committed <- 1..last`, `outstanding <- ` the rows present, with the history variables
`handled` and `dropped` in both.

### Mail tokens, email verification, password reset

A token is named by its place in the order of issue; other users' tokens never meet it,
because every statement names a hash or a user. `job[w]` is a delivery: the handler selects
the row, sends the mail, writes `DeliveredAt` into the row *as it read it*, selects again,
and writes the activation into that second copy, each a step of its own. `saveToken` is an
upsert of every column, so a write brings a deleted row back: `Update` does exactly that. The
relay may call the handler again for an event, also while another call is under way
(`repeats` bounds how often); a call that fails or dies leaves its event pending. The
cleanup job selects hashes and deletes one by one.

`PasswordReset` names a password by the reset that set it and keeps the *set of passwords*
with which the sessions in the cache were opened; sessions of one password are not told apart:
the end of one that leaves another is no step, the end of the last is `EndSession`. `ConfirmCommit` is the transaction under
the user's lock, with the copies the compensation will write back; `Invalidate`,
`InvalidateFails`, `Restore` and `RestoreFails` follow it. Login checks the password without
the lock and saves its session later, under it. Deletion and suspension do not take the lock.

### Guests

`issue[g]` is the chain `IssueGuestToken` runs: INSERT as pending, read-stamp-write to
activate, save of the session, and on a failure of the save read-stamp-write to expire.
Every write is of the whole row from the copy. `client[c]` is a request after the middleware
let it in: from there it runs on the user id alone. The upgrade holds the user's lock from the
check of the current token to the drop of that token or the rollback. The cleanup job selects
up to `BatchSize` accounts by age and then takes them one at a time, under their lock, in a
transaction that looks at sessions and content again, but not at the age.

### Attachments

`embeds[p]` is what the text of post `p` refers to, `row[a]` the row of an attachment with the
ages of its two times, `files` the file store. The operations on posts are one transaction
each and change texts and rows together. An upload is three steps: the file, the row in a
transaction that looks at the post again, and, if that fails, the removal of the file.
A run of the job takes its candidates, then for each hides the row (written as it was read,
which is why `HideNext` restores the orphaned time), removes the file, removes the row; a
failure anywhere ends the run. `hidden` is what the job's copies say, not what the rows say.
Runs do not overlap, because the runner waits for a run before it looks at its timer again.

### Discussion

One step is one transaction: `DeletePost` is the deletion with its batches of comments, their
reactions and the post's tags, `syncPostTags` and the event included. `event` is what the
command announced. `View(k)` is what the query cached under key `k` answers to anybody,
`Invalidated(e)` the keys the handler of event `e` deletes; a prefix is the set of its keys.
The module says that the right keys are dropped; `Cache`, that dropping them works.

### Projections

`log` holds the events in the order of their transactions, `pending` those not handled yet.
A worker takes any pending event and runs the handlers of its kind in the order `main.go`
registers them: for a post the search index (the row is read, in a step of its own, and the
document written), then the ranking (one call under its mutex); for a comment or a reaction the
ranking; for a notification the look for the row and the insert, which the unique `dedup_key`
may refuse. It may fail or stop between any two, and another worker may take the same event
meanwhile. `Restart` empties the ranking and rebuilds both from the rows, as
`main.go` does. `overlapped` and `disordered` are history variables: the posts changed between
a read and its write, and the subjects of which an older event was handled after a newer one.

### Listing

`kind` chooses the list; the walk is fetch, look up the boards, filter, `Enough` or another batch, as
`LoadCursorListPage` and the ranked and search queries have it, and between any two steps an item
may be published, deleted, retagged, reranked or hidden. What is fetched, found and shown are sets of
entries, an item with the place it had when it was read; the order of a list is that of the
places (`Precedes`), and a LIMIT is `FirstOf`. `steady` is what has been listed all
along at one place, `shown[i]` how often the client saw item `i`, `strayed` that the item an
administrator's page ended with left its place.

### Cache

`stored[k]` is the value of Ristretto (a version of the rows, for a view), `index` the keys
that are in the prefix index, `flight[v]` the leader of a load (singleflight), `lock` the
mutex of the user whose sessions are modelled, `op[p]` the call process `p` is at.
Ristretto's set and the index's insertion are two steps, as are lookup and removal on a miss, and
deletion from both. `raced` is a history variable: the views of which the removal from the
index met a value that had come meanwhile.

### Server

`todo[p]` is what is left of a request, a poll or a job, as a sequence of steps at the database; each handler
of `delivery/http.go` and `delivery/web/handler.go` is a set of such sequences, grouped as the
routes are. `tx[p]` is an open transaction: what it read, what it wrote, and whether somebody
committed since (`stale`). SQLite, which is external, is modelled by what the code relies on:
one writer, and no write from an old snapshot. `table` counts the commits that changed the
rows and the outbox, the schema and the record of its migrations, modulo `Wrap`. `SerialStore` is the promise: every
transaction takes effect at once and whole, from the latest rows. The mapping is the
identity on `table`.

## 3. What the runs show

| Run | Question | Bounds, and why they are enough |
|---|---|---|
| `Outbox_fair` | Is an event ever lost, or a row dead early, when workers stall anywhere? Does the outbox keep the promise of `AtLeastOnce`? Is every event in the end handled, or dead? | 2 messages in batches of 2, 2 workers, 2 attempts, lease 1, one fault. Two workers and a lease of one tick give every order of expiry, second fetch and late mark; a second attempt separates retry from death. |
| `Outbox_timely` | On a machine that keeps up and with batches of one, has a message one owner, and do handlers succeed once while nothing fails? Does a dead row stay dead? | 2 messages, 2 workers, an administrator, lease 2 and factor 2, so that a lease is renewed before it ends and backoff grows; one fault. |
| `EmailVerification_fair` | Verified only by mail? Does a token in the end become usable? | 2 overlapping deliveries, 2 tokens, 2 faults, life 2 in a clock of 3. |
| `PasswordReset_safety` | Usable only after mail; used once while no event is repeated; no session of an old password. | 2 clients (a reset against a login or another reset), 2 tokens, a repeated delivery, 2 faults (failed invalidation *and* failed rollback), 2 resets. |
| `Guests_fair` | Content keeps its account, sessions belong to usable accounts, tokens match the account, the deleted stay deleted, the abandoned are cleaned up. | 2 guests in batches of 2, 1 client, an upgrade of each guest, 2 faults (a failed step *and* its failed rollback). Several clients upgrading one guest at once are covered by the theorems, which hold for any number. |
| `Attachments_fair` | Does a post list what its text embeds? Has what is shown a file? Is a file ever forgotten, a hidden attachment shown again, an orphan kept for ever? | 2 posts, 2 attachments, batches of 2, a grace of 2 ticks, one fault. Two posts tell a post's own attachments from another's; a batch of two leaves a second item whose copy grows old while the first is removed; the fault is a failed step or a crash at any point. |
| `Discussion_safety` | Does anything outlive the post it hangs on? Do threads stay whole, boards under their posts? Does an event drop every view it outdates? | 2 posts on a board, 3 comments (a thread of two and another), a tag, a reaction, batches of one comment, so that a deletion takes several; one user, an administrator, may do whatever anybody may. |
| `Projections_safety` | Once all events are handled, do index, ranking and scores agree with the rows? Is a comment counted and told of once? | 1 post, 1 comment, 4 events, 2 workers, 2 failures or restarts. Posts do not meet in the projections; two workers overlap on one event or run two out of order. |
| `Listing_safety` | Is what stays in a list shown, and once, whatever moves around it? For all eleven lists. | 3 items on 2 boards, a page of one (so three pages, and batches of which all is hidden), 2 ranks, 2 changes at any two moments of the walk. |
| `Cache_safety` | When may a view be older than the rows? Are all sessions of a user found when they are ended? | a page, a detail, 2 sessions, 2 clients, a worker, 2 changes: a load overtaken by a change and its event needs one of each, a lookup that races a store two clients. |
| `Cache_prefix` (violated) | Does its prefix find every page that is stored? | 2 clients, a page. |
| `Server_fair` | Are transactions serial? Is every request answered beside a mail server that hangs? Does the process stop in order, and at last? | 2 clients, one of them an administrator, relay or job beside them, the default pool of two, counters modulo 2: a lost update, a full pool and a lock that is waited for each need two. |

`PagesFound` is the one disagreement that has a run. `Get` looks a key up in Ristretto and,
when it misses, takes it out of the prefix index, under no lock that covers both. When another
request has stored the page in between, the page stays cached and `DeleteByPrefix` no longer
finds it; `docs/DECISIONS.md:786` says the index keeps the exact meaning of that call. Sessions
do not suffer from it, because the lock of the user covers both steps (`SessionsFound`), nor do
views dropped by their own key. `StaleOnlyByRace` shows that this and a load overtaken by the
whole of a change and its event are the *only* ways a view stays out of date, until its
time to live ends.

### Deadlock, time, fairness

`CHECK_DEADLOCK FALSE` stands where a bounded history has nothing left to do: in the token
runs (clock, tokens and resets are bounded), in the attachment runs (every post deleted, everything
collected), in `Discussion_safety` (everything written and deleted), in `Projections_safety`
(all events announced and handled) and in `Listing_safety` (the walk is over and the changes are
used up). `Outbox`, `Guests`, `Cache` and `Server` never stop and are checked for deadlock.

*Outbox.* Weak fairness of each worker's poll and of its handling, and of time: goroutines are
scheduled and statements return. That handlers return is an assumption about the mail server,
since the SMTP client sets no deadline. `EventuallySettled` is claimed if administrators at
some time stop requeueing: one who requeues the same event for ever keeps it for ever.
`TimelySpec` lets time pass only while workers are
idle or inside a handler whose lease has time left: the machine keeps up, and the heartbeat,
whose period is shorter than the lease, is on time. It is used where the claim is about
healthy workers, and stated nowhere else.

*Email verification.* Weak fairness of a worker's handler; strong fairness of the delivery of
an event the outbox still owes, since the relay retries it (what `EventuallySettled` shows
as long as attempts last). `MaxRepeats` is 0 here: with an overlapping second delivery the
property fails, because its write of an old copy undoes the activation. `Grace >= TTL` is
needed too, or the sweep takes a token whose mail is still being retried.

*Guests.* Weak fairness of the job, which runs on an interval, of the requests' own steps, of
time, and of the end of sessions, whose tokens live 24 hours and are not renewed. Issuing a
guest takes no time that counts against a grace of minutes (`KeepsUp`). Without it
`SessionIsWorthIt` fails: the job takes the account between its activation and its session.

*Attachments.* Weak fairness of time and of the steps of a run; strong fairness of the selection
of each candidate, because a run takes the oldest candidates and what becomes a candidate later
is younger. The failures of a behaviour are bounded: a file that can *never* be deleted would
end every run at the same place, and nothing behind it would be collected.

*Server.* Strong fairness of each client's request: a connection is free again and again, and
`database/sql` gives it to one of those who wait, so that nobody is passed over for ever;
weak fairness
of giving up after the busy timeout, of background work, of the cancellation of what the
context reaches, and of the steps of shutdown. None for the mail server and none for the body of a
request, which may never come: `RequestsAnswered` excuses a request that waits for its
client, and nothing waits for the mail server.

## 4. What is proved

Every theorem holds for any values of the constants that satisfy the named assumption of
its module (naturals, positive where the code divides or waits by them).

* **`OutboxProofs`**: `TypeCorrect`, `NothingLost`, `DeadOnlyWhenExhausted`, and `Implements`
  (every step of `Outbox` is a step or a stutter of `AtLeastOnce`). `NoEventLost` alone is not
  inductive: a worker about to delete a row must be known to have run its handlers
  (`WorkersInStep`), a worker with an old copy must not declare a row dead early, for which
  its count must never be ahead of the row's (`CopiesAreOld`), and nobody may hold a number
  before its transaction committed (`NothingAhead`).
  `OwnerIsSingle`, `HandledOnce` and `DeadStayDead` are theorems of `TimelySpec` under the
  hypothesis `OneAtATime`: batches of one and at most one administrator. Both parts are
  needed: with larger batches a lease runs out behind a slow handler, which is a divergence
  (section 5), and a second administrator requeues a row that is being handled. Their invariant, `OwnersInv`, says
  that what a worker holds is leased and the lease has time left (`HeldIsLeased`), that a
  renewal under way gives a whole lease (`RenewalsGiveLeases`), that an administrator past
  the check finds the row still dead (`OperationsFindDead`), and that only a failure keeps
  a row whose handlers have succeeded (`HandledIsMarked`).
* **`MailTokensProofs`**: type correctness and `MailedFirst`, `EmailMailedFirst` (a usable token was
  mailed) of both kinds of tokens, `VerifiedOnlyByMail` of the one,
  `SessionsEndWithPassword` and `TokenUsedOnce` of the other.
  The invariant of the tokens, `MailInv`, speaks of rows *and* of
  every copy of a row that somebody may still write back; it is proved once, for the steps
  of `MailTokens`, which both modules extend. `SessionsEndWithPassword` needs that the
  lock is held by exactly the client that has committed and not invalidated (`LockInStep`)
  and that during the reset every session is of the password in that client's copy
  (`SessionsDuringReset`), which is what makes the rollback restore the property.
  `TokenUsedOnce` rests on this, that one opening of the row pays for one use (`OneOpening`): a token whose event is
  still owed is neither open nor used, one delivery at most is under way and its copy is not open,
  and a row is open only while unused; and a token not yet issued has left no trace
  (`UnissuedUntouched`). All this ends with the first repeated delivery, and so does the
  property.
* **`GuestsProofs`**: type correctness, `ContentKept`, `TokensMatch`. `LockInStep` and
  `RequestInStep` tie locks and requests together, `IssueInStep` says that no session or
  upgrade can exist while the account is still being issued (so the whole-row writes of the
  chain cannot undo an upgrade), and `UpgradeInStep` says which tokens exist at each step of
  an upgrade. `SessionsAreWorthIt` and `DeletedStay` are theorems of `TimelySpec`: a guest
  being issued has no age, so the job has not selected it, and its session comes after its activation
  (`IssueInTime`, in `TimelyInv`).
* **`AttachmentsProofs`**: type correctness, `ListedAreEmbedded`, `ShownHaveFiles`,
  `FilesHaveRows`, and the action properties `RemovedInTheEnd` and `HiddenForGood`. The invariant
  says of the job that the item it is at has been hidden for a grace and, before its
  row goes, that its file is gone (`JobInStep`); of uploads that nothing refers to one before its
  row exists (`UploadInStep`), and nothing belongs to a post that does not exist
  (`NoneBeforePost`); and that what the job took from under a text is hidden
  (`OvertakenIsHidden`). `StepsInOrder` derives both action properties from it.
* **`DiscussionProofs`**: type correctness, `PostsKeepBoards`, `ThreadsStayWhole`, `NothingOutlives`
  and `EventsCoverViews`. Threads are not
  inductive as stated: it takes that a reply answers a comment that was written and is no reply itself
  (`RepliesHaveParents`), so that a deleted comment kept by a reply is never a reply. That nothing outlives its
  post needs that the batches of a deletion reach every comment (`BatchesAreAll`): the pages are a
  recursive function of the id below which a page starts, and of the ids where it would miss a
  comment there is no least. It also needs that comments stand only under what was published
  (`AnswersFollowPublication`). For the events there is one lemma per view, saying what it depends on
  (`FeedStays` to `ReactionListStays`), and one per command, which shows that the views that
  depend on a row it changed are among those its event drops.
* **`ProjectionsProofs`**: type correctness, `IndexIsTrue`, `FeedIsTrue`, `CountsOnce`,
  `NotifiesOnce` and `ReadStays`. What must hold when all is handled is here kept true all the way by naming what
  is still due. *Index*: unless a row changed under a worker, either the index has the text of now, or an
  event is due of which no worker has yet written the text, so the write is to come
  (`IndexInStep`). *Ranking*: a published post is ranked with a date or the event that brings
  one is due (`RankedOrDue`); the last event of a subject says how the subject is now
  (`LastTells`); and where events came in order, that event is due or the ranking agrees
  with the row (`LastCounts`). Scores are the sum of what was counted, at every step (`ScoresAddUp`, which
  takes the cardinality of the set of counted comments). *Inbox*: a notification is there or
  its event is due, and never two (`InboxInStep`). `EventsInStep`, `WorkersInStep` and `RowsInStep`
  relate log, workers and rows: a handler only ever meets an event of its own kind, and
  nothing is counted on a post that was never published.
* **`ReadProofs`**, of the cache: type correctness, `SessionsAreFound` and `StaleByRaceOnly`. The invariant
  ties the two structures together: a stored session is in the index unless the client that stored it is
  about to enter it, which needs the lock (`LockHeld`, `SessionsIndexed`); a stored page is in
  the index, about to be, or `raced` (`PagesIndexed`), which needs that only the leader of a
  load is in its steps (`OneLeader`).
* **`ReadProofs`**, of `Listing`: type correctness, `SteadyShown` and `NothingTwice` for every set of items
  and boards, every size of a page and any number of changes; `SteadyShownToUsers`, which says that
  only the two lists that administrators deal with can go astray; and `WalkAdvances`, that every
  page and every batch ends after the one before. Neither property is inductive. What is steady
  has been shown, is on the page, or is
  *still to come*: after the position of the next batch, in the batch, or beyond a full batch or page
  (`SteadyAhead`); that a lookup of boards loses nothing steady is `SteadyInStep`. What was shown
  and has not moved lies behind the cursor (`ShownBehind`), what was read lies after it and where
  it was read (`ReadInStep`), and the positions of page and batch are in order (`CursorInStep`). A
  place is `Settled` if only a move takes the item away from it, and downwards; this is what makes an
  item whose report was resolved no danger to the cursor. The proof stands on the order of finite sets
  of entries: `Minimal`, `LastIs` and `FirstIs` (the first `n` of a set are an initial part of it, and
  what is left over comes after at least `n`).
* **`ServerProofs`**: type correctness; `Refinement`, that every step of `Server` is a step or a
  stutter of `SerialStore`; `Stopping`; and `PoolLives`. That a commit is of the latest
  rows needs that one transaction at most has written, and that nobody has committed since it read
  (`OneWriter`), and that what a transaction has read is the latest unless it is marked stale
  (`SnapshotsLatest`); this is where SQLite's refusal of a write from an old snapshot enters. That it
  is whole needs that what a process has still to do fits what its transaction has done
  (`StepsInStep`): a change of the rows is followed by its event, a change of the schema by
  its record. `PhasesInStep` says what each phase of the shutdown has left behind, and `PoolInStep`
  counts the connections.
  `PoolLives` says that no more connections are in use than there are, and that those who hold one
  while they wait for another never hold all of them. Its hypothesis is that fewer administrators list reports at a
  time than there are connections; section 5 says what happens without it.

Each proof has one lemma or step per action.

Only model-checked are the liveness properties (`EventuallySettled`, `EventuallyUsable`,
`EventuallyCleaned`, `EventuallyCollected`, `RequestsAnswered`, `StopsAtLast`), which are out of the
prover's reach: they need fairness, and so `ENABLED`. Every invariant, action property and refinement
that a passing run checks is also a theorem.

## 5. Divergences

What follows was met while modelling. The first five are stated as properties of the modules:
listed as an `INVARIANT` or `PROPERTY` of a configuration with the constants named here, TLC finds a
counterexample.

* **Batches outlive their lease** (`SingleOwner` of `Outbox` under `TimelySpec` with
  `BatchSize = 2`). `FetchReady` leases a batch from the time of the poll, but only the message
  being handled is renewed. With the default batch size, a slow handler lets the leases of the
  later messages run out, and another healthy worker dispatches them too.
* **A used reset token can be used again** (`UsedOnce` of `PasswordReset`). Activation means clearing
  `ConsumedAt`; a token that was used looks like one not yet activated, and a repeated delivery
  re-activates it. A delivery under way also writes back the row that a newer request deleted
  (`OnlyLatestUsable`).
* **Starvation in guest cleanup** (`EventuallyCleaned` of `Guests` with `BatchSize` smaller than the
  number of guests). The oldest `BatchSize` candidates are selected before content and sessions
  are looked at; guests to be kept fill the batch for ever.
* **The cleanup job removes an attachment in use** (`RefsResolve` of `Attachments`). The job
  selects orphans outside a transaction. A text edited after that may embed one of them:
  validation accepts an orphan that is not hidden. The job then hides the row, with the orphaned
  time of its old copy, and removes file and row under a live post, which can no longer be
  published or edited without taking the reference out. `overtaken` remembers such
  attachments, and `ListedIsEmbedded` shows that this is the *only* way a reference is lost.
* **A list of reports needs two connections** (`PoolNeverStuck` of `Server`). `GetReports` holds
  a transaction and reads the reporters from repositories outside of it. With as many of these
  at a time as there are connections, nobody gets one again; with `MaxConns = 1`, which
  `docs/DECISIONS.md:5123` calls safe, one is enough. `RequestsAnswered` holds while fewer
  administrators list reports than there are connections; `PoolLives` proves that the pool is never
  stuck then.
* **A cached page its prefix does not find**: the run `Cache_prefix`.
* **Lists of administrators lose their place** (`strayed` in `Listing`). A page of dead
  events or reports starts after the item the page before ended with, looked up in the list of
  now: when that was requeued or resolved, the next page is empty, or starts below what is
  still pending.
* **A shared list is written to.** `post/query_handler.go:128` and its siblings set `TotalCount` on the
  list they got from the cache, which other requests read at the same time: a data race over
  a number that is the same unless posts came or went. The models leave the count out.
* **Backoff at its width.** `relay.go:249` shifts by the attempt count; from 64 attempts on, which
  `config.go` does not forbid, the shift wraps and the retry is immediate.
* **A file that can never be deleted** ends every run of the attachment cleanup at the same place, and
  nothing behind it in the queue is collected.
* A reset commits the new password first and deletes the sessions afterwards;
  `docs/ARCHITECTURE.md:119` says the opposite. If the process dies in between, the sessions
  die with it.
* An upload that fails because its request was cancelled removes its file with the same
  cancelled context, so the file stays, without a row (`leaked`).
* A login that checked the old password before a reset saves its session after it
  (`excused` in `SessionsOfThisPassword`).
* The compensation of a failed invalidation writes back the whole user row: a deletion
  or suspension committed meanwhile is undone.
* Two administrators who both saw a dead row requeue it twice; the second resets a row that
  is pending again, or even being handled.
* The write-back of a delivery revives a verification token of a user verified meanwhile.
* When the upgrade of a guest is rolled back, the verification token it issued stays.

## 6. Not modelled, and what is left

* *The MySQL variant*: its fetch and its weaker isolation. The models have SQLite's serial
  writers; MySQL would need a model of its own of row locks and snapshots.
* *In-memory persistence*: a double for the tests. `main.go` opens SQL repositories; of the package
  only the ranking runs in production, and that is modelled. A single mutex is held for a
  whole transaction, so there is nothing to interleave.
* *Rate limiter, configuration, policies*: a counter under one mutex, values read once, pure guards. The
  guards that decide an action are in it.
* *Pure text*: validation of input, wording of mails, rendering, the tokens of the search and the
  formula of the scores, image optimisation, formats of tokens and hashes. Who may call what is
  left out except where it decides an action: any user may be the one who may.
* *Swagger documents*: generated.

Left of the plan: the composition of `Outbox` with `Projections`, which stands on the promise
`AtLeastOnce` makes (it takes events in any order and again, and gives none up); MySQL.
