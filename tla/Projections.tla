---------------------------- MODULE Projections ----------------------------
(***************************************************************************)
(* What is derived from the events of posts, comments and reactions by the *)
(* handlers of the outbox relay: the full-text index of the search, the    *)
(* ranking of the feed, which lives in memory, and the inbox of            *)
(* notifications.  The relay promises no more than AtLeastOnce: several    *)
(* workers handle the events in any order, again after a failure or when a *)
(* lease ran out, so also two of them the same event at once.              *)
(*                                                                         *)
(* Of a post the model keeps how often its text and its date of            *)
(* publication changed, of the activity on it the scores.  The cache,      *)
(* whose handler runs first, is not part of it.                            *)
(***************************************************************************)
EXTENDS Integers, Sequences, FiniteSets

CONSTANTS
    Workers,
    MaxPosts, MaxComments, MaxEvents,   \* bounds: ever written, and announced
    MaxChanges,                         \* bound: changes of one post's text, and of its date
    MaxFaults                           \* bound: failed statements and restarts

ASSUME ProjectionsAssumption ==
    {MaxPosts, MaxComments, MaxEvents, MaxChanges, MaxFaults} \subseteq Nat /\ MaxChanges > 0

VARIABLES
    post,           \* post[p]: status, text, date of publication (0: never published)
    comment,        \* comment[c]: status, and the post it is on
    reaction,       \* reaction[p]: what the one user who reacts says of post p
    log,            \* the events announced, in the order of their transactions
    pending,        \* those the outbox keeps
    worker,         \* worker[w]: the event it handles, how far, and what it has read
    index,          \* index[p]: the text of post p the search finds it by
    rank,           \* rank[p]: what the ranking knows of post p
    commentStates,  \* commentStates[c]: the score comment c was counted with
    reactionStates, \* reactionStates[p]: the reaction the score of p has in it
    inbox,          \* the notifications: of which event, and whether read
    faults,         \* failures and restarts still to come
    overlapped,     \* history: posts whose row changed while a worker held an older text
    disordered      \* history: what was handled out of order, or lost with the memory

db == <<post, comment, reaction, log>>
ranking == <<rank, commentStates, reactionStates>>
vars == <<post, comment, reaction, log, pending, worker, index, ranking, inbox, faults,
          overlapped, disordered>>

Posts    == 1..MaxPosts
Comments == 1..MaxComments
Ids      == 1..MaxEvents
NoText   == 0       \* not in the index
NoPost   == 0
CommentScore == 2

Post     == [status : {"none", "draft", "published", "deleted"}, text : 0..MaxChanges, date : 0..MaxChanges]
Reaction == {"none", "like", "dislike"}
Subjects == ({"post", "reaction"} \X Posts) \cup ({"comment"} \X Comments)
Event    == [about : Subjects, post : Posts, op : {"changed", "created", "deleted", "set", "unset", "notify"},
             date : 0..MaxChanges, type : Reaction]
Snapshot == [known : BOOLEAN, date : 0..MaxChanges, comments : Int, reactions : Int]
Idle     == [event |-> 0, at |-> "idle", read |-> 0]
Unknown  == [known |-> FALSE, date |-> 0, comments |-> 0, reactions |-> 0]

TypeOK ==
    /\ post \in [Posts -> Post]
    /\ comment \in [Comments -> [status : {"none", "active", "deleted"}, post : Posts \cup {NoPost}]]
    /\ reaction \in [Posts -> Reaction]
    /\ log \in Seq(Event) /\ Len(log) <= MaxEvents
    /\ pending \subseteq DOMAIN log
    /\ worker \in [Workers -> [event : Ids \cup {0}, at : {"idle", "loaded", "indexed", "missing"},
                               read : 0..MaxChanges]]
    /\ index \in [Posts -> 0..MaxChanges]
    /\ rank \in [Posts -> Snapshot]
    /\ commentStates \in [Comments -> {0, CommentScore}]
    /\ reactionStates \in [Posts -> Reaction]
    /\ inbox \subseteq [event : DOMAIN log, read : BOOLEAN]
    /\ faults \in 0..MaxFaults
    /\ overlapped \subseteq Posts /\ disordered \subseteq Subjects

Init ==
    /\ post = [p \in Posts |-> [status |-> "none", text |-> 0, date |-> 0]]
    /\ comment = [c \in Comments |-> [status |-> "none", post |-> NoPost]]
    /\ reaction = [p \in Posts |-> "none"]
    /\ log = <<>> /\ pending = {}
    /\ worker = [w \in Workers |-> Idle]
    /\ index = [p \in Posts |-> NoText]
    /\ rank = [p \in Posts |-> Unknown]
    /\ commentStates = [c \in Comments |-> 0]
    /\ reactionStates = [p \in Posts |-> "none"]
    /\ inbox = {}
    /\ faults = MaxFaults
    /\ overlapped = {} /\ disordered = {}

Published(p) == post[p].status = "published"
Active(c)    == comment[c].status = "active"

-----------------------------------------------------------------------------
(* The commands: a change of rows and the events of it, in one transaction *)

NewEvent(about, p, op) ==
    [about |-> about, post |-> p, op |-> op, date |-> post'[p].date, type |-> "none"]

Announce(events) ==
    /\ Len(log) + Len(events) <= MaxEvents
    /\ log' = log \o events
    /\ pending' = pending \cup {Len(log) + i : i \in DOMAIN events}
    /\ UNCHANGED <<worker, index, ranking, inbox, faults, disordered>>

PostChanged(p, new, op) ==
    /\ post' = [post EXCEPT ![p] = new]
    /\ Announce(<<NewEvent(<<"post", p>>, p, op)>>)
    /\ overlapped' = IF \E w \in Workers : worker[w].at = "loaded" /\ log[worker[w].event].post = p
                     THEN overlapped \cup {p} ELSE overlapped

CreatePost(p) ==
    /\ post[p].status = "none"
    /\ PostChanged(p, [status |-> "published", text |-> 1, date |-> 1], "changed")
    /\ UNCHANGED <<comment, reaction>>

CreateDraftPost(p) ==
    /\ post[p].status = "none"
    /\ post' = [post EXCEPT ![p] = [status |-> "draft", text |-> 1, date |-> 0]]
    /\ UNCHANGED <<comment, reaction, log, pending, worker, index, ranking, inbox, faults,
                   overlapped, disordered>>

\* Also of a draft, which has no date.
UpdatePost(p) ==
    /\ post[p].status \in {"draft", "published"} /\ post[p].text < MaxChanges
    /\ PostChanged(p, [post[p] EXCEPT !.text = @ + 1], "changed")
    /\ UNCHANGED <<comment, reaction>>

\* Also again, with a new date.
PublishPost(p) ==
    /\ post[p].status \in {"draft", "published"} /\ post[p].date < MaxChanges
    /\ PostChanged(p, [status |-> "published", text |-> post[p].text, date |-> post[p].date + 1], "changed")
    /\ UNCHANGED <<comment, reaction>>

\* The comments and reactions go with the post: nothing else is announced of them.
DeletePost(p) ==
    /\ post[p].status \in {"draft", "published"}
    /\ PostChanged(p, [post[p] EXCEPT !.status = "deleted"], "deleted")
    /\ comment' = [c \in Comments |-> IF Active(c) /\ comment[c].post = p
                                      THEN [comment[c] EXCEPT !.status = "deleted"] ELSE comment[c]]
    /\ reaction' = [reaction EXCEPT ![p] = "none"]

\* On somebody else's post, who is told of it.
CreateComment(c, p) ==
    /\ comment[c].status = "none" /\ Published(p)
    /\ comment' = [comment EXCEPT ![c] = [status |-> "active", post |-> p]]
    /\ UNCHANGED <<post, reaction, overlapped>>
    /\ Announce(<<NewEvent(<<"comment", c>>, p, "notify"), NewEvent(<<"comment", c>>, p, "created")>>)

DeleteComment(c) ==
    /\ Active(c) /\ Published(comment[c].post)
    /\ comment' = [comment EXCEPT ![c] = [@ EXCEPT !.status = "deleted"]]
    /\ UNCHANGED <<post, reaction, overlapped>>
    /\ Announce(<<NewEvent(<<"comment", c>>, comment[c].post, "deleted")>>)

React(p, type) ==
    /\ Published(p) /\ reaction[p] # type
    /\ reaction' = [reaction EXCEPT ![p] = type]
    /\ UNCHANGED <<post, comment, overlapped>>
    /\ Announce(<<[NewEvent(<<"reaction", p>>, p, IF type = "none" THEN "unset" ELSE "set")
                   EXCEPT !.type = IF type = "none" THEN reaction[p] ELSE type]>>)

-----------------------------------------------------------------------------
(* The search index *)

\* A published post's text as it is now.
loadSearchDocumentByPostID(p) == IF Published(p) THEN post[p].text ELSE NoText

At(w, at) == worker[w].at = at
Handled(w) == log[worker[w].event]

\* A worker takes an event of a post, any that is pending, and reads the post.
Load(w, e) ==
    /\ At(w, "idle") /\ e \in pending
    /\ log[e].about[1] = "post" /\ log[e].op = "changed"
    /\ worker' = [worker EXCEPT ![w] =
         [event |-> e, at |-> "loaded", read |-> loadSearchDocumentByPostID(log[e].post)]]
    /\ UNCHANGED <<db, pending, index, ranking, inbox, faults, overlapped, disordered>>

\* Fault: what the index has is kept.
InsertSearchDocument(p, text) == [index EXCEPT ![p] = IF @ = NoText THEN text ELSE @]

\* What was read replaces what the index had, in a transaction of its own.
UpsertSearchDocument(p, text) == [index EXCEPT ![p] = text]

UpsertPost(w) ==
    /\ At(w, "loaded")
    /\ index' = UpsertSearchDocument(Handled(w).post, worker[w].read)
    /\ worker' = [worker EXCEPT ![w] = [event |-> worker[w].event, at |-> "indexed", read |-> 0]]
    /\ UNCHANGED <<db, pending, ranking, inbox, faults, overlapped, disordered>>

DeleteFromIndex(w, e) ==
    /\ At(w, "idle") /\ e \in pending
    /\ log[e].about[1] = "post" /\ log[e].op = "deleted"
    /\ index' = [index EXCEPT ![log[e].post] = NoText]
    /\ worker' = [worker EXCEPT ![w] = [event |-> e, at |-> "indexed", read |-> 0]]
    /\ UNCHANGED <<db, pending, ranking, inbox, faults, overlapped, disordered>>

-----------------------------------------------------------------------------
(* The ranking: every operation under one mutex, nothing that fails *)

\* Fault: an event without a date takes it away.
SnapshotOf(p, date) == [rank[p] EXCEPT !.known = TRUE, !.date = date]

\* Whatever the post is by now, it counts as published; a date once known is kept.
UpsertPostSnapshot(p, date) ==
    [rank[p] EXCEPT !.known = TRUE, !.date = IF date = 0 THEN @ ELSE date]

Weight(type) == CASE type = "like" -> 1 [] type = "dislike" -> -1 [] OTHER -> 0

\* Fault: every event counts.
ApplyCommentAgain(p, c, delta) ==
    /\ rank' = [rank EXCEPT ![p].comments = @ + delta]
    /\ commentStates' = [commentStates EXCEPT ![c] = IF delta > 0 THEN delta ELSE 0]
    /\ UNCHANGED reactionStates

\* Each comment counts once, and is taken back once: commentStates remembers.
ApplyCommentDelta(p, c, delta) ==
    LET new == IF delta > 0 THEN delta ELSE 0
    IN  /\ rank' = [rank EXCEPT ![p] = [rank[p] EXCEPT !.comments = @ + new - commentStates[c]]]
        /\ commentStates' = [commentStates EXCEPT ![c] = new]
        /\ UNCHANGED reactionStates

ApplyReactionDelta(p, type) ==
    /\ rank' = [rank EXCEPT ![p] = [rank[p] EXCEPT !.reactions = @ + Weight(type) - Weight(reactionStates[p])]]
    /\ reactionStates' = [reactionStates EXCEPT ![p] = type]
    /\ UNCHANGED commentStates

RankPost(e) ==
    /\ rank' = [rank EXCEPT ![e.post] =
                  IF e.op = "deleted" THEN Unknown ELSE UpsertPostSnapshot(e.post, e.date)]
    /\ UNCHANGED <<commentStates, reactionStates>>

\* Activity on a post the ranking does not know is ignored.
RankActivity(e) ==
    \/ ~rank[e.post].known /\ UNCHANGED ranking
    \/ /\ rank[e.post].known
       /\ \/ e.about[1] = "comment"
             /\ ApplyCommentDelta(e.post, e.about[2], IF e.op = "created" THEN CommentScore ELSE -CommentScore)
          \/ e.op = "set" /\ ApplyReactionDelta(e.post, e.type)
          \/ e.op = "unset" /\ ApplyReactionDelta(e.post, "none")

\* Whether event e comes too late: a later one of the same subject has been handled, or
\* too early: the ranking does not know its post.
OutOfOrder(e) ==
    \/ \E f \in DOMAIN log \ pending : f > e /\ log[f].about = log[e].about /\ log[f].op # "notify"
    \/ log[e].about[1] # "post" /\ ~rank[log[e].post].known

\* The relay marks the event, or the statement fails and it is handled again later.
Mark(e) ==
    \/ pending' = pending \ {e} /\ UNCHANGED faults
    \/ faults > 0 /\ faults' = faults - 1 /\ UNCHANGED pending

Ranked(e) ==
    /\ disordered' = IF OutOfOrder(e) THEN disordered \cup {log[e].about} ELSE disordered
    /\ Mark(e)

RankPostChanged(w) ==
    /\ At(w, "indexed")
    /\ RankPost(Handled(w))
    /\ Ranked(worker[w].event)
    /\ worker' = [worker EXCEPT ![w] = Idle]
    /\ UNCHANGED <<db, index, inbox, overlapped>>

\* The events of comments and reactions, which only the ranking reads.
RankActivityChanged(w, e) ==
    /\ At(w, "idle") /\ e \in pending
    /\ log[e].op \in {"created", "set", "unset"} \/ (log[e].op = "deleted" /\ log[e].about[1] = "comment")
    /\ RankActivity(log[e])
    /\ Ranked(e)
    /\ UNCHANGED <<db, worker, index, inbox, overlapped>>

-----------------------------------------------------------------------------
(* The inbox *)

findExisting(e) == {n \in inbox : n.event = e}

\* Whether the notification of the event is there already.
FindNotification(w, e) ==
    /\ At(w, "idle") /\ e \in pending /\ log[e].op = "notify"
    /\ IF findExisting(e) # {}
       THEN Mark(e) /\ UNCHANGED worker
       ELSE worker' = [worker EXCEPT ![w] = [event |-> e, at |-> "missing", read |-> 0]]
            /\ UNCHANGED <<pending, faults>>
    /\ UNCHANGED <<db, index, ranking, inbox, overlapped, disordered>>

\* Fault: the row replaces the one another worker wrote.
ReplaceNotification(e) == inbox' = (inbox \ findExisting(e)) \cup {[event |-> e, read |-> FALSE]}

\* Fault: without the unique index, a row of its own.
InsertAnother(e) == inbox' = inbox \cup {[event |-> e, read |-> FALSE]}

\* The index on dedup_key refuses a second row for the event.
InsertNotification(e) ==
    /\ findExisting(e) = {}
    /\ inbox' = inbox \cup {[event |-> e, read |-> FALSE]}

Refused(e) == findExisting(e) # {}

SaveNotification(w) ==
    /\ At(w, "missing")
    /\ LET e == worker[w].event
       IN  \/ InsertNotification(e) /\ Mark(e)
           \/ Refused(e) /\ UNCHANGED <<inbox, pending, faults>>
    /\ worker' = [worker EXCEPT ![w] = Idle]
    /\ UNCHANGED <<db, index, ranking, overlapped, disordered>>

MarkMyNotificationRead(n) ==
    /\ ~n.read
    /\ inbox' = (inbox \ {n}) \cup {[n EXCEPT !.read = TRUE]}
    /\ UNCHANGED <<db, pending, worker, index, ranking, faults, overlapped, disordered>>

MarkAllMyNotificationsRead ==
    /\ \E n \in inbox : ~n.read
    /\ inbox' = {[n EXCEPT !.read = TRUE] : n \in inbox}
    /\ UNCHANGED <<db, pending, worker, index, ranking, faults, overlapped, disordered>>

-----------------------------------------------------------------------------
(* Failures *)

\* A handler fails before its write: the relay gives the event up for now.
HandlerFails(w) ==
    /\ worker[w].at \in {"loaded", "missing"}
    /\ faults > 0 /\ faults' = faults - 1
    /\ worker' = [worker EXCEPT ![w] = Idle]
    /\ UNCHANGED <<db, pending, index, ranking, inbox, overlapped, disordered>>

\* The process ends and starts again: the index is built anew before the relay runs, the
\* ranking from the published posts alone.
RebuildAll == [p \in Posts |-> loadSearchDocumentByPostID(p)]

seedPostRankingSnapshots ==
    [p \in Posts |-> IF Published(p)
                     THEN [known |-> TRUE, date |-> post[p].date, comments |-> 0, reactions |-> 0]
                     ELSE Unknown]

Restart ==
    /\ faults > 0 /\ faults' = faults - 1
    /\ worker' = [w \in Workers |-> Idle]
    /\ index' = RebuildAll
    /\ rank' = seedPostRankingSnapshots
    /\ commentStates' = [c \in Comments |-> 0]
    /\ reactionStates' = [p \in Posts |-> "none"]
    /\ disordered' = disordered \cup {s \in Subjects : s[1] # "post"}
    /\ UNCHANGED <<db, pending, inbox, overlapped>>

-----------------------------------------------------------------------------
Command ==
    \/ \E p \in Posts : \/ CreatePost(p) \/ CreateDraftPost(p) \/ UpdatePost(p) \/ PublishPost(p)
                        \/ DeletePost(p)
                        \/ \E c \in Comments : CreateComment(c, p)
                        \/ \E t \in Reaction : React(p, t)
    \/ \E c \in Comments : DeleteComment(c)

Handling ==
    \E w \in Workers :
      \/ UpsertPost(w) \/ RankPostChanged(w) \/ SaveNotification(w) \/ HandlerFails(w)
      \/ \E e \in pending : Load(w, e) \/ DeleteFromIndex(w, e) \/ RankActivityChanged(w, e)
                            \/ FindNotification(w, e)

Next ==
    \/ Command \/ Handling \/ Restart
    \/ \E n \in inbox : MarkMyNotificationRead(n)
    \/ MarkAllMyNotificationsRead

Spec == Init /\ [][Next]_vars

-----------------------------------------------------------------------------
(* Properties *)

Quiet == pending = {} /\ \A w \in Workers : At(w, "idle")

\* What a query of the ranking puts on the feed: posts that are not deleted, in the order
\* of dates a draft does not have.
ListFeed == {p \in Posts : rank[p].known /\ rank[p].date > 0}
loadRankedPosts == {p \in ListFeed : post[p].status \in {"draft", "published"}}

\* Once all events are handled, in whatever order and how often, every post is found by the
\* text it has now, unless its row changed while a worker stood between reading and writing it
\* (PostSearchRepository.UpsertPost reads the post anew for each event).
IndexTrue == Quiet => \A p \in Posts \ overlapped : index[p] = loadSearchDocumentByPostID(p)

\* The feed never shows a post that is not published, even if a late event brings a deleted
\* post back into the ranking; once all is handled it shows every published one, also after a
\* restart, with its date unless two events of it came in the wrong order.
FeedTrue ==
    /\ \A p \in loadRankedPosts : Published(p)
    /\ Quiet => \A p \in Posts : Published(p) =>
                  /\ p \in loadRankedPosts
                  /\ <<"post", p>> \notin disordered => rank[p].date = post[p].date

\* The score of a post is made of the comments and reactions counted, each once however
\* often its events are handled; once all is handled those are the active ones, but for what
\* came out of order or was counted before the last restart.
CountedOnce ==
    \A p \in Posts : Published(p) /\ rank[p].known =>
      LET on == {c \in Comments : comment[c].post = p}
      IN  /\ rank[p].comments = CommentScore * Cardinality({c \in on : commentStates[c] # 0})
          /\ rank[p].reactions = Weight(reactionStates[p])
          /\ Quiet => /\ \A c \in on : \/ <<"comment", c>> \in disordered
                                       \/ Active(c) <=> commentStates[c] # 0
                      /\ <<"reaction", p>> \in disordered \/ reactionStates[p] = reaction[p]

\* A comment is told of once, and what its recipient has read stays read, however many
\* workers handle the event at once (NotificationRepository.Save, with the unique dedup_key).
NotifiedOnce == Quiet => \A e \in DOMAIN log : log[e].op = "notify" => Cardinality(findExisting(e)) = 1
ReadStaysRead == [][\A n \in inbox : \E m \in inbox' : m.event = n.event /\ (n.read => m.read)]_vars

-----------------------------------------------------------------------------
(* The inductive invariant *)

\* What an event is about is there, and on the post the event names.
EventsInStep ==
    \A e \in DOMAIN log :
      LET v == log[e]
      IN  /\ v.about[1] = "post" =>
                /\ v.about = <<"post", v.post>> /\ v.op \in {"changed", "deleted"}
                /\ v.op = "deleted" => post[v.post].status = "deleted"
          /\ v.about[1] = "comment" =>
                /\ v.op \in {"notify", "created", "deleted"}
                /\ comment[v.about[2]].status # "none" /\ comment[v.about[2]].post = v.post
          /\ v.about[1] = "reaction" => v.about = <<"reaction", v.post>> /\ v.op \in {"set", "unset"}

\* A worker holds an event of the kind its handler is for.
WorkersInStep ==
    \A w \in Workers :
        /\ ~At(w, "idle") => worker[w].event \in DOMAIN log
        /\ At(w, "loaded") => Handled(w).about[1] = "post" /\ Handled(w).op = "changed"
        /\ At(w, "indexed") => Handled(w).about[1] = "post"
        /\ At(w, "missing") => Handled(w).op = "notify"

\* A post has a date, and the ranking one of it, only from its publication on; there are
\* comments only on what was published, and only those are counted.
RowsInStep ==
    /\ \A p \in Posts :
         /\ post[p].status \in {"none", "draft"} =>
               /\ post[p].date = 0 /\ rank[p].date = 0
               /\ \A e \in DOMAIN log : log[e].about = <<"post", p>> => log[e].date = 0
         /\ Published(p) => post[p].date > 0
    /\ \A c \in Comments :
         IF comment[c].status = "none" THEN comment[c].post = NoPost /\ commentStates[c] = 0
         ELSE comment[c].post \in Posts /\ post[comment[c].post].status \in {"published", "deleted"}

\* Where no row changed under a worker, all workers hold the text as it is now, and the index
\* has it unless an event is due of which no worker has written a text yet.
IndexInStep ==
    \A p \in Posts \ overlapped :
        /\ \A w \in Workers : At(w, "loaded") /\ Handled(w).post = p =>
                                worker[w].read = loadSearchDocumentByPostID(p)
        /\ \/ index[p] = loadSearchDocumentByPostID(p)
           \/ \E e \in pending :
                 /\ log[e].about = <<"post", p>>
                 /\ \A w \in Workers : At(w, "indexed") => worker[w].event # e

\* One notification at most of an event, and one at least of an event that is done with.
InboxInStep ==
    /\ \A m, n \in inbox : m.event = n.event => m = n
    /\ \A e \in DOMAIN log : log[e].op = "notify" => e \in pending \/ findExisting(e) # {}

\* A published post is ranked with a date, or an event is due that brings it one.
RankedOrDue ==
    \A p \in Posts : Published(p) =>
      \/ rank[p].known /\ rank[p].date > 0
      \/ \E e \in pending : log[e].about = <<"post", p>> /\ log[e].date > 0

\* A score is the sum of what was counted.
ScoresAddUp ==
    \A p \in Posts : post[p].status # "deleted" =>
      /\ rank[p].comments =
           CommentScore * Cardinality({c \in Comments : comment[c].post = p /\ commentStates[c] # 0})
      /\ rank[p].reactions = Weight(reactionStates[p])

\* Subjects the events are still to keep up with, the last of the events of a subject, and
\* what it has to say: how the subject is now.
Live(s) ==
    \/ s[1] = "post" /\ Published(s[2])
    \/ s[1] = "comment" /\ comment[s[2]].status # "none" /\ post[comment[s[2]].post].status # "deleted"
    \/ s[1] = "reaction" /\ post[s[2]].status # "deleted"

IsLast(e, s) ==
    /\ log[e].about = s /\ log[e].op # "notify"
    /\ \A f \in DOMAIN log : log[f].about = s /\ log[f].op # "notify" => f <= e

Tells(e, s) ==
    CASE s[1] = "post"     -> log[e].op = "changed" /\ log[e].date = post[s[2]].date
      [] s[1] = "comment"  -> log[e].op = "created" <=> Active(s[2])
      [] s[1] = "reaction" -> reaction[s[2]] = IF log[e].op = "unset" THEN "none" ELSE log[e].type

Settled(s) ==
    CASE s[1] = "post"     -> rank[s[2]].known /\ rank[s[2]].date = post[s[2]].date
      [] s[1] = "comment"  -> commentStates[s[2]] # 0 <=> Active(s[2])
      [] s[1] = "reaction" -> reactionStates[s[2]] = reaction[s[2]]

Unsaid(s) ==
    /\ s[1] = "reaction" /\ reaction[s[2]] = "none" /\ reactionStates[s[2]] = "none"
    /\ \A e \in DOMAIN log : log[e].about # s

LastTells ==
    \A s \in Subjects : Live(s) => Unsaid(s) \/ \E e \in DOMAIN log : IsLast(e, s) /\ Tells(e, s)

\* Where all came in order, whoever has handled the last event has counted it last.
LastCounts ==
    \A s \in Subjects \ disordered : Live(s) =>
      \A e \in DOMAIN log : IsLast(e, s) => e \in pending \/ Settled(s)

IInv ==
    /\ TypeOK /\ EventsInStep /\ WorkersInStep /\ RowsInStep
    /\ IndexInStep
    /\ InboxInStep
    /\ RankedOrDue
    /\ ScoresAddUp
    /\ LastTells /\ LastCounts

=============================================================================
