------------------------------ MODULE Listing ------------------------------
(***************************************************************************)
(* A client walks through a list page by page, each page from the cursor   *)
(* the page before ended with, while items come and go, boards are hidden  *)
(* and scores change.  The lists:                                          *)
(*   "board", "drafts", "inbox", "comments", "boards"                      *)
(*       the posts of a board, the drafts or notifications of a user, the  *)
(*       comments of a post, the boards: one query a page, by id           *)
(*   "allboards"                                                           *)
(*       the boards for an administrator, hidden or not                    *)
(*   "dead", "reports"                                                     *)
(*       for administrators: the events given up, or what else leaves the  *)
(*       list when it is dealt with, newest first; and all reports, those  *)
(*       that are pending first                                            *)
(*   "tag"      the posts of a tag, by id                                  *)
(*   "ranked"   the feed, or the posts of a tag or a search in its order,  *)
(*              by the score they have in the ranking                      *)
(*   "search"   what a search finds, by relevance                          *)
(* The newest id and the highest score come first.  A page of the lists of *)
(* administrators starts after the item the page before ended with, where  *)
(* that is now, the others after the position it had.  The last three are  *)
(* read in batches until the page is full: what is in hidden boards, or is *)
(* not what was asked for, is left out after it is fetched.  Every page is *)
(* loaded here; that the cache may answer instead is the subject of Cache. *)
(* A rank stands for the score and, among equal scores, the date.          *)
(***************************************************************************)
EXTENDS Integers, FiniteSets

CONSTANTS
    Items,          \* their ids
    Boards,
    Parent,         \* Parent[i]: the comment that comment i answers, 0 if none
    Limit,          \* items on a page
    MaxRank,        \* bound: of the ranks
    MaxTurns        \* bound: of the changes during a walk

ASSUME ListingAssumption ==
    /\ Items \subseteq Nat \ {0} /\ IsFiniteSet(Items)
    /\ Boards # {}
    /\ Parent \in [Items -> Items \cup {0}]
    /\ Limit \in Nat \ {0}
    /\ MaxRank \in Nat
    /\ MaxTurns \in Nat

VARIABLES
    kind,       \* of the list
    status,     \* status[i]: of the row of item i; a draft is not there yet, but in "drafts"
    board,      \* board[i]: where post i is; it stays there
    matches,    \* the posts that have the tag, or the words of the search
    rank,       \* rank[i]: of post i in the ranking or the search
    hidden,     \* boards that are hidden
    changes,    \* how many changes there were
    step,       \* of the load of a page, or "over", or "failed"
    cursor,     \* the position the page before ended with
    from,       \* the position the next batch starts after
    wanted,     \* the matches this load has read
    batch,      \* what was fetched last: items with the positions they had
    alive,      \* those of the batch that are published
    visible,    \* what this load knows of the boards it has seen
    found,      \* what the page has so far
    shown,      \* history: how often each item was shown
    strayed,    \* history: a page began after an item that was not where it had been
    steady,     \* history: items that were listed, and in one place, all through the walk
    moved       \* history: items whose rank has changed

world == <<kind, status, board, matches, rank, hidden, changes>>
load  == <<step, cursor, from, wanted, batch, alive, visible, found>>
walkVars ==
    <<kind, status, board, matches, rank, hidden, changes, step, cursor, from, wanted, batch,
      alive, visible, found, shown, strayed, steady, moved>>

Scored   == {"ranked", "search"}            \* lists in the order of a score
Chosen   == {"tag", "ranked", "search"}     \* lists of what matches, in all boards
Unranked == -1
Start    == <<>>                            \* the cursor of the first page

\* One more than the page shows is fetched, to know whether there is a next page.
FetchSize == Limit + 1

------------------------------------------------------------------------------
(* The order of a list.                                                    *)

Position(i) ==
    CASE kind \in Scored    -> <<rank[i], i>>
      [] kind = "reports"   -> <<IF status[i] = "published" THEN 1 ELSE 0, i>>
      [] OTHER              -> <<0, i>>

Precedes(p, q) == p[1] > q[1] \/ (p[1] = q[1] /\ p[2] > q[2])

\* Fault: the item the page before ended with is fetched again.
AfterOrAt(at, p) == at = Start \/ ~Precedes(p, at)

AfterCursor(at, p) == at = Start \/ Precedes(at, p)

\* An item where it is; what is fetched or shown is a set of these, in the order of `at`.
Entry(i) == [id |-> i, at |-> Position(i)]

\* The first n entries, and the last one.
FirstOf(set, n) ==
    {x \in set : Cardinality({y \in set : Precedes(y.at, x.at)}) < n}

LastOf(set) == CHOOSE x \in set : \A y \in set : ~Precedes(x.at, y.at)

InOrder(source) == FirstOf({Entry(i) : i \in source}, FetchSize)

Fetched(source) == InOrder({i \in source : AfterCursor(from, Position(i))})

\* The item the page before ended with, if it is still listed, and what follows it now.
LastShown(source) == {i \in source : from # Start /\ i = from[2]}

Following(source) ==
    {i \in source : from = Start \/ \E j \in LastShown(source) : Precedes(Position(j), Position(i))}

------------------------------------------------------------------------------
(* What the queries select.                                                *)

\* The board whose list is read; where the post is whose comments are read.
TheBoard == CHOOSE b \in Boards : TRUE

Published == {i \in Items : status[i] = "published"}

SelectPosts == {i \in Published : board[i] = TheBoard}

SelectDraftPostsByAuthorID == {i \in Items : status[i] = "draft"}

\* A notification stays.
SelectByRecipientUserID == {i \in Items : status[i] # "draft"}

\* A deleted comment stays while an answer to it is there.
SelectVisibleComments ==
    {i \in Items : i \in Published \/ (status[i] = "deleted" /\ \E j \in Published : Parent[j] = i)}

\* A board that is hidden may be shown again, an event that was given up and sent
\* anew may be given up again: either has its old place then.
SelectBoardList == Published

\* Here only a board that is deleted is missing.
SelectBoardListIncludingHidden == Published

SelectDead == Published

\* A report that is resolved stays, after those that are pending.
SelectList == {i \in Items : status[i] # "draft"}

SelectPublishedPostsByTagName == Published \cap matches

\* Those found in the index before, whose rows still match.
SearchPublishedPosts == Published \cap matches \cap wanted

\* The ranking has what its last event said, whatever the rows say.
ListFeed == {i \in Items : rank[i] # Unranked}

Listed ==
    CASE kind = "board"    -> SelectPosts
      [] kind = "drafts"   -> SelectDraftPostsByAuthorID
      [] kind = "inbox"    -> SelectByRecipientUserID
      [] kind = "comments" -> SelectVisibleComments
      [] kind = "boards"   -> SelectBoardList
      [] kind = "allboards" -> SelectBoardListIncludingHidden
      [] kind = "dead"     -> SelectDead
      [] kind = "reports"  -> SelectList
      [] kind \in Chosen   -> {i \in Published \cap matches : /\ board[i] \notin hidden
                                                              /\ kind = "ranked" => i \in ListFeed}

------------------------------------------------------------------------------
(* The load of a page.                                                     *)

\* A hidden board, and what is in it, is not found.
CheckBoard ==
    /\ step = "check"
    /\ step' = IF TheBoard \in hidden THEN "failed" ELSE "fetch"
    /\ UNCHANGED <<world, cursor, from, wanted, batch, alive, visible, found, shown, strayed, steady, moved>>

LoadCursorListPage(source) ==
    /\ step = "fetch"
    /\ found' = Fetched(source)
    /\ step' = "page"
    /\ UNCHANGED <<world, cursor, from, wanted, batch, alive, visible, shown, strayed, steady, moved>>

\* When the item the page before ended with has left the list, this page is empty.
LoadAdminPage(source) ==
    /\ step = "fetch"
    /\ found' = InOrder(Following(source))
    /\ strayed' = (strayed \/ (from # Start /\ from \notin {Position(i) : i \in LastShown(source)}))
    /\ step' = "page"
    /\ UNCHANGED <<world, cursor, from, wanted, batch, alive, visible, shown, steady, moved>>

LoadMatchSet ==
    /\ step = "match"
    /\ wanted' = matches
    /\ step' = "fetch"
    /\ UNCHANGED <<world, cursor, from, batch, alive, visible, found, shown, strayed, steady, moved>>

FetchBatch(source) ==
    /\ step = "fetch"
    /\ batch' = Fetched(source)
    /\ alive' = {x.id : x \in Fetched(source)}
    /\ step' = IF Fetched(source) = {} THEN "page" ELSE IF kind = "ranked" THEN "select" ELSE "boards"
    /\ UNCHANGED <<world, cursor, from, wanted, visible, found, shown, strayed, steady, moved>>

\* The ranking has no rows; those of the batch are read now.
SelectPostsByIDs ==
    /\ step = "select"
    /\ alive' = alive \cap Published
    /\ step' = "boards"
    /\ UNCHANGED <<world, cursor, from, wanted, batch, visible, found, shown, strayed, steady, moved>>

\* A board is looked up once in a load.
resolveBoardVisibility ==
    [b \in DOMAIN visible \cup {board[i] : i \in alive} |->
        IF b \in DOMAIN visible THEN visible[b] ELSE b \notin hidden]

\* Fault: a batch of which nothing is left ends the list.
EnoughIfNoneLeft(sofar) ==
    Cardinality(sofar) >= FetchSize \/ Cardinality(batch) < FetchSize \/ sofar = {}

Enough(sofar) == Cardinality(sofar) >= FetchSize \/ Cardinality(batch) < FetchSize

\* What is shown of a batch, once its boards are looked up.
Kept(seen) ==
    {x \in batch : /\ x.id \in alive
                   /\ seen[board[x.id]]
                   /\ kind = "ranked" => x.id \in wanted}

\* Unless the page is full or the list at its end, the next batch starts where
\* this one ended, not where what is left of it ends.
KeepVisible(again) ==
    /\ step = "boards"
    /\ visible' = resolveBoardVisibility
    /\ LET all == FirstOf(found \cup Kept(resolveBoardVisibility), FetchSize)
       IN  /\ found' = all
           /\ step' = IF Enough(all) THEN "page" ELSE again
    /\ from' = LastOf(batch).at
    /\ UNCHANGED <<world, cursor, wanted, batch, alive, shown, strayed, steady, moved>>

\* Of what was fetched, the page shows Limit items; the next one starts after the last of these.
Page    == FirstOf(found, Limit)
HasMore == Cardinality(found) > Limit

NextCursor == LastOf(Page).at

\* The next page begins with step again, if there is one.
ShowPage(again) ==
    /\ step = "page"
    /\ shown' = [i \in Items |-> shown[i] + Cardinality({x \in Page : x.id = i})]
    /\ \/ HasMore /\ step' = again /\ cursor' = NextCursor /\ from' = NextCursor
       \/ ~HasMore /\ step' = "over" /\ cursor' = cursor /\ from' = cursor
    /\ wanted' = {} /\ batch' = {} /\ alive' = {} /\ visible' = <<>> /\ found' = {}
    /\ UNCHANGED <<world, strayed, steady, moved>>

------------------------------------------------------------------------------
(* The lists.                                                              *)

GetPostsList ==
    /\ kind = "board"
    /\ CheckBoard \/ LoadCursorListPage(SelectPosts) \/ ShowPage("check")

GetMyDraftPosts ==
    /\ kind = "drafts"
    /\ LoadCursorListPage(SelectDraftPostsByAuthorID) \/ ShowPage("fetch")

GetMyNotifications ==
    /\ kind = "inbox"
    /\ LoadCursorListPage(SelectByRecipientUserID) \/ ShowPage("fetch")

GetCommentsByPost ==
    /\ kind = "comments"
    /\ CheckBoard \/ LoadCursorListPage(SelectVisibleComments) \/ ShowPage("check")

GetBoards ==
    /\ kind = "boards"
    /\ LoadCursorListPage(SelectBoardList) \/ ShowPage("fetch")

GetAllBoards ==
    /\ kind = "allboards"
    /\ LoadCursorListPage(SelectBoardListIncludingHidden) \/ ShowPage("fetch")

GetDeadMessages ==
    /\ kind = "dead"
    /\ LoadAdminPage(SelectDead) \/ ShowPage("fetch")

GetReports ==
    /\ kind = "reports"
    /\ LoadAdminPage(SelectList) \/ ShowPage("fetch")

GetPostsByTag ==
    /\ kind = "tag"
    /\ FetchBatch(SelectPublishedPostsByTagName) \/ KeepVisible("fetch") \/ ShowPage("fetch")

\* The index is asked anew for every batch.
SearchPosts ==
    /\ kind = "search"
    /\ \/ LoadMatchSet \/ FetchBatch(SearchPublishedPosts) \/ KeepVisible("match")
       \/ ShowPage("match")

\* For the feed everything matches.
GetFeed ==
    /\ kind = "ranked"
    /\ \/ LoadMatchSet \/ FetchBatch(ListFeed) \/ SelectPostsByIDs \/ KeepVisible("fetch")
       \/ ShowPage("match")

FirstStep ==
    CASE kind \in {"board", "comments"} -> "check"
      [] kind \in Scored                -> "match"
      [] OTHER                          -> "fetch"

Walk ==
    \/ GetPostsList \/ GetMyDraftPosts \/ GetMyNotifications \/ GetCommentsByPost
    \/ GetBoards \/ GetAllBoards \/ GetDeadMessages \/ GetReports
    \/ GetPostsByTag \/ SearchPosts \/ GetFeed

------------------------------------------------------------------------------
(* What changes meanwhile.                                                 *)

Changing ==
    /\ changes < MaxTurns
    /\ step \notin {"over", "failed"}
    /\ changes' = changes + 1
    /\ UNCHANGED <<kind, board, load, shown, strayed>>

\* A draft is published, or a comment written.
PublishPost(i) ==
    /\ Changing
    /\ status[i] = "draft"
    /\ status' = [status EXCEPT ![i] = "published"]
    /\ UNCHANGED <<matches, rank, hidden, moved>>
    /\ steady' = steady \cap Listed'

\* A post or comment is deleted, a board hidden, an event sent anew or discarded.
DeletePost(i) ==
    /\ Changing
    /\ kind # "reports"
    /\ status[i] = "published"
    /\ status' = [status EXCEPT ![i] = "deleted"]
    /\ UNCHANGED <<matches, rank, hidden, moved>>
    /\ steady' = steady \cap Listed'

ComesBack(i) ==
    /\ Changing
    /\ kind \in {"boards", "dead"}
    /\ status[i] = "deleted"
    /\ status' = [status EXCEPT ![i] = "published"]
    /\ UNCHANGED <<matches, rank, hidden, moved, steady>>

ResolveReport(i) ==
    /\ Changing
    /\ kind = "reports"
    /\ status[i] = "published"
    /\ status' = [status EXCEPT ![i] = "deleted"]
    /\ steady' = steady \ {i}
    /\ moved' = moved \cup {i}
    /\ UNCHANGED <<matches, rank, hidden>>

\* A tag comes or goes, or a text is edited and the index told.
Retag(i) ==
    /\ Changing
    /\ kind \in Chosen
    /\ matches' = IF i \in matches THEN matches \ {i} ELSE matches \cup {i}
    /\ UNCHANGED <<status, rank, hidden, moved>>
    /\ steady' = steady \cap Listed'

Moves(i, ranks) ==
    /\ \E r \in ranks \ {rank[i]} : rank' = [rank EXCEPT ![i] = r]
    /\ steady' = steady \ {i}
    /\ moved' = moved \cup {i}
    /\ UNCHANGED <<status, matches, hidden>>

\* An event reaches the ranking, or activity grows old.
Rerank(i) ==
    Changing /\ kind = "ranked" /\ status[i] # "draft" /\ Moves(i, 0..MaxRank \cup {Unranked})

\* The texts change, of this post or of others: its score depends on them all.
Rescore(i) == Changing /\ kind = "search" /\ Moves(i, 0..MaxRank)

SetBoardVisibility(b) ==
    /\ Changing
    /\ kind \in Chosen \cup {"board", "comments"}
    /\ hidden' = IF b \in hidden THEN hidden \ {b} ELSE hidden \cup {b}
    /\ UNCHANGED <<status, matches, rank, moved>>
    /\ steady' = steady \cap Listed'

WalkInit ==
    /\ kind \in Chosen \cup {"board", "drafts", "inbox", "comments", "boards", "allboards", "dead",
                            "reports"}
    /\ status \in [Items -> {"draft", "published"}]
    /\ board \in IF kind \in Chosen \cup {"board"} THEN [Items -> Boards]
                 ELSE {[i \in Items |-> TheBoard]}
    /\ matches \in IF kind \in Chosen THEN SUBSET Items ELSE {Items}
    /\ rank \in {r \in [Items -> 0..MaxRank \cup {Unranked}] :
                    \A i \in Items : r[i] = Unranked <=>
                        kind \notin Scored \/ (kind = "ranked" /\ status[i] # "published")}
    /\ hidden \in SUBSET Boards
    /\ changes = 0
    /\ step = FirstStep
    /\ cursor = Start /\ from = Start
    /\ wanted = {} /\ batch = {} /\ alive = {} /\ visible = <<>> /\ found = {}
    /\ shown = [i \in Items |-> 0]
    /\ strayed = FALSE
    /\ steady = Listed
    /\ moved = {}

WalkNext ==
    \/ Walk
    \/ \E i \in Items : \/ PublishPost(i) \/ DeletePost(i) \/ ComesBack(i) \/ ResolveReport(i)
                        \/ Retag(i) \/ Rerank(i) \/ Rescore(i)
    \/ \E b \in Boards : SetBoardVisibility(b)

WalkSpec == WalkInit /\ [][WalkNext]_walkVars

------------------------------------------------------------------------------
\* What was listed, and in one place, all through a walk has been shown when the
\* walk is over, whatever came, went and moved around it; in the lists of
\* administrators only while nobody deals with the item a page ended with.
SteadyIsShown == step = "over" /\ ~strayed => \A i \in steady : shown[i] > 0

\* Nothing is shown a second time unless it has moved.
ShownOnce == \A i \in Items \ moved : shown[i] <= 1

------------------------------------------------------------------------------
(* What these rest on.                                                     *)

Places  == Int \X Items
Entries == {x \in [id : Items, at : Places] : x.at[2] = x.id}

WalkTypeOK ==
    /\ kind \in Chosen \cup {"board", "drafts", "inbox", "comments", "boards", "allboards", "dead",
                            "reports"}
    /\ status \in [Items -> {"draft", "published", "deleted"}]
    /\ board \in [Items -> Boards]
    /\ rank \in [Items -> 0..MaxRank \cup {Unranked}]
    /\ hidden \subseteq Boards
    /\ changes \in 0..MaxTurns
    /\ step \in {"check", "match", "fetch", "select", "boards", "page", "over", "failed"}
    /\ {cursor, from} \subseteq Places \cup {Start}
    /\ matches \cup wanted \cup alive \cup steady \cup moved \subseteq Items
    /\ batch \cup found \subseteq Entries /\ IsFiniteSet(batch) /\ IsFiniteSet(found)
    /\ DOMAIN visible \subseteq Boards /\ visible \in [DOMAIN visible -> BOOLEAN]
    /\ shown \in [Items -> Nat]
    /\ strayed \in BOOLEAN

\* Place p of an item changes from now on only if the item moves, and not upwards but by a score.
Settled(p) ==
    kind \notin Scored =>
        /\ Position(p[2])[1] <= p[1]
        /\ kind = "reports" => status[p[2]] # "draft"

\* What was read is where it was read, and after what the page, or the batch, starts after.
ReadInStep ==
    /\ \A x \in found \cup batch : Settled(x.at) /\ (x.id \notin moved => x = Entry(x.id))
    /\ \A x \in found : AfterCursor(cursor, x.at)
    /\ step \in {"select", "boards"} => batch # {} /\ \A x \in batch : AfterCursor(from, x.at)
    /\ step \in {"match", "fetch", "select", "boards"} => \A x \in found : ~AfterCursor(from, x.at)

\* The next batch starts no earlier than the page, and a page of one query is empty before it.
CursorInStep ==
    /\ from = Start => cursor = Start
    /\ cursor # Start => Settled(cursor) /\ ~Precedes(from, cursor)
    /\ kind \notin Chosen => from = cursor /\ (step \in {"check", "match", "fetch"} => found = {})

\* What was shown, once, and has not moved is behind the cursor.
ShownBehind ==
    \A i \in Items \ moved : shown[i] > 0 =>
        /\ shown[i] = 1
        /\ step # "over" => Settled(Position(i)) /\ ~AfterCursor(cursor, Position(i))

\* What a load has looked up does not leave out what is steady.
SteadyInStep ==
    /\ steady \subseteq Listed \ moved
    /\ kind \in Chosen => \A i \in steady : board[i] \in DOMAIN visible => visible[board[i]]
    /\ kind \in Scored /\ step \in {"fetch", "select", "boards"} => steady \subseteq wanted
    /\ step \in {"select", "boards"} => \A x \in batch : x.id \in steady => x.id \in alive

\* Entry x comes after all of a full set.
Beyond(x, set, size) == Cardinality(set) >= size /\ \A y \in set : Precedes(y.at, x.at)

\* What is steady has been shown, is on the page, or is still to come: after what was read, if
\* that was as much as may be, or else in the batch that was read.
SteadyAhead ==
    ~strayed => \A i \in steady :
        \/ shown[i] > 0
        \/ step = "failed"
        \/ Entry(i) \in found /\ step # "over"
        \/ step \in {"check", "match", "fetch"} /\ AfterCursor(from, Position(i))
        \/ step \in {"select", "boards"} /\ (Entry(i) \in batch \/ Beyond(Entry(i), batch, FetchSize))
        \/ step = "page" /\ Beyond(Entry(i), found, FetchSize)

WalkInv ==
    /\ WalkTypeOK
    /\ ReadInStep /\ CursorInStep /\ ShownBehind
    /\ SteadyInStep /\ SteadyAhead
=============================================================================
