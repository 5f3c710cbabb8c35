----------------------------- MODULE Discussion -----------------------------
(***************************************************************************)
(* Boards, their posts with tags, the comments on them with one level of   *)
(* replies, and the reactions to both: every command is one transaction,   *)
(* and what it changes it announces in one event, from which the caches of *)
(* the queries are invalidated.                                            *)
(*                                                                         *)
(* Ids are given in the order of creation.  Of a comment's text the model  *)
(* keeps whether it is the placeholder of a deleted comment; of a post it  *)
(* keeps nothing of the text.  Of who may do what it keeps who sees a      *)
(* hidden board; that a comment is changed by its author only, that guests *)
(* write no drafts, or that suspended users write nothing, is left out:    *)
(* any user may be the one who may.  A request resolves the target of a    *)
(* reaction, or the board of a post, before its transaction starts and     *)
(* checks it again inside: the model takes no step for the first look,     *)
(* which may be as old as the target.                                      *)
(***************************************************************************)
EXTENDS Integers, FiniteSets

CONSTANTS
    Users,
    Admins,         \* those of them who administrate
    Boards,
    Tags,
    MaxPosts,       \* bound: posts ever written
    MaxComments,    \* bound: comments ever written
    MaxReactions,   \* bound: reactions at a time
    BatchSize,      \* postDeleteBatchSize: comments deleted at a time
    NoBoard

ASSUME DiscussionAssumption ==
    /\ Admins \subseteq Users
    /\ MaxPosts \in Nat /\ MaxComments \in Nat
    /\ MaxReactions \in Nat
    /\ BatchSize \in Nat \ {0}
    /\ NoBoard \notin Boards

VARIABLES
    board,      \* board[b]: whether board b exists, and is shown
    post,       \* post[p]: the status of post p and its board
    tags,       \* tags[p]: the active tags of post p
    comment,    \* comment[c]: status, text, post and parent of comment c
    reactions,  \* the reactions: who, to what
    event       \* the change the last transaction announced

vars == <<board, post, tags, comment, reactions, event>>

Posts    == 1..MaxPosts
Comments == 1..MaxComments
NoPost   == 0
TopLevel == 0

Post    == [status : {"none", "draft", "published", "deleted"}, board : Boards \cup {NoBoard}]
Comment == [status : {"none", "active", "deleted"}, text : {"written", "placeholder"},
            post : Posts \cup {NoPost}, parent : Comments \cup {TopLevel}]
Targets == ({"post"} \X Posts) \cup ({"comment"} \X Comments)

NoEvent == [name |-> "none", op |-> "created", board |-> NoBoard, post |-> NoPost,
            tags |-> {}, comments |-> {}, targets |-> {}]

\* Of the rows; the event is what the commands make of NoEvent.
TypeOK ==
    /\ board \in [Boards -> {"none", "visible", "hidden", "deleted"}]
    /\ post \in [Posts -> Post]
    /\ tags \in [Posts -> SUBSET Tags]
    /\ comment \in [Comments -> Comment]
    /\ reactions \subseteq Users \X Targets

Init ==
    /\ board = [b \in Boards |-> "none"]
    /\ post = [p \in Posts |-> [status |-> "none", board |-> NoBoard]]
    /\ tags = [p \in Posts |-> {}]
    /\ comment = [c \in Comments |->
         [status |-> "none", text |-> "written", post |-> NoPost, parent |-> TopLevel]]
    /\ reactions = {}
    /\ event = NoEvent

-----------------------------------------------------------------------------
(* Who sees what *)

BoardExists(b) == board[b] \in {"visible", "hidden"}

EnsureBoardVisible(u, b) == board[b] = "visible" \/ (board[b] = "hidden" /\ u \in Admins)

IsLive(p) == post[p].status \in {"draft", "published"}

EnsurePostVisibleForUser(u, p) ==
    /\ post[p].status = "published"
    /\ EnsureBoardVisible(u, post[p].board)

IsActive(c) == comment[c].status = "active"

EnsureCommentTargetVisibleForUser(u, c) ==
    IsActive(c) /\ EnsurePostVisibleForUser(u, comment[c].post)

ensureTargetExists(u, t) ==
    IF t[1] = "post" THEN EnsurePostVisibleForUser(u, t[2])
                     ELSE EnsureCommentTargetVisibleForUser(u, t[2])

ReactionsTo(targets) == {r \in reactions : r[2] \in targets}

CommentsOf(p) == {c \in Comments : comment[c].status # "none" /\ comment[c].post = p}
ActiveCommentsOf(p) == {c \in CommentsOf(p) : IsActive(c)}

\* What is listed below a post: a deleted comment only while a reply keeps it.
filterVisibleComments(p) ==
    {c \in CommentsOf(p) : IsActive(c) \/ \E r \in ActiveCommentsOf(p) : comment[r].parent = c}

-----------------------------------------------------------------------------
(* Boards: administrators only *)

Announce(e) == event' = e

NewBoardChanged(op, b) == [NoEvent EXCEPT !.name = "board", !.op = op, !.board = b]

SetBoard(b, status, op) ==
    /\ board' = [board EXCEPT ![b] = status]
    /\ Announce(NewBoardChanged(op, b))
    /\ UNCHANGED <<post, tags, comment, reactions>>

CreateBoard(b) == board[b] = "none" /\ SetBoard(b, "visible", "created")

\* Name and description.
UpdateBoard(b) == BoardExists(b) /\ SetBoard(b, board[b], "updated")

\* Fault: only what everybody sees keeps a board.
hasPublishedPosts(b) == \E p \in Posts : post[p].board = b /\ post[p].status = "published"

ExistsByBoardID(b) == \E p \in Posts : post[p].board = b /\ IsLive(p)

DeleteBoard(b) ==
    /\ BoardExists(b)
    /\ ~ExistsByBoardID(b)
    /\ SetBoard(b, "deleted", "deleted")

SetBoardVisibility(b) ==
    /\ BoardExists(b)
    /\ \E s \in {"visible", "hidden"} : SetBoard(b, s, "visibility")

-----------------------------------------------------------------------------
(* Posts *)

NewPostChanged(op, p, names, deleted) ==
    [NoEvent EXCEPT !.name = "post", !.op = op, !.post = p, !.board = post'[p].board,
                    !.tags = names, !.comments = deleted]

upsertPostTags(p, names) == tags' = [tags EXCEPT ![p] = tags[p] \cup names]

\* A draft is announced to nobody.
CreatePost(u, p) ==
    /\ post[p].status = "none"
    /\ \A q \in 1..(p - 1) : post[q].status # "none"
    /\ \E b \in Boards, s \in {"draft", "published"}, names \in SUBSET Tags :
         /\ EnsureBoardVisible(u, b)
         /\ post' = [post EXCEPT ![p] = [status |-> s, board |-> b]]
         /\ upsertPostTags(p, names)
         /\ Announce(IF s = "draft" THEN NoEvent ELSE NewPostChanged("created", p, names, {}))
    /\ UNCHANGED <<board, comment, reactions>>

\* A published post may be published again.
PublishPost(p) ==
    /\ IsLive(p)
    /\ post' = [post EXCEPT ![p].status = "published"]
    /\ Announce(NewPostChanged("published", p, tags[p], {}))
    /\ UNCHANGED <<board, tags, comment, reactions>>

syncPostTags(p, names) == tags' = [tags EXCEPT ![p] = names]

\* Fault: the tags the post has lost are forgotten.
newTagNames(current, names) == names

unionTagNames(current, names) == current \cup names

UpdatePost(p) ==
    /\ IsLive(p)
    /\ \E names \in SUBSET Tags :
         /\ syncPostTags(p, names)
         /\ UNCHANGED post
         /\ Announce(NewPostChanged("updated", p, unionTagNames(tags[p], names), {}))
    /\ UNCHANGED <<board, comment, reactions>>

\* A page of active comments below an id, the newest first.
SelectComments(p, last) ==
    LET below == {c \in ActiveCommentsOf(p) : c < last}
    IN  {c \in below : Cardinality({d \in below : d > c}) < BatchSize}

\* Fault: the first page is all.
firstPageOfComments(p) == SelectComments(p, MaxComments + 1)

\* The comments collected page by page, each page below the last id of the one before.
deletePostCommentsInBatches(p) ==
    LET from[last \in 1..(MaxComments + 1)] ==
          LET page == SelectComments(p, last)
          IN  IF Cardinality(page) < BatchSize THEN page
              ELSE page \cup from[CHOOSE c \in page : \A d \in page : c <= d]
    IN  from[MaxComments + 1]

Deleted(c) == [c EXCEPT !.status = "deleted", !.text = "placeholder"]

deletePostArtifacts(p, gone) == {<<"post", p>>} \cup ({"comment"} \X gone)

DeletePost(p) ==
    /\ IsLive(p)
    /\ LET gone == deletePostCommentsInBatches(p)
       IN  /\ comment' = [c \in Comments |-> IF c \in gone THEN Deleted(comment[c]) ELSE comment[c]]
           /\ reactions' = reactions \ ReactionsTo(deletePostArtifacts(p, gone))
           /\ post' = [post EXCEPT ![p].status = "deleted"]
           /\ syncPostTags(p, {})
           /\ Announce(NewPostChanged("deleted", p, tags[p], gone))
    /\ UNCHANGED board

-----------------------------------------------------------------------------
(* Comments *)

NewCommentChanged(op, c, p) ==
    [NoEvent EXCEPT !.name = "comment", !.op = op, !.post = p, !.comments = {c}]

\* Fault: a reply may be replied to.
sameThread(p, parent) == IsActive(parent) /\ comment[parent].post = p

replyableComment(p, parent) ==
    IsActive(parent) /\ comment[parent].post = p /\ comment[parent].parent = TopLevel

CreateComment(u, c) ==
    /\ comment[c].status = "none"
    /\ \A d \in 1..(c - 1) : comment[d].status # "none"
    /\ \E p \in Posts, parent \in Comments \cup {TopLevel} :
         /\ EnsurePostVisibleForUser(u, p)
         /\ parent # TopLevel => replyableComment(p, parent)
         /\ comment' = [comment EXCEPT ![c] =
              [status |-> "active", text |-> "written", post |-> p, parent |-> parent]]
         /\ Announce(NewCommentChanged("created", c, p))
    /\ UNCHANGED <<board, post, tags, reactions>>

\* Found by its UUID whatever its status, also when it has been deleted.
SelectCommentByUUID(u, c) ==
    comment[c].status # "none" /\ EnsurePostVisibleForUser(u, comment[c].post)

UpdateComment(u, c) ==
    /\ SelectCommentByUUID(u, c)
    /\ comment' = [comment EXCEPT ![c].text = "written"]
    /\ Announce(NewCommentChanged("updated", c, comment[c].post))
    /\ UNCHANGED <<board, post, tags, reactions>>

DeleteComment(u, c) ==
    /\ SelectCommentByUUID(u, c)
    /\ comment' = [comment EXCEPT ![c] = Deleted(@)]
    /\ reactions' = reactions \ ReactionsTo({<<"comment", c>>})
    /\ Announce(NewCommentChanged("deleted", c, comment[c].post))
    /\ UNCHANGED <<board, post, tags>>

-----------------------------------------------------------------------------
(* Reactions, of which only whether there is one: setting it again may change its kind *)

\* Fault: the id of the target stands for that of its post.
targetAsPost(op, t) ==
    [NoEvent EXCEPT !.name = "reaction", !.op = op, !.targets = {t}, !.post = t[2]]

NewReactionChanged(op, t) ==
    [NoEvent EXCEPT !.name = "reaction", !.op = op, !.targets = {t},
                    !.post = IF t[1] = "post" THEN t[2] ELSE comment[t[2]].post]

SetReaction(u, t) ==
    /\ ensureTargetExists(u, t)
    /\ Cardinality(reactions \cup {<<u, t>>}) <= MaxReactions
    /\ reactions' = reactions \cup {<<u, t>>}
    /\ \/ Announce(NewReactionChanged("set", t))
       \/ <<u, t>> \in reactions /\ Announce(NoEvent)
    /\ UNCHANGED <<board, post, tags, comment>>

DeleteReaction(u, t) ==
    /\ ensureTargetExists(u, t)
    /\ <<u, t>> \in reactions
    /\ reactions' = reactions \ {<<u, t>>}
    /\ Announce(NewReactionChanged("unset", t))
    /\ UNCHANGED <<board, post, tags, comment>>

-----------------------------------------------------------------------------
Administration ==
    \E b \in Boards : CreateBoard(b) \/ UpdateBoard(b) \/ DeleteBoard(b) \/ SetBoardVisibility(b)

Writing ==
    \/ \E p \in Posts : PublishPost(p) \/ UpdatePost(p) \/ DeletePost(p)
    \/ \E u \in Users :
         \/ \E p \in Posts : CreatePost(u, p)
         \/ \E c \in Comments : CreateComment(u, c) \/ UpdateComment(u, c) \/ DeleteComment(u, c)

Responding ==
    \E u \in Users, t \in Targets : SetReaction(u, t) \/ DeleteReaction(u, t)

Next == Administration \/ Writing \/ Responding

Spec == Init /\ [][Next]_vars

-----------------------------------------------------------------------------
(* What the queries show to everybody, each under the key it is cached by *)

PubliclyVisible(p) == post[p].status = "published" /\ board[post[p].board] = "visible"

Lists == {"boards", "feed", "search"}
Keys ==
    (Lists \X {0}) \cup ({"postList", "rankedList"} \X Boards) \cup ({"tagList", "rankedTagList"} \X Tags)
      \cup ({"detail", "commentList"} \X Posts) \cup ({"reactionList"} \X Targets)

GetBoards == {b \in Boards : board[b] = "visible"}

\* Of the feed and of a search, in whatever order, all that may be found.
GetFeed == {p \in Posts : PubliclyVisible(p)}

GetPostsList(b) == {p \in GetFeed : post[p].board = b}

GetPostsByTag(t) == {p \in GetFeed : t \in tags[p]}

GetCommentsByPost(p) ==
    IF PubliclyVisible(p) THEN {<<c, comment[c]>> : c \in filterVisibleComments(p)} ELSE {}

GetPostDetail(p) ==
    IF ~PubliclyVisible(p) THEN {}
    ELSE {<<tags[p], GetCommentsByPost(p),
            ReactionsTo({<<"post", p>>} \cup ({"comment"} \X filterVisibleComments(p)))>>}

GetReactionsByTarget(t) ==
    IF IF t[1] = "post" THEN PubliclyVisible(t[2])
                        ELSE IsActive(t[2]) /\ PubliclyVisible(comment[t[2]].post)
    THEN ReactionsTo({t}) ELSE {}

View(k) ==
    CASE k[1] = "boards" -> GetBoards
      [] k[1] \in {"feed", "search"} -> GetFeed
      [] k[1] \in {"postList", "rankedList"} -> GetPostsList(k[2])
      [] k[1] \in {"tagList", "rankedTagList"} -> GetPostsByTag(k[2])
      [] k[1] = "detail" -> GetPostDetail(k[2])
      [] k[1] = "commentList" -> GetCommentsByPost(k[2])
      [] k[1] = "reactionList" -> GetReactionsByTarget(k[2])

\* The keys the handler of an event deletes from the cache.
handleBoardChanged(e) ==
    {k \in Keys : \/ k[1] \in Lists
                  \/ k[1] \in {"postList", "rankedList"} /\ k[2] = e.board
                  \/ e.op = "visibility" /\ k[1] \in {"detail", "commentList", "reactionList",
                                                      "tagList", "rankedTagList"}}

handlePostChanged(e) ==
    {k \in Keys : \/ k[1] \in {"feed", "search"}
                  \/ k[1] \in {"postList", "rankedList"} /\ k[2] = e.board
                  \/ k[1] = "detail" /\ k[2] = e.post
                  \/ k[1] \in {"tagList", "rankedTagList"} /\ k[2] \in e.tags
                  \/ /\ e.op = "deleted"
                     /\ \/ k[1] = "commentList" /\ k[2] = e.post
                        \/ k[1] = "reactionList"
                           /\ k[2] \in {<<"post", e.post>>} \cup ({"comment"} \X e.comments)}

handleCommentChanged(e) ==
    {k \in Keys : \/ k[1] \in {"feed", "search", "rankedList", "rankedTagList"}
                  \/ k[1] \in {"commentList", "detail"} /\ k[2] = e.post
                  \/ e.op = "deleted" /\ k[1] = "reactionList" /\ k[2] \in {"comment"} \X e.comments}

handleReactionChanged(e) ==
    {k \in Keys : \/ k[1] \in {"feed", "search", "rankedList", "rankedTagList"}
                  \/ k[1] = "reactionList" /\ k[2] \in e.targets
                  \/ k[1] = "detail" /\ k[2] = e.post}

Invalidated(e) ==
    CASE e.name = "board" -> handleBoardChanged(e)
      [] e.name = "post" -> handlePostChanged(e)
      [] e.name = "comment" -> handleCommentChanged(e)
      [] e.name = "reaction" -> handleReactionChanged(e)
      [] OTHER -> {}

-----------------------------------------------------------------------------
(* Properties *)

\* With a post goes all that hangs on it, also the comments of later pages: no comment is
\* active below a deleted post, and nothing deleted has reactions or tags (DeletePost,
\* deletePostCommentsInBatches, DeleteComment against the reactions set meanwhile).
NothingOutlivesItsPost ==
    /\ \A c \in Comments : IsActive(c) => IsLive(comment[c].post)
    /\ \A r \in reactions : IF r[2][1] = "post" THEN IsLive(r[2][2]) ELSE IsActive(r[2][2])
    /\ \A p \in Posts : tags[p] # {} => IsLive(p)

\* A reply that is listed has its parent listed with it, below the same post, however often
\* the parent was deleted, and a parent is itself no reply (CreateComment's checks of the
\* parent with filterVisibleComments).
ThreadsAreWhole ==
    \A p \in Posts : \A c \in filterVisibleComments(p) :
      comment[c].parent # TopLevel => comment[c].parent \in filterVisibleComments(p)

\* A post that may still be shown or published has its board: the queries fail for the
\* whole list when the board of one post is gone (DeleteBoard against createPost).
PostsHaveBoards ==
    \A p \in Posts : IsLive(p) => post[p].board \in Boards /\ BoardExists(post[p].board)

\* Whatever a command changes in the answer of a public query, the event of the command
\* makes the cache drop that query: no list, detail or reaction list is left out, also not
\* for tags a post loses or comments that go with it (all handlers, CacheInvalidationHandler).
EventCoversViews == [][\A k \in Keys \ Invalidated(event') : View(k)' = View(k)]_vars

-----------------------------------------------------------------------------
(* The inductive invariant *)

\* What a reply answers was written before, on the same post, and answers nothing itself.
RepliesHaveParents ==
    \A c \in Comments :
      comment[c].parent # TopLevel =>
        LET parent == comment[comment[c].parent]
        IN  parent.status # "none" /\ parent.post = comment[c].post /\ parent.parent = TopLevel

\* Only what has been published is answered: comments are on posts that were published, and
\* a post with a reaction still is.
AnswersFollowPublication ==
    /\ \A c \in Comments : comment[c].status # "none" =>
          /\ comment[c].post \in Posts
          /\ post[comment[c].post].status \in {"published", "deleted"}
    /\ \A r \in reactions : r[2][1] = "post" => post[r[2][2]].status = "published"

IInv ==
    /\ TypeOK
    /\ RepliesHaveParents
    /\ PostsHaveBoards
    /\ AnswersFollowPublication
    /\ NothingOutlivesItsPost

=============================================================================
