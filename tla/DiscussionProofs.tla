-------------------------- MODULE DiscussionProofs --------------------------
(***************************************************************************)
(* For every number of boards, posts, comments, users and tags: the rows   *)
(* keep their types, a post that may be shown keeps its board, the threads *)
(* of comments stay whole, the batches of a deletion leave nothing behind, *)
(* and an event names every view its command outdates.                     *)
(***************************************************************************)
EXTENDS Discussion, FiniteSetTheorems, WellFoundedInduction, TLAPS

\* Every command writes rows of the right types.
LEMMA TypeInv ==
    ASSUME TypeOK, [Next]_vars
    PROVE  TypeOK'
<1> USE DiscussionAssumption DEF TypeOK, Post, Comment, Posts, Comments, NoPost, TopLevel
<1>1. ASSUME NEW b \in Boards, CreateBoard(b)
      PROVE  TypeOK'
  BY <1>1 DEF CreateBoard, SetBoard
<1>2. ASSUME NEW b \in Boards, UpdateBoard(b)
      PROVE  TypeOK'
  BY <1>2 DEF UpdateBoard, SetBoard
<1>3. ASSUME NEW b \in Boards, DeleteBoard(b)
      PROVE  TypeOK'
  BY <1>3 DEF DeleteBoard, SetBoard, ExistsByBoardID
<1>4. ASSUME NEW b \in Boards, SetBoardVisibility(b)
      PROVE  TypeOK'
  BY <1>4 DEF SetBoardVisibility, SetBoard
<1>5. ASSUME NEW u \in Users, NEW p \in Posts, CreatePost(u, p)
      PROVE  TypeOK'
  BY <1>5 DEF CreatePost, upsertPostTags, EnsureBoardVisible
<1>6. ASSUME NEW p \in Posts, PublishPost(p)
      PROVE  TypeOK'
  BY <1>6 DEF PublishPost
<1>7. ASSUME NEW p \in Posts, UpdatePost(p)
      PROVE  TypeOK'
  BY <1>7 DEF UpdatePost, syncPostTags
<1>8. ASSUME NEW p \in Posts, DeletePost(p)
      PROVE  TypeOK'
  BY <1>8 DEF DeletePost, syncPostTags, ReactionsTo, Deleted
<1>9. ASSUME NEW u \in Users, NEW c \in Comments, CreateComment(u, c)
      PROVE  TypeOK'
  BY <1>9 DEF CreateComment, replyableComment, IsActive
<1>10. ASSUME NEW u \in Users, NEW c \in Comments, UpdateComment(u, c)
      PROVE  TypeOK'
  BY <1>10 DEF UpdateComment, SelectCommentByUUID
<1>11. ASSUME NEW u \in Users, NEW c \in Comments, DeleteComment(u, c)
      PROVE  TypeOK'
  BY <1>11 DEF DeleteComment, SelectCommentByUUID, ReactionsTo, Deleted
<1>12. ASSUME NEW u \in Users, NEW t \in Targets, SetReaction(u, t)
      PROVE  TypeOK'
  BY <1>12 DEF SetReaction
<1>13. ASSUME NEW u \in Users, NEW t \in Targets, DeleteReaction(u, t)
      PROVE  TypeOK'
  BY <1>13 DEF DeleteReaction
<1>14. CASE UNCHANGED vars
  BY <1>14 DEF vars
<1>15. QED
  BY <1>1, <1>2, <1>3, <1>4, <1>5, <1>6, <1>7, <1>8, <1>9, <1>10, <1>11, <1>12, <1>13, <1>14
     DEF Next, Administration, Writing, Responding

\* A reply is written below a comment that is there and answers none; of a comment its
\* post and its parent never change, and none is forgotten.
LEMMA RepliesInv ==
    ASSUME TypeOK, RepliesHaveParents, [Next]_vars
    PROVE  RepliesHaveParents'
<1> USE DiscussionAssumption
       DEF TypeOK, Post, Comment, Posts, Comments, NoPost, TopLevel, RepliesHaveParents
<1>1. ASSUME NEW b \in Boards, CreateBoard(b)
      PROVE  RepliesHaveParents'
  BY <1>1 DEF CreateBoard, SetBoard
<1>2. ASSUME NEW b \in Boards, UpdateBoard(b)
      PROVE  RepliesHaveParents'
  BY <1>2 DEF UpdateBoard, SetBoard
<1>3. ASSUME NEW b \in Boards, DeleteBoard(b)
      PROVE  RepliesHaveParents'
  BY <1>3 DEF DeleteBoard, SetBoard, ExistsByBoardID
<1>4. ASSUME NEW b \in Boards, SetBoardVisibility(b)
      PROVE  RepliesHaveParents'
  BY <1>4 DEF SetBoardVisibility, SetBoard
<1>5. ASSUME NEW u \in Users, NEW p \in Posts, CreatePost(u, p)
      PROVE  RepliesHaveParents'
  BY <1>5 DEF CreatePost, upsertPostTags, EnsureBoardVisible
<1>6. ASSUME NEW p \in Posts, PublishPost(p)
      PROVE  RepliesHaveParents'
  BY <1>6 DEF PublishPost
<1>7. ASSUME NEW p \in Posts, UpdatePost(p)
      PROVE  RepliesHaveParents'
  BY <1>7 DEF UpdatePost, syncPostTags
<1>8. ASSUME NEW p \in Posts, DeletePost(p)
      PROVE  RepliesHaveParents'
  <2> DEFINE gone == deletePostCommentsInBatches(p)
  <2>1. comment' = [c \in Comments |-> IF c \in gone THEN Deleted(comment[c]) ELSE comment[c]]
    BY <1>8 DEF DeletePost
  <2> HIDE DEF gone
  <2>2. ASSUME NEW c \in Comments
        PROVE  /\ comment'[c].post = comment[c].post
               /\ comment'[c].parent = comment[c].parent
               /\ comment'[c].status = "none" => comment[c].status = "none"
    BY <2>1 DEF Deleted
  <2>3. \A c \in Comments : comment[c].parent \in Comments \cup {TopLevel}
    OBVIOUS
  <2>4. QED
    BY <2>2, <2>3
<1>9. ASSUME NEW u \in Users, NEW c \in Comments, CreateComment(u, c)
      PROVE  RepliesHaveParents'
  <2>1. PICK q \in Posts, parent \in Comments \cup {TopLevel} :
          /\ parent # TopLevel => replyableComment(q, parent)
          /\ comment' = [comment EXCEPT ![c] =
               [status |-> "active", text |-> "written", post |-> q, parent |-> parent]]
    BY <1>9 DEF CreateComment
  <2>2. comment[c].status = "none"
    BY <1>9 DEF CreateComment
  <2>3. ASSUME NEW d \in Comments, d # c
        PROVE  comment'[d] = comment[d]
    BY <2>1, <2>3
  <2>4. /\ comment'[c].post = q /\ comment'[c].parent = parent
        /\ parent # TopLevel => parent # c
    BY <2>1, <2>2 DEF replyableComment, IsActive
  \* No reply had the new comment for a parent: it was not there.
  <2>5. SUFFICES ASSUME NEW d \in Comments, comment'[d].parent # TopLevel
                 PROVE  /\ comment'[comment'[d].parent].status # "none"
                        /\ comment'[comment'[d].parent].post = comment'[d].post
                        /\ comment'[comment'[d].parent].parent = TopLevel
    OBVIOUS
  <2>6. CASE d = c
    BY <2>1, <2>3, <2>4, <2>5, <2>6 DEF replyableComment, IsActive
  <2>7. CASE d # c
    <3>1. comment[d].parent \in Comments /\ comment[d].parent # c
      BY <2>2, <2>3, <2>5, <2>7
    <3>2. QED
      BY <2>3, <2>5, <2>7, <3>1
  <2>8. QED
    BY <2>6, <2>7
<1>10. ASSUME NEW u \in Users, NEW c \in Comments, UpdateComment(u, c)
      PROVE  RepliesHaveParents'
  BY <1>10 DEF UpdateComment, SelectCommentByUUID
<1>11. ASSUME NEW u \in Users, NEW c \in Comments, DeleteComment(u, c)
      PROVE  RepliesHaveParents'
  BY <1>11 DEF DeleteComment, SelectCommentByUUID, ReactionsTo, Deleted
<1>12. ASSUME NEW u \in Users, NEW t \in Targets, SetReaction(u, t)
      PROVE  RepliesHaveParents'
  BY <1>12 DEF SetReaction
<1>13. ASSUME NEW u \in Users, NEW t \in Targets, DeleteReaction(u, t)
      PROVE  RepliesHaveParents'
  BY <1>13 DEF DeleteReaction
<1>14. CASE UNCHANGED vars
  BY <1>14 DEF vars
<1>15. QED
  BY <1>1, <1>2, <1>3, <1>4, <1>5, <1>6, <1>7, <1>8, <1>9, <1>10, <1>11, <1>12, <1>13, <1>14
     DEF Next, Administration, Writing, Responding

\* A post gets a board that is seen, and the board stays while a post may be shown.
LEMMA BoardsInv ==
    ASSUME TypeOK, PostsHaveBoards, [Next]_vars
    PROVE  PostsHaveBoards'
<1> USE DiscussionAssumption
       DEF TypeOK, Post, Comment, Posts, Comments, NoPost, TopLevel, PostsHaveBoards, IsLive,
           BoardExists
<1>1. ASSUME NEW b \in Boards, CreateBoard(b)
      PROVE  PostsHaveBoards'
  BY <1>1 DEF CreateBoard, SetBoard
<1>2. ASSUME NEW b \in Boards, UpdateBoard(b)
      PROVE  PostsHaveBoards'
  BY <1>2 DEF UpdateBoard, SetBoard
<1>3. ASSUME NEW b \in Boards, DeleteBoard(b)
      PROVE  PostsHaveBoards'
  BY <1>3 DEF DeleteBoard, SetBoard, ExistsByBoardID
<1>4. ASSUME NEW b \in Boards, SetBoardVisibility(b)
      PROVE  PostsHaveBoards'
  BY <1>4 DEF SetBoardVisibility, SetBoard
<1>5. ASSUME NEW u \in Users, NEW p \in Posts, CreatePost(u, p)
      PROVE  PostsHaveBoards'
  BY <1>5 DEF CreatePost, upsertPostTags, EnsureBoardVisible
<1>6. ASSUME NEW p \in Posts, PublishPost(p)
      PROVE  PostsHaveBoards'
  BY <1>6 DEF PublishPost
<1>7. ASSUME NEW p \in Posts, UpdatePost(p)
      PROVE  PostsHaveBoards'
  BY <1>7 DEF UpdatePost, syncPostTags
<1>8. ASSUME NEW p \in Posts, DeletePost(p)
      PROVE  PostsHaveBoards'
  BY <1>8 DEF DeletePost, syncPostTags, ReactionsTo, Deleted
<1>9. ASSUME NEW u \in Users, NEW c \in Comments, CreateComment(u, c)
      PROVE  PostsHaveBoards'
  BY <1>9 DEF CreateComment, replyableComment, IsActive
<1>10. ASSUME NEW u \in Users, NEW c \in Comments, UpdateComment(u, c)
      PROVE  PostsHaveBoards'
  BY <1>10 DEF UpdateComment, SelectCommentByUUID
<1>11. ASSUME NEW u \in Users, NEW c \in Comments, DeleteComment(u, c)
      PROVE  PostsHaveBoards'
  BY <1>11 DEF DeleteComment, SelectCommentByUUID, ReactionsTo, Deleted
<1>12. ASSUME NEW u \in Users, NEW t \in Targets, SetReaction(u, t)
      PROVE  PostsHaveBoards'
  BY <1>12 DEF SetReaction
<1>13. ASSUME NEW u \in Users, NEW t \in Targets, DeleteReaction(u, t)
      PROVE  PostsHaveBoards'
  BY <1>13 DEF DeleteReaction
<1>14. CASE UNCHANGED vars
  BY <1>14 DEF vars
<1>15. QED
  BY <1>1, <1>2, <1>3, <1>4, <1>5, <1>6, <1>7, <1>8, <1>9, <1>10, <1>11, <1>12, <1>13, <1>14
     DEF Next, Administration, Writing, Responding

-----------------------------------------------------------------------------
(* The pages of a deletion *)

\* A set of numbers that is not empty has a least one.
LEMMA LeastNumber ==
    ASSUME NEW T, T \subseteq Nat, T # {}
    PROVE  \E n \in T : \A m \in T : n <= m
<1> DEFINE R == {ss \in Nat \X Nat : ss[1] < ss[2]}
<1>1. IsWellFoundedOn(R, Nat)
  BY NatLessThanWellFounded DEF OpToRel
<1>2. \A m, n \in Nat : m < n => <<m, n>> \in R
  OBVIOUS
<1> HIDE DEF R
<1>3. PICK n \in T : \A m \in T : ~(<<m, n>> \in R)
  BY <1>1, WFMin
<1>4. \A m \in T : ~(m < n)
  BY <1>2, <1>3
<1>5. QED
  BY <1>4

\* And, when bounded, a greatest one.
LEMMA GreatestNumber ==
    ASSUME NEW T, T \subseteq Nat, T # {}, NEW b \in Nat, \A n \in T : n <= b
    PROVE  \E n \in T : \A m \in T : m <= n
<1> DEFINE U == {k \in Nat : \A n \in T : n <= k}
<1>1. PICK k \in U : \A l \in U : k <= l
  <2>1. U \subseteq Nat /\ b \in U
    OBVIOUS
  <2> HIDE DEF U
  <2>2. QED
    BY <2>1, LeastNumber
<1>2. k \in T
  <2>1. SUFFICES ASSUME k \notin T PROVE FALSE
    OBVIOUS
  <2>2. \A n \in T : n <= k - 1 /\ k - 1 \in Nat
    BY <1>1, <2>1
  <2>3. k - 1 \in U
    BY <2>2
  <2>4. QED
    BY <1>1, <2>3
<1>3. QED
  BY <1>1, <1>2

\* What is left to delete below an id.
Below(p, n) == {c \in ActiveCommentsOf(p) : c < n}

\* A page is the newest of what is left.
LEMMA PageIsTop ==
    ASSUME NEW p \in Posts, NEW n \in Nat
    PROVE  /\ SelectComments(p, n) \subseteq Below(p, n)
           /\ Below(p, n) \subseteq Comments /\ Comments \subseteq Nat
           /\ IsFiniteSet(Below(p, n)) /\ IsFiniteSet(SelectComments(p, n))
           /\ SelectComments(p, n) =
                {c \in Below(p, n) : Cardinality({d \in Below(p, n) : d > c}) < BatchSize}
<1>1. SelectComments(p, n) =
        {c \in Below(p, n) : Cardinality({d \in Below(p, n) : d > c}) < BatchSize}
  BY DEF SelectComments, Below
<1>2. Below(p, n) \subseteq Comments /\ Comments \subseteq Nat /\ IsFiniteSet(Comments)
  BY DiscussionAssumption, FS_Interval DEF Below, ActiveCommentsOf, CommentsOf, Comments
<1>3. IsFiniteSet(Below(p, n))
  BY <1>2, FS_Subset
<1>4. IsFiniteSet(SelectComments(p, n))
  BY <1>1, <1>3, FS_Subset
<1>5. QED
  BY <1>1, <1>2, <1>3, <1>4

\* A comment left out of the page has BatchSize newer ones before it.
LEMMA LeftOut ==
    ASSUME NEW p \in Posts, NEW n \in Nat, NEW c \in Below(p, n), c \notin SelectComments(p, n)
    PROVE  Cardinality({d \in Below(p, n) : d > c}) >= BatchSize
<1> DEFINE S == {d \in Below(p, n) : d > c}
<1>1. IsFiniteSet(S)
  BY PageIsTop, FS_Subset
<1>2. Cardinality(S) \in Nat
  BY <1>1, FS_CardinalityType
<1>3. ~(Cardinality(S) < BatchSize)
  BY PageIsTop
<1> HIDE DEF S
<1>4. Cardinality(S) >= BatchSize
  BY <1>2, <1>3, DiscussionAssumption
<1>5. QED
  BY <1>4 DEF S

\* A page that is not full leaves nothing out.
LEMMA LastPage ==
    ASSUME NEW p \in Posts, NEW n \in Nat, Cardinality(SelectComments(p, n)) < BatchSize
    PROVE  SelectComments(p, n) = Below(p, n)
<1> DEFINE T == Below(p, n) \ SelectComments(p, n)
<1>1. SUFFICES ASSUME T # {} PROVE FALSE
  BY PageIsTop
<1>2. PICK c \in T : \A d \in T : d <= c
  <2>1. T \subseteq Nat /\ \A d \in T : d <= MaxComments
    BY PageIsTop, DiscussionAssumption DEF Comments
  <2> HIDE DEF T
  <2>2. QED
    BY <1>1, <2>1, GreatestNumber, DiscussionAssumption
<1> DEFINE S == {d \in Below(p, n) : d > c}
<1>3. S \subseteq SelectComments(p, n)
  <2>1. \A d \in Below(p, n) : d \in Nat
    BY PageIsTop
  <2>2. ASSUME NEW d \in S PROVE d \in SelectComments(p, n)
    BY <1>2, <2>1
  <2>3. QED
    BY <2>2
<1>4. Cardinality(S) >= BatchSize
  BY <1>2, LeftOut
<1>5. Cardinality(S) <= Cardinality(SelectComments(p, n))
  BY <1>3, PageIsTop, FS_Subset
<1>6. Cardinality(S) \in Nat /\ Cardinality(SelectComments(p, n)) \in Nat
  BY <1>3, PageIsTop, FS_Subset, FS_CardinalityType
<1> HIDE DEF S
<1>7. QED
  BY <1>4, <1>5, <1>6, DiscussionAssumption

\* A full page and what is left below its last comment are all there is.
LEMMA FullPage ==
    ASSUME NEW p \in Posts, NEW n \in Nat, ~(Cardinality(SelectComments(p, n)) < BatchSize),
           NEW m \in SelectComments(p, n), \A d \in SelectComments(p, n) : m <= d
    PROVE  SelectComments(p, n) \cup Below(p, m) = Below(p, n)
<1>1. m \in Nat /\ m < n /\ \A c \in Below(p, n) : c \in Nat
  BY PageIsTop DEF Below
<1>2. Below(p, m) \subseteq Below(p, n)
  <2>1. \A c \in Below(p, m) : c \in Nat /\ c < m /\ c \in ActiveCommentsOf(p)
    BY <1>1, PageIsTop DEF Below
  <2>2. QED
    BY <1>1, <2>1 DEF Below
<1>3. ASSUME NEW c \in Below(p, n), c \notin SelectComments(p, n), ~(c < m)
      PROVE  FALSE
  <2> DEFINE S == {d \in Below(p, n) : d > c}
             L == {d \in Below(p, n) : d > m}
  <2>1. S \subseteq L /\ IsFiniteSet(L)
    BY <1>1, <1>3, PageIsTop, FS_Subset
  <2>2. Cardinality(S) >= BatchSize /\ Cardinality(L) < BatchSize
    BY <1>3, LeftOut, PageIsTop
  <2> HIDE DEF S, L
  <2>3. Cardinality(S) <= Cardinality(L) /\ Cardinality(S) \in Nat /\ Cardinality(L) \in Nat
    BY <2>1, FS_Subset, FS_CardinalityType
  <2>4. QED
    BY <2>2, <2>3, DiscussionAssumption
<1>4. \A c \in Below(p, n) : c < m => c \in Below(p, m)
  BY DEF Below
<1>5. QED
  BY <1>2, <1>3, <1>4, PageIsTop

\* Page by page the deletion of a post collects every active comment of it.  The induction
\* is over the id below which a page starts: of the ids with another answer none is least.
LEMMA BatchesAreAll ==
    ASSUME NEW p \in Posts
    PROVE  deletePostCommentsInBatches(p) = ActiveCommentsOf(p)
<1> DEFINE D == 1..(MaxComments + 1)
           least(S) == CHOOSE c \in S : \A d \in S : c <= d
           rest(f, n) == IF Cardinality(SelectComments(p, n)) < BatchSize
                         THEN SelectComments(p, n)
                         ELSE SelectComments(p, n) \cup f[least(SelectComments(p, n))]
           Pages(f) == f = [n \in D |-> rest(f, n)]
           all == [n \in D |-> Below(p, n)]
<1>1. MaxComments + 1 \in D /\ D \subseteq Nat
  BY DiscussionAssumption
<1>2. ASSUME NEW n \in D, ~(Cardinality(SelectComments(p, n)) < BatchSize)
      PROVE  /\ least(SelectComments(p, n)) \in D /\ least(SelectComments(p, n)) < n
             /\ SelectComments(p, n) \cup Below(p, least(SelectComments(p, n))) = Below(p, n)
  <2> DEFINE S == SelectComments(p, n)
  <2>1. n \in Nat /\ S \subseteq Comments /\ S \subseteq Nat /\ \A c \in S : c < n
    BY <1>1, PageIsTop DEF Below
  <2>2. S # {}
    BY <1>2, FS_EmptySet, DiscussionAssumption
  <2>3. \E c \in S : \A d \in S : c <= d
    <3> HIDE DEF S
    <3>1. QED
      BY <2>1, <2>2, LeastNumber
  <2>4. least(S) \in S /\ \A d \in S : least(S) <= d
    <3> HIDE DEF S
    <3>1. QED
      BY <2>3
  <2>5. least(S) \in D
    BY <2>1, <2>4, DiscussionAssumption DEF Comments
  <2>6. QED
    BY <1>2, <2>1, <2>4, <2>5, FullPage
<1>3. ASSUME NEW n \in D, Cardinality(SelectComments(p, n)) < BatchSize
      PROVE  SelectComments(p, n) = Below(p, n)
  BY <1>1, <1>3, LastPage
<1> HIDE DEF D, least
<1>4. Pages(all)
  <2>1. ASSUME NEW n \in D PROVE rest(all, n) = Below(p, n)
    BY <1>2, <1>3
  <2>2. QED
    BY <2>1
<1>5. ASSUME NEW f, Pages(f), NEW n \in D PROVE f[n] = Below(p, n)
  <2> DEFINE T == {k \in D : f[k] # Below(p, k)}
  <2>1. SUFFICES ASSUME T # {} PROVE FALSE
    OBVIOUS
  <2>2. PICK k \in T : \A m \in T : k <= m
    <3>1. T \subseteq Nat
      BY <1>1
    <3> HIDE DEF T
    <3>2. QED
      BY <2>1, <3>1, LeastNumber
  <2>3. k \in D /\ f[k] = rest(f, k)
    BY <1>5
  <2>4. \A m \in D : m < k => f[m] = Below(p, m)
    BY <1>1, <2>2
  <2>5. rest(f, k) = Below(p, k)
    BY <1>2, <1>3, <2>3, <2>4
  <2>6. QED
    BY <2>3, <2>5
<1>6. deletePostCommentsInBatches(p) = (CHOOSE f : Pages(f))[MaxComments + 1]
  BY DEF deletePostCommentsInBatches, D, least
<1>7. Pages(CHOOSE f : Pages(f))
  <2> HIDE DEF Pages
  <2>1. QED
    BY <1>4
<1>8. deletePostCommentsInBatches(p) = Below(p, MaxComments + 1)
  BY <1>1, <1>5, <1>6, <1>7
<1>9. Below(p, MaxComments + 1) = ActiveCommentsOf(p)
  BY DiscussionAssumption DEF Below, ActiveCommentsOf, CommentsOf, Comments
<1>10. QED
  BY <1>8, <1>9

-----------------------------------------------------------------------------
(* What goes with a post *)

\* What keeps comments where they are, unpublishes nothing and reacts to no draft.
LEMMA AnswersStay ==
    ASSUME AnswersFollowPublication,
           \A c \in Comments : comment'[c].status # "none" =>
               comment[c].status # "none" /\ comment'[c].post = comment[c].post,
           \A p \in Posts : post[p].status \in {"published", "deleted"} =>
                            post'[p].status \in {"published", "deleted"},
           \A r \in reactions' : r[2][1] = "post" => post'[r[2][2]].status = "published"
    PROVE  AnswersFollowPublication'
  BY DEF AnswersFollowPublication

\* A reaction is to a post or to a comment.
LEMMA ReactionTargets ==
    ASSUME TypeOK, NEW r \in reactions
    PROVE  \/ r[2][1] = "post" /\ r[2][2] \in Posts /\ r[2] = <<"post", r[2][2]>>
           \/ r[2][1] = "comment" /\ r[2][2] \in Comments /\ r[2] = <<"comment", r[2][2]>>
  BY DEF TypeOK, Targets

\* What a deleted comment keeps.
LEMMA DeletedRow ==
    ASSUME TypeOK, NEW c \in Comments
    PROVE  /\ Deleted(comment[c]).status = "deleted"
           /\ Deleted(comment[c]).post = comment[c].post
           /\ Deleted(comment[c]).parent = comment[c].parent
  BY DEF Deleted, TypeOK, Comment

\* Only what is seen is answered, and what is seen is published.
LEMMA AnswersInv ==
    ASSUME TypeOK, AnswersFollowPublication, [Next]_vars
    PROVE  AnswersFollowPublication'
<1>1. CASE UNCHANGED <<post, comment, reactions>>
  BY <1>1, AnswersStay DEF AnswersFollowPublication
<1>2. ASSUME NEW p \in Posts, PublishPost(p) PROVE AnswersFollowPublication'
  <2>1. UNCHANGED <<comment, reactions>>
        /\ \A q \in Posts : post'[q].status = post[q].status \/ post'[q].status = "published"
    BY <1>2 DEF PublishPost, TypeOK, Post
  <2>2. \A r \in reactions : r[2][1] = "post" => post'[r[2][2]].status = "published"
    BY <2>1, ReactionTargets DEF AnswersFollowPublication
  <2>3. QED
    BY <2>1, <2>2, AnswersStay
<1>3. ASSUME NEW u \in Users, NEW p \in Posts, CreatePost(u, p) PROVE AnswersFollowPublication'
  <2>1. UNCHANGED <<comment, reactions>> /\ post[p].status = "none"
        /\ \A q \in Posts : q # p => post'[q] = post[q]
    BY <1>3 DEF CreatePost, TypeOK
  <2>2. \A r \in reactions : r[2][1] = "post" => post'[r[2][2]].status = "published"
    BY <2>1, ReactionTargets DEF AnswersFollowPublication
  <2>3. QED
    BY <2>1, <2>2, AnswersStay
<1>4. ASSUME NEW p \in Posts, DeletePost(p) PROVE AnswersFollowPublication'
  <2> DEFINE gone == deletePostCommentsInBatches(p)
  <2>1. /\ comment' = [c \in Comments |-> IF c \in gone THEN Deleted(comment[c]) ELSE comment[c]]
        /\ post' = [post EXCEPT ![p].status = "deleted"]
        /\ reactions' = reactions \ ReactionsTo({<<"post", p>>} \cup ({"comment"} \X gone))
    BY <1>4 DEF DeletePost, deletePostArtifacts
  <2>2. \A c \in gone : c \in Comments /\ comment[c].status # "none"
    BY BatchesAreAll DEF ActiveCommentsOf, CommentsOf
  <2> HIDE DEF gone
  <2>3. \A c \in Comments : comment'[c].status # "none" =>
            comment[c].status # "none" /\ comment'[c].post = comment[c].post
    BY <2>1, <2>2, DeletedRow
  <2>4. \A q \in Posts : /\ q # p => post'[q] = post[q]
                         /\ post'[p].status = "deleted"
    BY <2>1 DEF TypeOK, Post
  <2>5. \A r \in reactions' : r \in reactions /\ r[2] # <<"post", p>>
    BY <2>1 DEF ReactionsTo
  <2>6. \A r \in reactions' : r[2][1] = "post" => post'[r[2][2]].status = "published"
    BY <2>4, <2>5, ReactionTargets DEF AnswersFollowPublication
  <2>7. QED
    BY <2>3, <2>4, <2>6, AnswersStay
<1>5. ASSUME NEW u \in Users, NEW c \in Comments, CreateComment(u, c)
      PROVE  AnswersFollowPublication'
  <2>1. PICK p \in Posts, parent \in Comments \cup {TopLevel} :
           /\ EnsurePostVisibleForUser(u, p)
           /\ comment' = [comment EXCEPT ![c] =
                [status |-> "active", text |-> "written", post |-> p, parent |-> parent]]
    BY <1>5 DEF CreateComment
  <2>2. /\ comment'[c].post = p /\ post[p].status = "published"
        /\ \A d \in Comments \ {c} : comment'[d] = comment[d]
        /\ UNCHANGED <<post, reactions>>
    BY <1>5, <2>1 DEF TypeOK, EnsurePostVisibleForUser, CreateComment
  <2>3. QED
    BY <2>2 DEF AnswersFollowPublication
<1>6. ASSUME NEW u \in Users, NEW c \in Comments, UpdateComment(u, c) \/ DeleteComment(u, c)
      PROVE  AnswersFollowPublication'
  <2>1. /\ UNCHANGED post /\ reactions' \subseteq reactions /\ comment[c].status # "none"
        /\ \A d \in Comments \ {c} : comment'[d] = comment[d]
    BY <1>6 DEF UpdateComment, DeleteComment, SelectCommentByUUID, TypeOK
  <2>2. comment'[c].post = comment[c].post
    BY <1>6, DeletedRow DEF UpdateComment, DeleteComment, TypeOK, Comment
  <2>3. QED
    BY <2>1, <2>2 DEF AnswersFollowPublication
<1>7. ASSUME NEW u \in Users, NEW t \in Targets, SetReaction(u, t) \/ DeleteReaction(u, t)
      PROVE  AnswersFollowPublication'
  <2>1. UNCHANGED <<post, comment>> /\ (t[1] = "post" => post[t[2]].status = "published")
    BY <1>7 DEF SetReaction, DeleteReaction, ensureTargetExists, EnsurePostVisibleForUser
  <2>2. \A r \in reactions' : r \in reactions \/ r[2] = t
    BY <1>7 DEF SetReaction, DeleteReaction
  <2>3. QED
    BY <2>1, <2>2 DEF AnswersFollowPublication
<1>8. QED
  BY <1>1, <1>2, <1>3, <1>4, <1>5, <1>6, <1>7
  DEF Next, Administration, Writing, Responding, CreateBoard, UpdateBoard, DeleteBoard,
      SetBoardVisibility, SetBoard, UpdatePost, vars

\* What makes no post or comment less than it was, and adds no reaction or tag to one that
\* is gone, leaves nothing behind.
LEMMA LivesOn ==
    ASSUME NothingOutlivesItsPost,
           \A c \in Comments : IsActive(c)' => IsActive(c) /\ comment'[c].post = comment[c].post,
           \A c \in Comments : IsActive(c) => IsActive(c)',
           \A c \in Comments : IsActive(c) => comment[c].post \in Posts,
           \A p \in Posts : IsLive(p) => IsLive(p)',
           TypeOK,
           \A r \in reactions' : r \in reactions
                                   \/ (r[2][1] = "post" /\ IsLive(r[2][2])')
                                   \/ (r[2][1] # "post" /\ IsActive(r[2][2])'),
           \A p \in Posts : tags'[p] # {} => tags[p] # {} \/ IsLive(p)'
    PROVE  NothingOutlivesItsPost'
<1>1. \A r \in reactions : \/ r[2][1] = "post" /\ r[2][2] \in Posts
                           \/ r[2][1] # "post" /\ r[2][2] \in Comments
  BY DEF TypeOK, Targets
<1>2. \A c \in Comments : IsActive(c)' => IsLive(comment[c].post)'
  BY DEF NothingOutlivesItsPost
<1>3. ASSUME NEW r \in reactions'
      PROVE  IF r[2][1] = "post" THEN IsLive(r[2][2])' ELSE IsActive(r[2][2])'
  BY <1>1 DEF NothingOutlivesItsPost
<1>4. \A p \in Posts : tags'[p] # {} => IsLive(p)'
  BY DEF NothingOutlivesItsPost
<1>5. QED
  BY <1>2, <1>3, <1>4 DEF NothingOutlivesItsPost

\* With a post goes everything on it; nothing is put on a post or a comment that is gone.
LEMMA OutlivesInv ==
    ASSUME TypeOK, AnswersFollowPublication, NothingOutlivesItsPost, [Next]_vars
    PROVE  NothingOutlivesItsPost'
<1>1. \A c \in Comments : IsActive(c) => comment[c].post \in Posts
  BY DEF AnswersFollowPublication, IsActive
<1>2. CASE UNCHANGED <<post, comment, reactions, tags>>
  BY <1>1, <1>2, LivesOn DEF IsLive, IsActive
<1>3. ASSUME NEW p \in Posts, PublishPost(p) PROVE NothingOutlivesItsPost'
  <2>1. UNCHANGED <<comment, reactions, tags>> /\ \A q \in Posts : IsLive(q) => IsLive(q)'
    BY <1>3 DEF PublishPost, IsLive, TypeOK, Post
  <2>2. QED
    BY <1>1, <2>1, LivesOn DEF IsActive
<1>4. ASSUME NEW p \in Posts, UpdatePost(p) PROVE NothingOutlivesItsPost'
  <2>1. UNCHANGED <<post, comment, reactions>> /\ IsLive(p)
        /\ \A q \in Posts : tags'[q] # {} => tags[q] # {} \/ q = p
    BY <1>4 DEF UpdatePost, syncPostTags, TypeOK
  <2>2. QED
    BY <1>1, <2>1, LivesOn DEF IsActive, IsLive
<1>5. ASSUME NEW u \in Users, NEW p \in Posts, CreatePost(u, p) PROVE NothingOutlivesItsPost'
  <2>1. UNCHANGED <<comment, reactions>> /\ IsLive(p)'
        /\ \A q \in Posts : tags'[q] # {} => tags[q] # {} \/ q = p
    BY <1>5 DEF CreatePost, upsertPostTags, TypeOK, IsLive
  <2>2. \A q \in Posts : IsLive(q) => IsLive(q)'
    BY <1>5, <2>1 DEF CreatePost, TypeOK, IsLive
  <2>3. QED
    BY <1>1, <2>1, <2>2, LivesOn DEF IsActive
<1>6. ASSUME NEW u \in Users, NEW c \in Comments, CreateComment(u, c)
      PROVE  NothingOutlivesItsPost'
  <2>1. PICK p \in Posts, parent \in Comments \cup {TopLevel} :
           /\ EnsurePostVisibleForUser(u, p)
           /\ comment' = [comment EXCEPT ![c] =
                [status |-> "active", text |-> "written", post |-> p, parent |-> parent]]
    BY <1>6 DEF CreateComment
  <2>2. /\ comment'[c].post = p /\ IsLive(p)
        /\ \A d \in Comments \ {c} : comment'[d] = comment[d]
        /\ comment'[c].status = "active"
    BY <2>1 DEF TypeOK, EnsurePostVisibleForUser, IsLive
  <2>3. UNCHANGED <<post, reactions, tags>>
    BY <1>6 DEF CreateComment
  <2>4. \A r \in reactions : \/ r[2][1] = "post" /\ r[2][2] \in Posts
                             \/ r[2][1] # "post" /\ r[2][2] \in Comments
    BY DEF TypeOK, Targets
  <2>5. \A d \in Comments : IsActive(d)' => IsLive(comment[d].post)'
    BY <2>2, <2>3 DEF NothingOutlivesItsPost, IsLive, IsActive
  <2>6. ASSUME NEW r \in reactions
        PROVE  IF r[2][1] = "post" THEN IsLive(r[2][2])' ELSE IsActive(r[2][2])'
    BY <2>2, <2>3, <2>4 DEF NothingOutlivesItsPost, IsLive, IsActive
  <2>7. QED
    BY <2>3, <2>5, <2>6 DEF NothingOutlivesItsPost, IsLive
<1>7. ASSUME NEW u \in Users, NEW c \in Comments, UpdateComment(u, c)
      PROVE  NothingOutlivesItsPost'
  <2>1. UNCHANGED <<post, reactions, tags>>
        /\ \A d \in Comments : comment'[d].status = comment[d].status /\ comment'[d].post = comment[d].post
    BY <1>7 DEF UpdateComment, TypeOK, Comment
  <2>2. QED
    BY <1>1, <2>1, LivesOn DEF IsActive, IsLive
<1>8. ASSUME NEW u \in Users, NEW c \in Comments, DeleteComment(u, c)
      PROVE  NothingOutlivesItsPost'
  <2>1. /\ UNCHANGED <<post, tags>> /\ reactions' = reactions \ ReactionsTo({<<"comment", c>>})
        /\ comment' = [comment EXCEPT ![c] = Deleted(@)]
    BY <1>8 DEF DeleteComment
  <2>2. /\ ~IsActive(c)'
        /\ \A d \in Comments \ {c} : comment'[d] = comment[d]
    BY <2>1 DEF TypeOK, Deleted, IsActive, Comment
  <2>3. \A r \in reactions' : r \in reactions /\ r[2] # <<"comment", c>>
    BY <2>1 DEF ReactionsTo
  <2>4. \A r \in reactions' : \/ r[2][1] = "post" /\ r[2][2] \in Posts
                              \/ r[2][1] # "post" /\ r[2][2] \in Comments \ {c}
    BY <2>3 DEF TypeOK, Targets
  <2>5. \A d \in Comments : IsActive(d)' => IsLive(comment[d].post)'
    BY <2>1, <2>2 DEF NothingOutlivesItsPost, IsLive, IsActive
  <2>6. ASSUME NEW r \in reactions'
        PROVE  IF r[2][1] = "post" THEN IsLive(r[2][2])' ELSE IsActive(r[2][2])'
    BY <2>1, <2>2, <2>3, <2>4 DEF NothingOutlivesItsPost, IsLive, IsActive
  <2>7. QED
    BY <2>1, <2>5, <2>6 DEF NothingOutlivesItsPost, IsLive
<1>9. ASSUME NEW p \in Posts, DeletePost(p) PROVE NothingOutlivesItsPost'
  <2> DEFINE gone == ActiveCommentsOf(p)
  <2>1. /\ comment' = [c \in Comments |-> IF c \in gone THEN Deleted(comment[c]) ELSE comment[c]]
        /\ reactions' = reactions \ ReactionsTo({<<"post", p>>} \cup ({"comment"} \X gone))
        /\ post' = [post EXCEPT ![p].status = "deleted"]
        /\ tags' = [tags EXCEPT ![p] = {}]
    BY <1>9, BatchesAreAll DEF DeletePost, deletePostArtifacts, syncPostTags
  <2>2. \A c \in Comments : c \in gone <=> IsActive(c) /\ comment[c].post = p
    BY DEF ActiveCommentsOf, CommentsOf, IsActive
  <2> HIDE DEF gone
  <2>3. \A c \in Comments : IsActive(c)' => IsActive(c) /\ c \notin gone /\ comment'[c] = comment[c]
    BY <2>1, DeletedRow DEF IsActive
  <2>4. \A q \in Posts : q # p => (IsLive(q)' <=> IsLive(q))
    BY <2>1 DEF IsLive, TypeOK
  <2>5. \A c \in Comments : IsActive(c)' => IsLive(comment[c].post)'
    BY <1>1, <2>2, <2>3, <2>4 DEF NothingOutlivesItsPost
  <2>6. \A r \in reactions' : \/ r[2][1] = "post" /\ r[2][2] \in Posts \ {p}
                              \/ r[2][1] # "post" /\ r[2][2] \in Comments \ gone
    BY <2>1 DEF TypeOK, Targets, ReactionsTo
  <2>7. \A c \in Comments \ gone : IsActive(c) => IsActive(c)'
    BY <2>1 DEF IsActive
  <2>8. ASSUME NEW r \in reactions'
        PROVE  IF r[2][1] = "post" THEN IsLive(r[2][2])' ELSE IsActive(r[2][2])'
    BY <2>1, <2>4, <2>6, <2>7 DEF NothingOutlivesItsPost
  <2>9. \A q \in Posts : tags'[q] # {} => IsLive(q)'
    BY <2>1, <2>4 DEF NothingOutlivesItsPost, TypeOK
  <2>10. QED
    BY <2>5, <2>8, <2>9 DEF NothingOutlivesItsPost
<1>10. ASSUME NEW u \in Users, NEW t \in Targets, SetReaction(u, t) \/ DeleteReaction(u, t)
       PROVE  NothingOutlivesItsPost'
  <2>1. UNCHANGED <<post, tags, comment>>
        /\ IF t[1] = "post" THEN IsLive(t[2]) ELSE IsActive(t[2])
    BY <1>10 DEF SetReaction, DeleteReaction, ensureTargetExists, EnsureCommentTargetVisibleForUser,
                 EnsurePostVisibleForUser, IsLive
  <2>2. \A r \in reactions' : r \in reactions \/ r[2] = t
    BY <1>10 DEF SetReaction, DeleteReaction
  <2>3. QED
    BY <1>1, <2>1, <2>2, LivesOn DEF IsLive, IsActive
<1>11. QED
  BY <1>2, <1>3, <1>4, <1>5, <1>6, <1>7, <1>8, <1>9, <1>10
  DEF Next, Administration, Writing, Responding, CreateBoard, UpdateBoard, DeleteBoard,
      SetBoardVisibility, SetBoard, vars

-----------------------------------------------------------------------------
\* At first there is nothing.
LEMMA InitInv == Init => IInv
  BY DiscussionAssumption
  DEF Init, IInv, TypeOK, RepliesHaveParents, PostsHaveBoards, AnswersFollowPublication,
      NothingOutlivesItsPost, IsLive, IsActive, Post, Comment, Posts, Comments, NoPost, TopLevel

\* Every step preserves the invariant.
LEMMA NextInv == IInv /\ [Next]_vars => IInv'
  BY TypeInv, RepliesInv, BoardsInv, AnswersInv, OutlivesInv DEF IInv

\* IInv holds in every state of every behaviour.
LEMMA Invariance == Spec => []IInv
<1>1. QED
  BY InitInv, NextInv, PTL DEF Spec

\* Boards, posts, tags, comments and reactions keep their types (the entities' rows).
THEOREM TypeCorrect == Spec => []TypeOK
<1>1. IInv => TypeOK
  BY DEF IInv
<1>2. QED
  BY <1>1, Invariance, PTL

\* A post that may be shown or published keeps its board, however boards are hidden and
\* deleted while posts are written (DeleteBoard, ExistsByBoardID).
THEOREM PostsKeepBoards == Spec => []PostsHaveBoards
<1>1. IInv => PostsHaveBoards
  BY DEF IInv
<1>2. QED
  BY <1>1, Invariance, PTL

\* A listed reply has its parent listed with it, in whatever order comments are written and
\* deleted (CreateComment, DeleteComment, filterVisibleComments).
THEOREM ThreadsStayWhole == Spec => []ThreadsAreWhole
<1>1. IInv => ThreadsAreWhole
  <2>1. SUFFICES ASSUME IInv, NEW p \in Posts, NEW c \in filterVisibleComments(p),
                        comment[c].parent # TopLevel
                 PROVE  comment[c].parent \in filterVisibleComments(p)
    BY DEF ThreadsAreWhole
  <2> DEFINE parent == comment[c].parent
  <2>2. /\ c \in CommentsOf(p)
        /\ IsActive(c) \/ \E r \in ActiveCommentsOf(p) : comment[r].parent = c
    BY <2>1 DEF filterVisibleComments
  <2>3. /\ c \in Comments /\ comment[c].status # "none" /\ comment[c].post = p
    BY <2>2 DEF CommentsOf
  <2>4. parent \in Comments
    BY <2>1, <2>3 DEF IInv, TypeOK, Comment
  <2>5. parent \in CommentsOf(p)
    BY <2>1, <2>3, <2>4 DEF IInv, RepliesHaveParents, CommentsOf
  \* A comment that is kept by a reply answers nothing itself, so this one is active.
  <2>6. IsActive(c)
    <3>1. ASSUME NEW r \in ActiveCommentsOf(p), comment[r].parent = c
          PROVE  FALSE
      <4>1. r \in Comments /\ comment[r].status # "none"
        BY DEF ActiveCommentsOf, CommentsOf
      <4>2. comment[r].parent # TopLevel
        BY <2>3, <3>1, DiscussionAssumption DEF Comments, TopLevel
      <4>3. comment[c].parent = TopLevel
        BY <2>1, <3>1, <4>1, <4>2 DEF IInv, RepliesHaveParents
      <4>4. QED
        BY <2>1, <4>3
    <3>2. QED
      BY <2>2, <3>1
  <2>7. c \in ActiveCommentsOf(p) /\ comment[c].parent = parent
    BY <2>2, <2>6 DEF ActiveCommentsOf
  <2>8. QED
    BY <2>5, <2>7 DEF filterVisibleComments
<1>2. QED
  BY <1>1, Invariance, PTL

\* With a post go all the comments on it, page after page, the reactions to it and to them,
\* and its tags; nothing is left on, or added to, what is gone (DeletePost,
\* deletePostCommentsInBatches, DeleteComment).
THEOREM NothingOutlives == Spec => []NothingOutlivesItsPost
<1>1. IInv => NothingOutlivesItsPost
  BY DEF IInv
<1>2. QED
  BY <1>1, Invariance, PTL

-----------------------------------------------------------------------------
(* The events cover the cached views *)

\* A key by its kind, and what it shows before and after a step.
LEMMA KeyKinds ==
    ASSUME NEW k \in Keys
    PROVE  \/ k[1] = "boards" /\ View(k) = GetBoards /\ View(k)' = GetBoards'
           \/ k[1] \in {"feed", "search"} /\ View(k) = GetFeed /\ View(k)' = GetFeed'
           \/ /\ k[1] \in {"postList", "rankedList"} /\ k[2] \in Boards
              /\ View(k) = GetPostsList(k[2]) /\ View(k)' = GetPostsList(k[2])'
           \/ /\ k[1] \in {"tagList", "rankedTagList"} /\ k[2] \in Tags
              /\ View(k) = GetPostsByTag(k[2]) /\ View(k)' = GetPostsByTag(k[2])'
           \/ /\ k[1] = "detail" /\ k[2] \in Posts
              /\ View(k) = GetPostDetail(k[2]) /\ View(k)' = GetPostDetail(k[2])'
           \/ /\ k[1] = "commentList" /\ k[2] \in Posts
              /\ View(k) = GetCommentsByPost(k[2]) /\ View(k)' = GetCommentsByPost(k[2])'
           \/ /\ k[1] = "reactionList" /\ k[2] \in Targets
              /\ View(k) = GetReactionsByTarget(k[2]) /\ View(k)' = GetReactionsByTarget(k[2])'
<1>1. k[1] = "boards" => View(k) = GetBoards /\ View(k)' = GetBoards'
  BY DEF View
<1>2. k[1] \in {"feed", "search"} => View(k) = GetFeed /\ View(k)' = GetFeed'
  BY DEF View
<1>3. k[1] \in {"postList", "rankedList"} =>
         View(k) = GetPostsList(k[2]) /\ View(k)' = GetPostsList(k[2])'
  BY DEF View
<1>4. k[1] \in {"tagList", "rankedTagList"} =>
         View(k) = GetPostsByTag(k[2]) /\ View(k)' = GetPostsByTag(k[2])'
  BY DEF View
<1>5. k[1] = "detail" => View(k) = GetPostDetail(k[2]) /\ View(k)' = GetPostDetail(k[2])'
  BY DEF View
<1>6. k[1] = "commentList" =>
         View(k) = GetCommentsByPost(k[2]) /\ View(k)' = GetCommentsByPost(k[2])'
  BY DEF View
<1>7. k[1] = "reactionList" =>
         View(k) = GetReactionsByTarget(k[2]) /\ View(k)' = GetReactionsByTarget(k[2])'
  BY DEF View
<1>8. \/ k[1] \in Lists
      \/ k[1] \in {"postList", "rankedList"} /\ k[2] \in Boards
      \/ k[1] \in {"tagList", "rankedTagList"} /\ k[2] \in Tags
      \/ k[1] \in {"detail", "commentList"} /\ k[2] \in Posts
      \/ k[1] = "reactionList" /\ k[2] \in Targets
  BY DEF Keys
<1>9. QED
  BY <1>1, <1>2, <1>3, <1>4, <1>5, <1>6, <1>7, <1>8 DEF Lists

\* Where what is seen stays seen, so does the list of it.
SameVisible(p) == PubliclyVisible(p)' <=> PubliclyVisible(p)

\* The feed, where every post is seen as before.
LEMMA FeedStays ==
    ASSUME \A p \in Posts : SameVisible(p)
    PROVE  GetFeed' = GetFeed
  BY DEF GetFeed, SameVisible

\* A board's list, where the same posts are seen on it.
LEMMA PostsListStays ==
    ASSUME NEW b,
           \A p \in Posts : (PubliclyVisible(p)' /\ post'[p].board = b)
                              <=> (PubliclyVisible(p) /\ post[p].board = b)
    PROVE  GetPostsList(b)' = GetPostsList(b)
  BY DEF GetFeed, GetPostsList

\* A tag's list, where the same posts are seen under it.
LEMMA TagListStays ==
    ASSUME NEW t,
           \A p \in Posts : (PubliclyVisible(p)' /\ t \in tags'[p])
                              <=> (PubliclyVisible(p) /\ t \in tags[p])
    PROVE  GetPostsByTag(t)' = GetPostsByTag(t)
  BY DEF GetFeed, GetPostsByTag

\* The comments on a post are what they were.
SameComments(p) ==
    \A c \in Comments :
        /\ c \in CommentsOf(p)' <=> c \in CommentsOf(p)
        /\ c \in CommentsOf(p) => comment'[c] = comment[c]

\* The comments that are shown on a post are chosen among its comments alone.
LEMMA VisibleCommentsStay ==
    ASSUME NEW p, SameComments(p)
    PROVE  /\ filterVisibleComments(p)' = filterVisibleComments(p)
           /\ \A c \in filterVisibleComments(p) : c \in CommentsOf(p) /\ comment'[c] = comment[c]
<1>1. \A c : c \in CommentsOf(p)' <=> c \in CommentsOf(p)
  BY DEF SameComments, CommentsOf
<1>2. \A c \in CommentsOf(p) : comment'[c] = comment[c] /\ (IsActive(c)' <=> IsActive(c))
  BY DEF SameComments, CommentsOf, IsActive
<1>3. \A c : c \in ActiveCommentsOf(p)' <=> c \in ActiveCommentsOf(p)
  BY <1>1, <1>2 DEF ActiveCommentsOf
<1>4. \A c \in ActiveCommentsOf(p) : comment'[c] = comment[c]
  BY <1>2 DEF ActiveCommentsOf
<1>5. \A c : c \in filterVisibleComments(p)' <=> c \in filterVisibleComments(p)
  BY <1>1, <1>2, <1>3, <1>4 DEF filterVisibleComments
<1>6. QED
  BY <1>2, <1>5 DEF filterVisibleComments

\* The list of a post's comments, where they stay or the post is not seen.
LEMMA CommentListStays ==
    ASSUME NEW p, SameVisible(p), ~PubliclyVisible(p) \/ SameComments(p)
    PROVE  GetCommentsByPost(p)' = GetCommentsByPost(p)
<1>1. CASE ~PubliclyVisible(p)
  BY <1>1 DEF GetCommentsByPost, SameVisible
<1>2. CASE SameComments(p)
  BY <1>2, VisibleCommentsStay DEF GetCommentsByPost, SameVisible
<1>3. QED
  BY <1>1, <1>2

\* A post without comments lists none, seen or not.
LEMMA NoCommentsStay ==
    ASSUME NEW p, CommentsOf(p) = {}, CommentsOf(p)' = {}
    PROVE  GetCommentsByPost(p)' = GetCommentsByPost(p)
<1>1. filterVisibleComments(p) = {} /\ filterVisibleComments(p)' = {}
  BY DEF filterVisibleComments
<1>2. QED
  BY <1>1 DEF GetCommentsByPost

\* A post's page, where its comments, its tags and the reactions to either stay.
LEMMA DetailStays ==
    ASSUME NEW p, SameVisible(p),
           ~PubliclyVisible(p) \/
             /\ SameComments(p)
             /\ tags'[p] = tags[p]
             /\ \A r : r[2] = <<"post", p>> \/ (\E c \in CommentsOf(p) : r[2] = <<"comment", c>>)
                        => (r \in reactions' <=> r \in reactions)
    PROVE  GetPostDetail(p)' = GetPostDetail(p)
<1>1. CASE ~PubliclyVisible(p)
  BY <1>1 DEF GetPostDetail, SameVisible
<1>2. CASE PubliclyVisible(p)
  <2> DEFINE T == {<<"post", p>>} \cup ({"comment"} \X filterVisibleComments(p))
  <2>1. filterVisibleComments(p)' = filterVisibleComments(p)
    BY <1>2, VisibleCommentsStay
  <2>2. T' = T
    BY <2>1
  <2>3. \A t \in T : t = <<"post", p>> \/ \E c \in CommentsOf(p) : t = <<"comment", c>>
    BY DEF filterVisibleComments
  <2>4. GetCommentsByPost(p)' = GetCommentsByPost(p)
    BY <1>2, CommentListStays
  <2> HIDE DEF T
  <2>5. \A r : r[2] \in T => (r \in reactions' <=> r \in reactions)
    BY <1>2, <2>3
  <2>6. ReactionsTo(T)' = ReactionsTo(T)
    BY <2>2, <2>5 DEF ReactionsTo
  <2>7. QED
    BY <1>2, <2>4, <2>6 DEF GetPostDetail, SameVisible, T
<1>3. QED
  BY <1>1, <1>2

\* Whether the reactions to a target are shown.
Shown(t) == IF t[1] = "post" THEN PubliclyVisible(t[2])
                             ELSE IsActive(t[2]) /\ PubliclyVisible(comment[t[2]].post)

\* The reactions to a target that is shown as before and keeps them.
LEMMA ReactionListStays ==
    ASSUME NEW t,
           \/ Shown(t)' <=> Shown(t)
           \/ \A r \in reactions : r[2] # t,
           \A r : r[2] = t => (r \in reactions' <=> r \in reactions)
    PROVE  GetReactionsByTarget(t)' = GetReactionsByTarget(t)
<1>1. GetReactionsByTarget(t) = IF Shown(t) THEN ReactionsTo({t}) ELSE {}
  BY DEF GetReactionsByTarget, Shown
<1>2. GetReactionsByTarget(t)' = IF Shown(t)' THEN ReactionsTo({t})' ELSE {}
  BY DEF GetReactionsByTarget, Shown
<1>3. ReactionsTo({t})' = ReactionsTo({t})
  BY DEF ReactionsTo
<1>4. (\A r \in reactions : r[2] # t) => ReactionsTo({t}) = {}
  BY DEF ReactionsTo
<1>5. QED
  BY <1>1, <1>2, <1>3, <1>4

\* What the event of the last step leaves in the cache is as it was.
Covered == \A k \in Keys \ Invalidated(event') : View(k)' = View(k)

\* What an event does not invalidate.
LEMMA KeptKeys ==
    ASSUME NEW e, NEW k \in Keys \ Invalidated(e)
    PROVE  /\ e.name = "board" =>
                /\ k[1] \notin Lists
                /\ k[1] \in {"postList", "rankedList"} => k[2] # e.board
                /\ e.op = "visibility" => k[1] \in {"postList", "rankedList"}
           /\ e.name = "post" =>
                /\ k[1] \notin {"feed", "search"}
                /\ k[1] \in {"postList", "rankedList"} => k[2] # e.board
                /\ k[1] = "detail" => k[2] # e.post
                /\ k[1] \in {"tagList", "rankedTagList"} => k[2] \notin e.tags
                /\ e.op = "deleted" /\ k[1] = "commentList" => k[2] # e.post
                /\ e.op = "deleted" /\ k[1] = "reactionList" =>
                      k[2] \notin {<<"post", e.post>>} \cup ({"comment"} \X e.comments)
           /\ e.name = "comment" =>
                /\ k[1] \notin {"feed", "search"}
                /\ k[1] \in {"commentList", "detail"} => k[2] # e.post
                /\ e.op = "deleted" /\ k[1] = "reactionList" => k[2] \notin {"comment"} \X e.comments
           /\ e.name = "reaction" =>
                /\ k[1] \notin {"feed", "search"}
                /\ k[1] = "reactionList" => k[2] \notin e.targets
                /\ k[1] = "detail" => k[2] # e.post
<1>1. e.name = "board" => k \notin handleBoardChanged(e)
  BY DEF Invalidated
<1>2. e.name = "post" => k \notin handlePostChanged(e)
  BY DEF Invalidated
<1>3. e.name = "comment" => k \notin handleCommentChanged(e)
  BY DEF Invalidated
<1>4. e.name = "reaction" => k \notin handleReactionChanged(e)
  BY DEF Invalidated
<1>5. QED
  <2>1. e.name = "board" =>
                /\ k[1] \notin Lists
                /\ k[1] \in {"postList", "rankedList"} => k[2] # e.board
                /\ e.op = "visibility" => k[1] \in {"postList", "rankedList"}
    BY <1>1 DEF handleBoardChanged, Keys, Lists
  <2>2. e.name = "post" =>
                /\ k[1] \notin {"feed", "search"}
                /\ k[1] \in {"postList", "rankedList"} => k[2] # e.board
                /\ k[1] = "detail" => k[2] # e.post
                /\ k[1] \in {"tagList", "rankedTagList"} => k[2] \notin e.tags
                /\ e.op = "deleted" /\ k[1] = "commentList" => k[2] # e.post
                /\ e.op = "deleted" /\ k[1] = "reactionList" =>
                      k[2] \notin {<<"post", e.post>>} \cup ({"comment"} \X e.comments)
    BY <1>2 DEF handlePostChanged
  <2>3. e.name = "comment" =>
                /\ k[1] \notin {"feed", "search"}
                /\ k[1] \in {"commentList", "detail"} => k[2] # e.post
                /\ e.op = "deleted" /\ k[1] = "reactionList" => k[2] \notin {"comment"} \X e.comments
    BY <1>3 DEF handleCommentChanged
  <2>4. e.name = "reaction" =>
                /\ k[1] \notin {"feed", "search"}
                /\ k[1] = "reactionList" => k[2] \notin e.targets
                /\ k[1] = "detail" => k[2] # e.post
    BY <1>4 DEF handleReactionChanged
  <2>5. QED
    BY <2>1, <2>2, <2>3, <2>4

\* A target is a post or a comment; a comment whose reactions may be shown is on a post.
LEMMA TargetKinds ==
    ASSUME NEW t \in Targets
    PROVE  \/ t[1] = "post" /\ t[2] \in Posts /\ t = <<"post", t[2]>>
           \/ t[1] = "comment" /\ t[2] \in Comments /\ t = <<"comment", t[2]>>
  BY DEF Targets

\* An active comment is on a post that was published (comment/command_handler.go CreateComment).
LEMMA ActivePost ==
    ASSUME IInv, NEW c \in Comments, IsActive(c)
    PROVE  /\ comment[c].post \in Posts /\ c \in CommentsOf(comment[c].post)
           /\ post[comment[c].post].status \in {"published", "deleted"}
  BY DEF IInv, AnswersFollowPublication, IsActive, CommentsOf

\* Whose comments, reactions and visible posts stay, all of its views stay but the boards.
LEMMA SeenStays ==
    ASSUME IInv, \A p \in Posts : SameVisible(p), UNCHANGED <<comment, reactions>>,
           \A p \in Posts : PubliclyVisible(p) => tags'[p] = tags[p] /\ post'[p].board = post[p].board,
           NEW k \in Keys, k[1] # "boards" \/ UNCHANGED board
    PROVE  View(k)' = View(k)
<1>1. \A p \in Posts : SameComments(p)
  BY DEF SameComments, CommentsOf
<1>2. CASE k[1] = "boards"
  BY <1>2, KeyKinds DEF GetBoards
<1>3. CASE k[1] \in {"feed", "search"}
  BY <1>3, KeyKinds, FeedStays
<1>4. CASE k[1] \in {"postList", "rankedList"}
  <2>1. GetPostsList(k[2])' = GetPostsList(k[2])
    BY PostsListStays DEF SameVisible
  <2>2. QED
    BY <1>4, <2>1, KeyKinds
<1>5. CASE k[1] \in {"tagList", "rankedTagList"}
  <2>1. GetPostsByTag(k[2])' = GetPostsByTag(k[2])
    BY TagListStays DEF SameVisible
  <2>2. QED
    BY <1>5, <2>1, KeyKinds
<1>6. CASE k[1] = "detail"
  <2>1. k[2] \in Posts
    BY <1>6, KeyKinds
  <2>2. GetPostDetail(k[2])' = GetPostDetail(k[2])
    BY <1>1, <2>1, DetailStays
  <2>3. QED
    BY <1>6, <2>2, KeyKinds
<1>7. CASE k[1] = "commentList"
  <2>1. k[2] \in Posts
    BY <1>7, KeyKinds
  <2>2. GetCommentsByPost(k[2])' = GetCommentsByPost(k[2])
    BY <1>1, <2>1, CommentListStays
  <2>3. QED
    BY <1>7, <2>2, KeyKinds
<1>8. CASE k[1] = "reactionList"
  <2>1. k[2] \in Targets
    BY <1>8, KeyKinds
  <2>2. Shown(k[2])' <=> Shown(k[2])
    BY <2>1, TargetKinds, ActivePost DEF Shown, IsActive, SameVisible
  <2>3. GetReactionsByTarget(k[2])' = GetReactionsByTarget(k[2])
    BY <2>2, ReactionListStays
  <2>4. QED
    BY <1>8, <2>3, KeyKinds
<1>9. QED
  BY <1>2, <1>3, <1>4, <1>5, <1>6, <1>7, <1>8, KeyKinds

\* A board is created, renamed or deleted without any post to show, or its posts change
\* their visibility with it.
LEMMA BoardsCovered ==
    ASSUME IInv, NEW b \in Boards,
           CreateBoard(b) \/ UpdateBoard(b) \/ DeleteBoard(b) \/ SetBoardVisibility(b)
    PROVE  Covered
<1>1. /\ UNCHANGED <<post, tags, comment, reactions>>
      /\ event'.name = "board" /\ event'.board = b
      /\ \A c \in Boards : c # b => board'[c] = board[c]
  BY DEF CreateBoard, UpdateBoard, DeleteBoard, SetBoardVisibility, SetBoard, Announce,
         NewBoardChanged, NoEvent, IInv, TypeOK
<1>2. \A p \in Posts : post[p].status = "published" => post[p].board \in Boards /\ BoardExists(post[p].board)
  BY DEF IInv, PostsHaveBoards, IsLive
<1>3. ASSUME CreateBoard(b) \/ UpdateBoard(b) \/ DeleteBoard(b), NEW p \in Posts
      PROVE  SameVisible(p)
  <2>1. CASE CreateBoard(b)
    BY <1>1, <1>2, <2>1 DEF CreateBoard, SetBoard, SameVisible, PubliclyVisible, BoardExists
  <2>2. CASE UpdateBoard(b)
    BY <1>1, <1>2, <2>2 DEF UpdateBoard, SetBoard, SameVisible, PubliclyVisible, IInv, TypeOK
  <2>3. CASE DeleteBoard(b)
    BY <1>1, <1>2, <2>3 DEF DeleteBoard, ExistsByBoardID, IsLive, SameVisible, PubliclyVisible
  <2>4. QED
    BY <1>3, <2>1, <2>2, <2>3
<1>4. ASSUME SetBoardVisibility(b), NEW k \in Keys \ Invalidated(event')
      PROVE  View(k)' = View(k)
  <2>1. event'.op = "visibility"
    BY <1>4 DEF SetBoardVisibility, SetBoard, Announce, NewBoardChanged, NoEvent
  <2>2. k[1] \in {"postList", "rankedList"} /\ k[2] # b
    BY <1>1, <2>1, KeptKeys
  <2>3. GetPostsList(k[2])' = GetPostsList(k[2])
    BY <1>1, <1>2, <2>2, PostsListStays DEF PubliclyVisible
  <2>4. QED
    BY <2>2, <2>3, KeyKinds
<1>5. ASSUME CreateBoard(b) \/ UpdateBoard(b) \/ DeleteBoard(b), NEW k \in Keys \ Invalidated(event')
      PROVE  View(k)' = View(k)
  <2>1. k[1] # "boards"
    BY <1>1, KeptKeys DEF Lists
  <2>2. QED
    BY <1>1, <1>3, <1>5, <2>1, SeenStays
<1>6. QED
  BY <1>4, <1>5 DEF Covered

\* The views of other posts do not see a post change, and what it shows itself is dropped; a
\* post that comes into sight by the change had neither comments nor reactions before.
LEMMA PostRewritten ==
    ASSUME IInv, NEW p \in Posts, UNCHANGED <<board, comment, reactions>>,
           \A q \in Posts : q # p => post'[q] = post[q] /\ tags'[q] = tags[q],
           SameVisible(p) \/ post[p].status \notin {"published", "deleted"},
           event'.name = "post", event'.board = post'[p].board, event'.post = p,
           post'[p].board = post[p].board \/ ~PubliclyVisible(p),
           tags[p] \cup tags'[p] \subseteq event'.tags
    PROVE  Covered
<1>1. \A q \in Posts : q # p => SameVisible(q)
  BY DEF SameVisible, PubliclyVisible
<1>2. \A q \in Posts : SameComments(q) /\ CommentsOf(q)' = CommentsOf(q)
  BY DEF SameComments, CommentsOf
<1>3. ASSUME ~SameVisible(p)
      PROVE  /\ CommentsOf(p) = {}
             /\ \A r \in reactions : r[2] # <<"post", p>>
  BY <1>3 DEF IInv, AnswersFollowPublication, CommentsOf
<1> SUFFICES ASSUME NEW k \in Keys \ Invalidated(event')
             PROVE  View(k)' = View(k)
  BY DEF Covered
<1>4. /\ k[1] \notin {"feed", "search"}
      /\ k[1] \in {"postList", "rankedList"} => k[2] # post'[p].board
      /\ k[1] = "detail" => k[2] # p
      /\ k[1] \in {"tagList", "rankedTagList"} => k[2] \notin tags[p] \cup tags'[p]
  BY KeptKeys
<1>5. CASE k[1] = "boards"
  BY <1>5, KeyKinds DEF GetBoards
<1>6. CASE k[1] \in {"postList", "rankedList"}
  <2>1. \A q \in Posts : (PubliclyVisible(q)' /\ post'[q].board = k[2])
                             <=> (PubliclyVisible(q) /\ post[q].board = k[2])
    BY <1>1, <1>4, <1>6 DEF SameVisible
  <2>2. GetPostsList(k[2])' = GetPostsList(k[2])
    BY <2>1, PostsListStays
  <2>3. QED
    BY <1>6, <2>2, KeyKinds
<1>7. CASE k[1] \in {"tagList", "rankedTagList"}
  <2>1. \A q \in Posts : (PubliclyVisible(q)' /\ k[2] \in tags'[q])
                             <=> (PubliclyVisible(q) /\ k[2] \in tags[q])
    BY <1>1, <1>4, <1>7 DEF SameVisible
  <2>2. GetPostsByTag(k[2])' = GetPostsByTag(k[2])
    BY <2>1, TagListStays
  <2>3. QED
    BY <1>7, <2>2, KeyKinds
<1>8. CASE k[1] = "detail"
  <2>1. k[2] \in Posts /\ k[2] # p
    BY <1>4, <1>8, KeyKinds
  <2>2. GetPostDetail(k[2])' = GetPostDetail(k[2])
    BY <1>1, <1>2, <2>1, DetailStays
  <2>3. QED
    BY <1>8, <2>2, KeyKinds
<1>9. CASE k[1] = "commentList"
  <2>1. k[2] \in Posts
    BY <1>9, KeyKinds
  <2>2. CASE SameVisible(k[2])
    <3>1. GetCommentsByPost(k[2])' = GetCommentsByPost(k[2])
      BY <1>2, <2>1, <2>2, CommentListStays
    <3>2. QED
      BY <1>9, <3>1, KeyKinds
  <2>3. CASE ~SameVisible(k[2])
    <3>1. GetCommentsByPost(k[2])' = GetCommentsByPost(k[2])
      BY <1>1, <1>2, <1>3, <2>1, <2>3, NoCommentsStay
    <3>2. QED
      BY <1>9, <3>1, KeyKinds
  <2>4. QED
    BY <2>2, <2>3
<1>10. CASE k[1] = "reactionList"
  <2>1. k[2] \in Targets
    BY <1>10, KeyKinds
  <2>2. (Shown(k[2])' <=> Shown(k[2])) \/ \A r \in reactions : r[2] # k[2]
    <3>1. CASE k[2][1] = "post"
      BY <1>1, <1>3, <2>1, <3>1, TargetKinds DEF Shown, SameVisible
    <3>2. CASE k[2][1] = "comment" /\ IsActive(k[2][2])
      <4>1. SameVisible(comment[k[2][2]].post)
        BY <1>1, <1>3, <2>1, <3>2, TargetKinds, ActivePost
      <4>2. QED
        BY <2>1, <3>2, <4>1 DEF Shown, SameVisible, IsActive
    <3>3. CASE k[2][1] = "comment" /\ ~IsActive(k[2][2])
      BY <3>3 DEF Shown, IsActive
    <3>4. QED
      BY <2>1, <3>1, <3>2, <3>3, TargetKinds
  <2>3. GetReactionsByTarget(k[2])' = GetReactionsByTarget(k[2])
    BY <2>2, ReactionListStays
  <2>4. QED
    BY <1>10, <2>3, KeyKinds
<1>11. QED
  BY <1>4, <1>5, <1>6, <1>7, <1>8, <1>9, <1>10, KeyKinds

\* Nothing is seen of a draft, and nothing hung on a post that was not written yet.
LEMMA CreatePostCovered ==
    ASSUME IInv, NEW u \in Users, NEW p \in Posts, CreatePost(u, p)
    PROVE  Covered
<1>1. PICK b \in Boards, s \in {"draft", "published"}, names \in SUBSET Tags :
        /\ post' = [post EXCEPT ![p] = [status |-> s, board |-> b]]
        /\ upsertPostTags(p, names)
        /\ Announce(IF s = "draft" THEN NoEvent ELSE NewPostChanged("created", p, names, {}))
  BY DEF CreatePost
<1>2. /\ UNCHANGED <<board, comment, reactions>>
      /\ post[p].status = "none" /\ ~PubliclyVisible(p)
      /\ post'[p].status = s /\ post'[p].board = b
      /\ \A q \in Posts : q # p => post'[q] = post[q] /\ tags'[q] = tags[q]
      /\ tags[p] = {} /\ tags'[p] = names
  <2>1. tags[p] = {}
    BY DEF CreatePost, IInv, NothingOutlivesItsPost, IsLive
  <2>2. QED
    BY <1>1, <2>1 DEF CreatePost, upsertPostTags, PubliclyVisible, IInv, TypeOK
<1>3. CASE s = "published"
  <2>1. event'.name = "post" /\ event'.board = post'[p].board /\ event'.post = p /\ event'.tags = names
    BY <1>1, <1>3 DEF Announce, NewPostChanged, NoEvent
  <2>2. QED
    BY <1>2, <2>1, PostRewritten
<1>4. CASE s = "draft"
  <2>1. \A q \in Posts : SameVisible(q)
    BY <1>2, <1>4 DEF SameVisible, PubliclyVisible
  <2>2. \A q \in Posts : PubliclyVisible(q) => tags'[q] = tags[q] /\ post'[q].board = post[q].board
    BY <1>2
  <2>3. QED
    BY <1>2, <2>1, <2>2, SeenStays DEF Covered
<1>5. QED
  BY <1>3, <1>4

\* Publishing shows a post of its board: the event names feed, board, tags and page.
LEMMA PublishPostCovered ==
    ASSUME IInv, NEW p \in Posts, PublishPost(p)
    PROVE  Covered
<1>1. /\ UNCHANGED <<board, tags, comment, reactions>>
      /\ IsLive(p)
      /\ post'[p].status = "published" /\ post'[p].board = post[p].board
      /\ \A q \in Posts : q # p => post'[q] = post[q]
  BY DEF PublishPost, IInv, TypeOK, Post
<1>2. event'.name = "post" /\ event'.board = post'[p].board /\ event'.post = p /\ event'.tags = tags[p]
  BY DEF PublishPost, Announce, NewPostChanged, NoEvent
<1>3. SameVisible(p) \/ post[p].status \notin {"published", "deleted"}
  BY <1>1 DEF SameVisible, PubliclyVisible, IsLive
<1>4. QED
  BY <1>1, <1>2, <1>3, PostRewritten

\* Editing outdates the lists of the tags before and after it; the event names their union.
LEMMA UpdatePostCovered ==
    ASSUME IInv, NEW p \in Posts, UpdatePost(p)
    PROVE  Covered
<1>1. PICK names \in SUBSET Tags :
        /\ syncPostTags(p, names)
        /\ Announce(NewPostChanged("updated", p, unionTagNames(tags[p], names), {}))
  BY DEF UpdatePost
<1>2. /\ UNCHANGED <<board, post, comment, reactions>>
      /\ tags'[p] = names
      /\ \A q \in Posts : q # p => tags'[q] = tags[q]
  BY <1>1 DEF UpdatePost, syncPostTags, IInv, TypeOK
<1>3. event'.name = "post" /\ event'.board = post'[p].board /\ event'.post = p
        /\ event'.tags = tags[p] \cup names
  BY <1>1 DEF Announce, NewPostChanged, NoEvent, unionTagNames
<1>4. SameVisible(p)
  BY <1>2 DEF SameVisible, PubliclyVisible
<1>5. QED
  BY <1>2, <1>3, <1>4, PostRewritten

\* With the post go its tags, its active comments of every page and the reactions to them:
\* nothing else has been shown of it.
LEMMA DeletePostCovered ==
    ASSUME IInv, NEW p \in Posts, DeletePost(p)
    PROVE  Covered
<1> DEFINE gone == ActiveCommentsOf(p)
           artifacts == deletePostArtifacts(p, gone)
<1>1. gone = deletePostCommentsInBatches(p)
  BY BatchesAreAll
<1>2. /\ comment' = [c \in Comments |-> IF c \in gone THEN Deleted(comment[c]) ELSE comment[c]]
      /\ reactions' = reactions \ ReactionsTo(artifacts)
      /\ post' = [post EXCEPT ![p].status = "deleted"]
      /\ syncPostTags(p, {})
      /\ Announce(NewPostChanged("deleted", p, tags[p], gone))
      /\ UNCHANGED board
  BY <1>1 DEF DeletePost
<1>3. \A t : t \in artifacts <=> t = <<"post", p>> \/ \E c \in gone : t = <<"comment", c>>
  BY DEF deletePostArtifacts
<1>4. gone \subseteq Comments /\ \A c \in gone : c \in CommentsOf(p) /\ comment[c].post = p /\ IsActive(c)
  BY DEF ActiveCommentsOf, CommentsOf
<1>5. \A c \in Comments : IsActive(c) /\ comment[c].post = p => c \in gone
  BY DEF ActiveCommentsOf, CommentsOf, IsActive
<1> HIDE DEF gone
<1>6. /\ post'[p].status = "deleted" /\ post'[p].board = post[p].board
      /\ \A q \in Posts : q # p => post'[q] = post[q] /\ tags'[q] = tags[q]
      /\ tags'[p] = {}
  BY <1>2 DEF syncPostTags, IInv, TypeOK, Post
<1>7. /\ event'.name = "post" /\ event'.op = "deleted" /\ event'.board = post[p].board
      /\ event'.post = p /\ event'.tags = tags[p] /\ event'.comments = gone
  BY <1>2, <1>6 DEF Announce, NewPostChanged, NoEvent
<1>8. \A q \in Posts : q # p => SameVisible(q)
  BY <1>2, <1>6 DEF SameVisible, PubliclyVisible
<1>9. ~PubliclyVisible(p)'
  BY <1>6 DEF PubliclyVisible
<1>10. \A c \in Comments : /\ c \notin gone => comment'[c] = comment[c]
                           /\ comment'[c].post = comment[c].post
                           /\ comment'[c].status = "none" <=> comment[c].status = "none"
  BY <1>2, <1>4, DeletedRow DEF IInv, IsActive
<1>11. \A q \in Posts : q # p => SameComments(q)
  BY <1>4, <1>10 DEF SameComments, CommentsOf
<1>12. \A r : r[2] \notin artifacts => (r \in reactions' <=> r \in reactions)
  BY <1>2 DEF ReactionsTo
<1> HIDE DEF artifacts
<1> SUFFICES ASSUME NEW k \in Keys \ Invalidated(event')
             PROVE  View(k)' = View(k)
  BY DEF Covered
<1>13. /\ k[1] \notin {"feed", "search"}
       /\ k[1] \in {"postList", "rankedList"} => k[2] # post[p].board
       /\ k[1] = "detail" => k[2] # p
       /\ k[1] \in {"tagList", "rankedTagList"} => k[2] \notin tags[p]
       /\ k[1] = "commentList" => k[2] # p
       /\ k[1] = "reactionList" => k[2] \notin artifacts
  <2>1. k[1] = "reactionList" => k[2] \notin {<<"post", p>>} \cup ({"comment"} \X gone)
    BY <1>7, KeptKeys
  <2>2. k[1] = "reactionList" => k[2] \notin artifacts
    BY <1>3, <2>1
  <2>3. QED
    BY <1>7, <2>2, KeptKeys
<1>14. CASE k[1] = "boards"
  BY <1>2, <1>14, KeyKinds DEF GetBoards
<1>15. CASE k[1] \in {"postList", "rankedList"}
  <2>1. \A q \in Posts : (PubliclyVisible(q)' /\ post'[q].board = k[2])
                             <=> (PubliclyVisible(q) /\ post[q].board = k[2])
    BY <1>6, <1>8, <1>13, <1>15 DEF SameVisible
  <2>2. GetPostsList(k[2])' = GetPostsList(k[2])
    BY <2>1, PostsListStays
  <2>3. QED
    BY <1>15, <2>2, KeyKinds
<1>16. CASE k[1] \in {"tagList", "rankedTagList"}
  <2>1. \A q \in Posts : (PubliclyVisible(q)' /\ k[2] \in tags'[q])
                             <=> (PubliclyVisible(q) /\ k[2] \in tags[q])
    BY <1>6, <1>8, <1>13, <1>16 DEF SameVisible
  <2>2. GetPostsByTag(k[2])' = GetPostsByTag(k[2])
    BY <2>1, TagListStays
  <2>3. QED
    BY <1>16, <2>2, KeyKinds
<1>17. CASE k[1] = "detail"
  <2>1. k[2] \in Posts /\ k[2] # p
    BY <1>13, <1>17, KeyKinds
  <2>2. <<"post", k[2]>> \notin artifacts /\ \A c \in CommentsOf(k[2]) : <<"comment", c>> \notin artifacts
    BY <1>3, <1>4, <2>1 DEF CommentsOf
  <2>3. GetPostDetail(k[2])' = GetPostDetail(k[2])
    BY <1>6, <1>8, <1>11, <1>12, <2>1, <2>2, DetailStays
  <2>4. QED
    BY <1>17, <2>3, KeyKinds
<1>18. CASE k[1] = "commentList"
  <2>1. k[2] \in Posts /\ k[2] # p
    BY <1>13, <1>18, KeyKinds
  <2>2. GetCommentsByPost(k[2])' = GetCommentsByPost(k[2])
    BY <1>8, <1>11, <2>1, CommentListStays
  <2>3. QED
    BY <1>18, <2>2, KeyKinds
<1>19. CASE k[1] = "reactionList"
  <2>1. k[2] \in Targets /\ k[2] \notin artifacts
    BY <1>13, <1>19, KeyKinds
  <2>2. ASSUME k[2][1] = "post"
        PROVE  Shown(k[2])' <=> Shown(k[2])
    <3>1. k[2][2] \in Posts /\ k[2][2] # p
      BY <1>3, <2>1, <2>2, TargetKinds
    <3>2. QED
      BY <1>8, <2>2, <3>1 DEF Shown, SameVisible
  <2>3. ASSUME k[2][1] = "comment"
        PROVE  Shown(k[2])' <=> Shown(k[2])
    <3>1. k[2][2] \in Comments /\ k[2][2] \notin gone
      BY <1>3, <2>1, <2>3, TargetKinds
    <3>2. comment'[k[2][2]] = comment[k[2][2]]
      BY <1>10, <3>1
    <3>3. IsActive(k[2][2]) => SameVisible(comment[k[2][2]].post)
      BY <1>5, <1>8, <3>1, ActivePost
    <3>4. QED
      BY <2>3, <3>2, <3>3 DEF Shown, SameVisible, IsActive
  <2>4. GetReactionsByTarget(k[2])' = GetReactionsByTarget(k[2])
    BY <1>12, <2>1, <2>2, <2>3, TargetKinds, ReactionListStays
  <2>5. QED
    BY <1>19, <2>4, KeyKinds
<1>20. QED
  BY <1>13, <1>14, <1>15, <1>16, <1>17, <1>18, <1>19, KeyKinds

\* Where the posts stay, so do their lists.
LEMMA ListsStay ==
    ASSUME UNCHANGED <<board, post, tags>>,
           NEW k \in Keys, k[1] \notin {"detail", "commentList", "reactionList"}
    PROVE  View(k)' = View(k)
<1>1. \A p \in Posts : SameVisible(p)
  BY DEF SameVisible, PubliclyVisible
<1>2. CASE k[1] = "boards"
  BY <1>2, KeyKinds DEF GetBoards
<1>3. CASE k[1] \in {"feed", "search"}
  BY <1>1, <1>3, KeyKinds, FeedStays
<1>4. CASE k[1] \in {"postList", "rankedList"}
  <2>1. GetPostsList(k[2])' = GetPostsList(k[2])
    BY <1>1, PostsListStays DEF SameVisible
  <2>2. QED
    BY <1>4, <2>1, KeyKinds
<1>5. CASE k[1] \in {"tagList", "rankedTagList"}
  <2>1. GetPostsByTag(k[2])' = GetPostsByTag(k[2])
    BY <1>1, TagListStays DEF SameVisible
  <2>2. QED
    BY <1>5, <2>1, KeyKinds
<1>6. QED
  BY <1>2, <1>3, <1>4, <1>5, KeyKinds

\* A comment is seen below its post and nowhere else, and it has reactions to show only
\* while it is active.
LEMMA CommentRewritten ==
    ASSUME IInv, NEW c \in Comments, NEW p \in Posts, UNCHANGED <<board, post, tags>>,
           \A d \in Comments : d # c => comment'[d] = comment[d],
           comment'[c].post = p, comment[c].status # "none" => comment[c].post = p,
           event'.name = "comment", event'.post = p,
           \A r : r[2] # <<"comment", c>> => (r \in reactions' <=> r \in reactions),
           \/ event'.op = "deleted" /\ event'.comments = {c}
           \/ UNCHANGED reactions /\ (IsActive(c) => IsActive(c)')
    PROVE  Covered
<1>1. \A q \in Posts : SameVisible(q)
  BY DEF SameVisible, PubliclyVisible
<1>2. \A q \in Posts : q # p => SameComments(q) /\ c \notin CommentsOf(q)
  BY DEF SameComments, CommentsOf
<1> SUFFICES ASSUME NEW k \in Keys \ Invalidated(event')
             PROVE  View(k)' = View(k)
  BY DEF Covered
<1>3. CASE k[1] \notin {"detail", "commentList", "reactionList"}
  BY <1>3, ListsStay
<1>4. CASE k[1] = "detail"
  <2>1. k[2] \in Posts /\ k[2] # p
    BY <1>4, KeptKeys, KeyKinds
  <2>2. <<"post", k[2]>> # <<"comment", c>>
          /\ \A d \in CommentsOf(k[2]) : <<"comment", d>> # <<"comment", c>>
    BY <1>2, <2>1
  <2>3. GetPostDetail(k[2])' = GetPostDetail(k[2])
    BY <1>1, <1>2, <2>1, <2>2, DetailStays
  <2>4. QED
    BY <1>4, <2>3, KeyKinds
<1>5. CASE k[1] = "commentList"
  <2>1. k[2] \in Posts /\ k[2] # p
    BY <1>5, KeptKeys, KeyKinds
  <2>2. GetCommentsByPost(k[2])' = GetCommentsByPost(k[2])
    BY <1>1, <1>2, <2>1, CommentListStays
  <2>3. QED
    BY <1>5, <2>2, KeyKinds
<1>6. CASE k[1] = "reactionList" /\ k[2] # <<"comment", c>>
  <2>1. k[2] \in Targets
    BY <1>6, KeyKinds
  <2>2. ASSUME k[2][1] = "post"
        PROVE  Shown(k[2])' <=> Shown(k[2])
    <3>1. k[2][2] \in Posts
      BY <2>1, <2>2, TargetKinds
    <3>2. QED
      BY <1>1, <2>2, <3>1 DEF Shown, SameVisible
  <2>3. ASSUME k[2][1] = "comment"
        PROVE  Shown(k[2])' <=> Shown(k[2])
    <3>1. k[2][2] \in Comments /\ k[2][2] # c
      BY <1>6, <2>1, <2>3, TargetKinds
    <3>2. comment'[k[2][2]] = comment[k[2][2]]
      BY <3>1
    <3>3. IsActive(k[2][2]) => SameVisible(comment[k[2][2]].post)
      BY <1>1, <3>1, ActivePost
    <3>4. QED
      BY <2>3, <3>2, <3>3 DEF Shown, SameVisible, IsActive
  <2>4. Shown(k[2])' <=> Shown(k[2])
    BY <2>1, <2>2, <2>3, TargetKinds
  <2>5. GetReactionsByTarget(k[2])' = GetReactionsByTarget(k[2])
    BY <1>6, <2>4, ReactionListStays
  <2>6. QED
    BY <1>6, <2>5, KeyKinds
<1>7. CASE k[1] = "reactionList" /\ k[2] = <<"comment", c>>
  <2>1. UNCHANGED reactions /\ (IsActive(c) => IsActive(c)')
    <3>1. event'.op = "deleted" => k[2] \notin {"comment"} \X event'.comments
      BY <1>7, KeptKeys
    <3>2. event'.comments = {c} => k[2] \in {"comment"} \X event'.comments
      BY <1>7
    <3>3. QED
      BY <3>1, <3>2
  <2>2. CASE IsActive(c)
    <3>1. Shown(k[2])' <=> Shown(k[2])
      BY <1>1, <1>7, <2>1, <2>2 DEF Shown, SameVisible, IsActive
    <3>2. GetReactionsByTarget(k[2])' = GetReactionsByTarget(k[2])
      BY <2>1, <3>1, ReactionListStays
    <3>3. QED
      BY <1>7, <3>2, KeyKinds
  <2>3. CASE ~IsActive(c)
    <3>1. \A r \in reactions : r[2] # k[2]
      BY <1>7, <2>3 DEF IInv, NothingOutlivesItsPost
    <3>2. GetReactionsByTarget(k[2])' = GetReactionsByTarget(k[2])
      BY <2>1, <3>1, ReactionListStays
    <3>3. QED
      BY <1>7, <3>2, KeyKinds
  <2>4. QED
    BY <2>2, <2>3
<1>8. QED
  BY <1>3, <1>4, <1>5, <1>6, <1>7

\* A comment outdates its post's comments and page, which its event names.
LEMMA CommentsCovered ==
    ASSUME IInv, NEW u \in Users, NEW c \in Comments,
           CreateComment(u, c) \/ UpdateComment(u, c) \/ DeleteComment(u, c)
    PROVE  Covered
<1>1. CASE CreateComment(u, c)
  <2>1. PICK p \in Posts, parent \in Comments \cup {TopLevel} :
          /\ comment' = [comment EXCEPT ![c] =
               [status |-> "active", text |-> "written", post |-> p, parent |-> parent]]
          /\ Announce(NewCommentChanged("created", c, p))
    BY <1>1 DEF CreateComment
  <2>2. /\ UNCHANGED <<board, post, tags, reactions>>
        /\ comment[c].status = "none" /\ ~IsActive(c)
        /\ comment'[c].post = p
        /\ \A d \in Comments : d # c => comment'[d] = comment[d]
    BY <1>1, <2>1 DEF CreateComment, IsActive, IInv, TypeOK
  <2>3. event'.name = "comment" /\ event'.post = p
    BY <2>1 DEF Announce, NewCommentChanged, NoEvent
  <2>4. QED
    BY <2>2, <2>3, CommentRewritten
<1>2. CASE UpdateComment(u, c) \/ DeleteComment(u, c)
  <2>1. comment[c].status # "none" /\ comment[c].post \in Posts
    BY <1>2 DEF UpdateComment, DeleteComment, SelectCommentByUUID, IInv, AnswersFollowPublication
  <2>2. /\ UNCHANGED <<board, post, tags>>
        /\ comment'[c].post = comment[c].post
        /\ \A d \in Comments : d # c => comment'[d] = comment[d]
    BY <1>2, DeletedRow DEF UpdateComment, DeleteComment, IInv, TypeOK, Comment
  <2>3. event'.name = "comment" /\ event'.post = comment[c].post
    BY <1>2 DEF UpdateComment, DeleteComment, Announce, NewCommentChanged, NoEvent
  <2>4. CASE UpdateComment(u, c)
    <3>1. UNCHANGED reactions /\ (IsActive(c) => IsActive(c)')
      BY <2>4 DEF UpdateComment, IsActive, IInv, TypeOK, Comment
    <3>2. QED
      BY <2>1, <2>2, <2>3, <3>1, CommentRewritten
  <2>5. CASE DeleteComment(u, c)
    <3>1. event'.op = "deleted" /\ event'.comments = {c}
      BY <2>5 DEF DeleteComment, Announce, NewCommentChanged, NoEvent
    <3>2. \A r : r[2] # <<"comment", c>> => (r \in reactions' <=> r \in reactions)
      BY <2>5 DEF DeleteComment, ReactionsTo
    <3>3. QED
      BY <2>1, <2>2, <2>3, <3>1, <3>2, CommentRewritten
  <2>6. QED
    BY <1>2, <2>4, <2>5
<1>3. QED
  BY <1>1, <1>2

\* A reaction is seen in the list of its target and in the detail of the post it is below; one
\* that is set again as it was is announced to nobody.
LEMMA ReactionsCovered ==
    ASSUME IInv, NEW u \in Users, NEW t \in Targets, SetReaction(u, t) \/ DeleteReaction(u, t)
    PROVE  Covered
<1>1. /\ UNCHANGED <<board, post, tags, comment>>
      /\ \A r : r[2] # t => (r \in reactions' <=> r \in reactions)
  BY DEF SetReaction, DeleteReaction
<1>2. \/ UNCHANGED reactions
      \/ /\ event'.name = "reaction" /\ event'.targets = {t}
         /\ event'.post = IF t[1] = "post" THEN t[2] ELSE comment[t[2]].post
  BY DEF SetReaction, DeleteReaction, Announce, NewReactionChanged, NoEvent
<1>3. \A p \in Posts : SameVisible(p) /\ SameComments(p)
  BY <1>1 DEF SameVisible, PubliclyVisible, SameComments, CommentsOf
<1>4. \A s \in Targets : Shown(s)' <=> Shown(s)
  BY <1>1 DEF Shown, PubliclyVisible, IsActive
<1> SUFFICES ASSUME NEW k \in Keys \ Invalidated(event')
             PROVE  View(k)' = View(k)
  BY DEF Covered
<1>5. CASE UNCHANGED reactions
  BY <1>1, <1>3, <1>5, SeenStays
<1>6. CASE ~UNCHANGED reactions
  <2>1. CASE k[1] \notin {"detail", "commentList", "reactionList"}
    BY <1>1, <2>1, ListsStay
  <2>2. CASE k[1] = "detail"
    <3>1. k[2] \in Posts /\ k[2] # IF t[1] = "post" THEN t[2] ELSE comment[t[2]].post
      BY <1>2, <1>6, <2>2, KeptKeys, KeyKinds
    <3>2. <<"post", k[2]>> # t /\ \A c \in CommentsOf(k[2]) : <<"comment", c>> # t
      BY <3>1, TargetKinds DEF CommentsOf
    <3>3. GetPostDetail(k[2])' = GetPostDetail(k[2])
      BY <1>1, <1>3, <3>1, <3>2, DetailStays
    <3>4. QED
      BY <2>2, <3>3, KeyKinds
  <2>3. CASE k[1] = "commentList"
    <3>1. GetCommentsByPost(k[2])' = GetCommentsByPost(k[2])
      BY <1>3, <2>3, KeyKinds, CommentListStays
    <3>2. QED
      BY <2>3, <3>1, KeyKinds
  <2>4. CASE k[1] = "reactionList"
    <3>1. k[2] \in Targets /\ k[2] # t
      BY <1>2, <1>6, <2>4, KeptKeys, KeyKinds
    <3>2. GetReactionsByTarget(k[2])' = GetReactionsByTarget(k[2])
      BY <1>1, <1>4, <3>1, ReactionListStays
    <3>3. QED
      BY <2>4, <3>2, KeyKinds
  <2>5. QED
    BY <2>1, <2>2, <2>3, <2>4
<1>7. QED
  BY <1>5, <1>6

\* What a command changes in the answer of a public query, its event drops from the cache,
\* however the tags, the comments of later pages or the boards went (EventCoversViews).
THEOREM EventsCoverViews == Spec => EventCoversViews
<1>1. IInv /\ [Next]_vars => [Covered]_vars
  <2>1. ASSUME IInv, Administration PROVE Covered
    BY <2>1, BoardsCovered DEF Administration
  <2>2. ASSUME IInv, Writing PROVE Covered
    BY <2>2, CreatePostCovered, PublishPostCovered, UpdatePostCovered, DeletePostCovered,
       CommentsCovered DEF Writing
  <2>3. ASSUME IInv, Responding PROVE Covered
    BY <2>3, ReactionsCovered DEF Responding
  <2>4. QED
    BY <2>1, <2>2, <2>3 DEF Next
<1>2. [Covered]_vars <=> [\A k \in Keys \ Invalidated(event') : View(k)' = View(k)]_vars
  BY DEF Covered
<1>3. QED
  BY <1>1, <1>2, Invariance, PTL DEF Spec, EventCoversViews

=============================================================================
