------------------------- MODULE AttachmentsProofs -------------------------
(***************************************************************************)
(* Posts and their attachments for every number of posts, attachments and  *)
(* faults, every grace and batch size: the inductive invariant, and what   *)
(* follows from it.                                                        *)
(***************************************************************************)
EXTENDS Attachments, TLAPS

\* What writing a text does to the rows: orphans are those of the post's that it does not
\* refer to, and no row is hidden or changes hands.
SyncFacts(p, refs) ==
    /\ row' \in [Attachments -> Row]
    /\ \A a \in Attachments :
         /\ row'[a].post = row[a].post
         /\ row'[a].pending = row[a].pending
         /\ row[a].post # p => row'[a] = row[a]
         /\ row[a].post = p => (row'[a].orphaned = NotSet <=> a \in refs)

\* What the passing of time does to the rows.
TickFacts ==
    /\ row' \in [Attachments -> Row]
    /\ \A a \in Attachments :
         /\ row'[a].post = row[a].post
         /\ row'[a].orphaned = NotSet <=> row[a].orphaned = NotSet
         /\ row'[a].pending = NotSet <=> row[a].pending = NotSet
         /\ row[a].pending = Grace => row'[a].pending = Grace

\* syncPostAttachmentOrphans touches the orphaned time of the post's rows only.
LEMMA SyncRows ==
    ASSUME row \in [Attachments -> Row], NEW p, NEW refs, syncPostAttachmentOrphans(p, refs)
    PROVE  SyncFacts(p, refs)
<1>1. \A a \in Attachments : row[a] \in Row
  OBVIOUS
<1>2. \A a \in Attachments :
        /\ MarkReferenced(row[a]) \in Row
        /\ MarkReferenced(row[a]).post = row[a].post
        /\ MarkReferenced(row[a]).pending = row[a].pending
        /\ MarkReferenced(row[a]).orphaned = NotSet
  BY <1>1, AttachmentsAssumption DEF MarkReferenced, Row, Time, NotSet
<1>3. \A a \in Attachments :
        /\ MarkOrphaned(row[a]) \in Row
        /\ MarkOrphaned(row[a]).post = row[a].post
        /\ MarkOrphaned(row[a]).pending = row[a].pending
        /\ MarkOrphaned(row[a]).orphaned # NotSet
  BY <1>1, AttachmentsAssumption DEF MarkOrphaned, Row, Time, NotSet
<1>4. QED
  BY <1>1, <1>2, <1>3 DEF syncPostAttachmentOrphans, SyncFacts

\* A time that is set stays set and does not pass the grace.
LEMMA TickRows ==
    ASSUME row \in [Attachments -> Row], Tick
    PROVE  TickFacts
<1>1. \A t \in Time : /\ Older(t) \in Time
                      /\ Older(t) = NotSet <=> t = NotSet
                      /\ t = Grace => Older(t) = Grace
  BY AttachmentsAssumption DEF Older, Time, NotSet
<1>2. \A a \in Attachments : row[a] \in Row
  OBVIOUS
<1>3. \A a \in Attachments :
        row'[a] = [post |-> row[a].post, orphaned |-> Older(row[a].orphaned),
                   pending |-> Older(row[a].pending)]
  BY <1>2 DEF Tick, Row
<1>4. row' = [a \in Attachments |-> row'[a]]
  BY DEF Tick
<1>5. QED
  BY <1>1, <1>2, <1>3, <1>4 DEF TickFacts, Row

\* A new post has no attachments and refers to none.
LEMMA CreatePostInv ==
    ASSUME IInv, NEW p \in Posts, CreatePost(p)
    PROVE  IInv'
<1>1. TypeOK'
  BY AttachmentsAssumption DEF IInv, TypeOK, Row, Time, NotSet, Upload, Cleaner, Status,
         CreatePost, postVars, jobVars
<1>2. UploadInStep'
  BY DEF IInv, UploadInStep, Exists, NoRow, CreatePost, postVars, jobVars
<1>3. NoneBeforePost'
  BY DEF IInv, TypeOK, NoneBeforePost, Live, CreatePost, postVars, jobVars
<1>4. JobInStep'
  BY AttachmentsAssumption DEF IInv, JobInStep, Exists, CreatePost, postVars, jobVars
<1>5. OvertakenIsHidden'
  BY DEF IInv, OvertakenIsHidden, Exists, IsPendingDelete, CreatePost, postVars, jobVars
<1>6. ListedIsEmbedded'
  BY DEF IInv, TypeOK, ListedIsEmbedded, Live, IsOrphaned, IsPendingDelete, CreatePost,
         NoneBeforePost, postVars, jobVars
<1>7. ShownHasFile'
  BY DEF IInv, ShownHasFile, Exists, IsPendingDelete, CreatePost, postVars, jobVars
<1>8. FilesAccounted'
  BY DEF IInv, FilesAccounted, Exists, CreatePost, postVars, jobVars
<1>9. QED
  BY <1>1, <1>2, <1>3, <1>4, <1>5, <1>6, <1>7, <1>8 DEF IInv

\* A new text refers to attachments of its own post that are not hidden.
LEMMA UpdatePostInv ==
    ASSUME IInv, NEW p \in Posts, UpdatePost(p)
    PROVE  IInv'
<1> PICK refs \in SUBSET Attachments :
        /\ validateAttachmentRefs(p, refs)
        /\ syncPostAttachmentOrphans(p, refs)
        /\ embeds' = [embeds EXCEPT ![p] = refs]
  BY DEF UpdatePost
<1>1. SyncFacts(p, refs)
  BY SyncRows DEF IInv, TypeOK
<1>2. TypeOK'
  BY AttachmentsAssumption, <1>1 DEF IInv, TypeOK, Row, Time, NotSet, Upload, Cleaner,
         Status, UpdatePost, validateAttachmentRefs, SyncFacts, postVars, jobVars
<1>3. UploadInStep'
  BY AttachmentsAssumption, <1>1 DEF IInv, TypeOK, UploadInStep, Exists, NoRow,
         UpdatePost, validateAttachmentRefs, SyncFacts, postVars, jobVars
<1>4. NoneBeforePost'
  BY <1>1 DEF IInv, TypeOK, NoneBeforePost, Live, UpdatePost, validateAttachmentRefs,
         SyncFacts, postVars, jobVars
<1>5. JobInStep'
  BY AttachmentsAssumption, <1>1 DEF IInv, TypeOK, JobInStep, Exists, UpdatePost,
         validateAttachmentRefs, SyncFacts, postVars, jobVars
<1>6. OvertakenIsHidden'
  BY <1>1 DEF IInv, TypeOK, OvertakenIsHidden, Exists, IsPendingDelete, UpdatePost,
         validateAttachmentRefs, SyncFacts, postVars, jobVars
<1>7. ListedIsEmbedded'
  BY AttachmentsAssumption, <1>1 DEF IInv, TypeOK, ListedIsEmbedded, Live, IsOrphaned,
         IsPendingDelete, UpdatePost, validateAttachmentRefs, OvertakenIsHidden, Exists,
         SyncFacts, postVars, jobVars
<1>8. ShownHasFile'
  BY <1>1 DEF IInv, TypeOK, ShownHasFile, Exists, IsPendingDelete, UpdatePost,
         validateAttachmentRefs, SyncFacts, postVars, jobVars
<1>9. FilesAccounted'
  BY <1>1 DEF IInv, TypeOK, FilesAccounted, Exists, UpdatePost, validateAttachmentRefs,
         SyncFacts, postVars, jobVars
<1>10. QED
  BY <1>2, <1>3, <1>4, <1>5, <1>6, <1>7, <1>8, <1>9 DEF IInv

\* Publishing a post once more leaves it what it refers to.
LEMMA PublishPostInv ==
    ASSUME IInv, NEW p \in Posts, PublishPost(p)
    PROVE  IInv'
<1>1. SyncFacts(p, embeds[p])
  BY SyncRows DEF IInv, TypeOK, PublishPost
<1>2. TypeOK'
  BY AttachmentsAssumption, <1>1 DEF IInv, TypeOK, Row, Time, NotSet, Upload, Cleaner,
         Status, PublishPost, validateAttachmentRefs, SyncFacts, postVars, jobVars
<1>3. UploadInStep'
  BY AttachmentsAssumption, <1>1 DEF IInv, TypeOK, UploadInStep, Exists, NoRow,
         PublishPost, validateAttachmentRefs, SyncFacts, postVars, jobVars
<1>4. NoneBeforePost'
  BY <1>1 DEF IInv, TypeOK, NoneBeforePost, Live, PublishPost, validateAttachmentRefs,
         SyncFacts, postVars, jobVars
<1>5. JobInStep'
  BY AttachmentsAssumption, <1>1 DEF IInv, TypeOK, JobInStep, Exists, PublishPost,
         validateAttachmentRefs, SyncFacts, postVars, jobVars
<1>6. OvertakenIsHidden'
  BY <1>1 DEF IInv, TypeOK, OvertakenIsHidden, Exists, IsPendingDelete, PublishPost,
         validateAttachmentRefs, SyncFacts, postVars, jobVars
<1>7. ListedIsEmbedded'
  BY AttachmentsAssumption, <1>1 DEF IInv, TypeOK, ListedIsEmbedded, Live, IsOrphaned,
         IsPendingDelete, PublishPost, validateAttachmentRefs, OvertakenIsHidden,
         Exists, SyncFacts, postVars, jobVars
<1>8. ShownHasFile'
  BY <1>1 DEF IInv, TypeOK, ShownHasFile, Exists, IsPendingDelete, PublishPost,
         validateAttachmentRefs, SyncFacts, postVars, jobVars
<1>9. FilesAccounted'
  BY <1>1 DEF IInv, TypeOK, FilesAccounted, Exists, PublishPost, validateAttachmentRefs,
         SyncFacts, postVars, jobVars
<1>10. QED
  BY <1>2, <1>3, <1>4, <1>5, <1>6, <1>7, <1>8, <1>9 DEF IInv

\* The attachments of a deleted post are orphans.
LEMMA DeletePostInv ==
    ASSUME IInv, NEW p \in Posts, DeletePost(p)
    PROVE  IInv'
<1>1. SyncFacts(p, {})
  BY SyncRows DEF IInv, TypeOK, DeletePost, orphanPostAttachments
<1>2. TypeOK'
  BY AttachmentsAssumption, <1>1 DEF IInv, TypeOK, Row, Time, NotSet, Upload, Cleaner,
         Status, DeletePost, orphanPostAttachments, SyncFacts, postVars, jobVars
<1>3. UploadInStep'
  BY AttachmentsAssumption, <1>1 DEF IInv, TypeOK, UploadInStep, Exists, NoRow,
         DeletePost, orphanPostAttachments, SyncFacts, postVars, jobVars
<1>4. NoneBeforePost'
  BY <1>1 DEF IInv, TypeOK, NoneBeforePost, Live, DeletePost, orphanPostAttachments,
         SyncFacts, postVars, jobVars
<1>5. JobInStep'
  BY AttachmentsAssumption, <1>1 DEF IInv, TypeOK, JobInStep, Exists, DeletePost,
         orphanPostAttachments, SyncFacts, postVars, jobVars
<1>6. OvertakenIsHidden'
  BY <1>1 DEF IInv, TypeOK, OvertakenIsHidden, Exists, IsPendingDelete, DeletePost,
         orphanPostAttachments, SyncFacts, postVars, jobVars
<1>7. ListedIsEmbedded'
  BY AttachmentsAssumption, <1>1 DEF IInv, TypeOK, ListedIsEmbedded, Live, IsOrphaned,
         IsPendingDelete, DeletePost, orphanPostAttachments, SyncFacts, postVars,
         jobVars
<1>8. ShownHasFile'
  BY <1>1 DEF IInv, TypeOK, ShownHasFile, Exists, IsPendingDelete, DeletePost,
         orphanPostAttachments, SyncFacts, postVars, jobVars
<1>9. FilesAccounted'
  BY <1>1 DEF IInv, TypeOK, FilesAccounted, Exists, DeletePost, orphanPostAttachments,
         SyncFacts, postVars, jobVars
<1>10. QED
  BY <1>2, <1>3, <1>4, <1>5, <1>6, <1>7, <1>8, <1>9 DEF IInv

\* The file is there before the row.
LEMMA SaveFileInv ==
    ASSUME IInv, NEW a \in Attachments, SaveFile(a)
    PROVE  IInv'
<1>1. TypeOK'
  BY AttachmentsAssumption DEF IInv, TypeOK, Row, Time, NotSet, Upload, Cleaner, Status,
         SaveFile, postVars, jobVars
<1>2. UploadInStep'
  BY DEF IInv, TypeOK, UploadInStep, Exists, NoRow, SaveFile, Upload, postVars, jobVars
<1>3. NoneBeforePost'
  BY DEF IInv, TypeOK, NoneBeforePost, Live, SaveFile, Upload, postVars, jobVars
<1>4. JobInStep'
  BY AttachmentsAssumption DEF IInv, TypeOK, JobInStep, Exists, SaveFile, UploadInStep,
         NoRow, postVars, jobVars
<1>5. OvertakenIsHidden'
  BY DEF IInv, OvertakenIsHidden, Exists, IsPendingDelete, SaveFile, postVars, jobVars
<1>6. ListedIsEmbedded'
  BY DEF IInv, ListedIsEmbedded, Live, IsOrphaned, IsPendingDelete, SaveFile, postVars,
         jobVars
<1>7. ShownHasFile'
  BY DEF IInv, TypeOK, ShownHasFile, Exists, IsPendingDelete, SaveFile, postVars,
         jobVars
<1>8. FilesAccounted'
  BY DEF IInv, TypeOK, FilesAccounted, Exists, SaveFile, Upload, postVars, jobVars
<1>9. QED
  BY <1>1, <1>2, <1>3, <1>4, <1>5, <1>6, <1>7, <1>8 DEF IInv

\* The row finds the file in its place.
LEMMA CreatePostAttachmentInv ==
    ASSUME IInv, NEW a \in Attachments, CreatePostAttachment(a)
    PROVE  IInv'
<1>1. TypeOK'
  BY AttachmentsAssumption DEF IInv, TypeOK, Row, Time, NotSet, Upload, Cleaner, Status,
         CreatePostAttachment, Goto, postVars, jobVars
<1>2. UploadInStep'
  BY DEF IInv, TypeOK, UploadInStep, Exists, NoRow, CreatePostAttachment, Goto, Row,
         Time, NotSet, Upload, postVars, jobVars
<1>3. NoneBeforePost'
  BY AttachmentsAssumption DEF IInv, TypeOK, NoneBeforePost, Live, CreatePostAttachment,
         Goto, Row, Time, NotSet, Upload, postVars, jobVars
<1>4. JobInStep'
  BY AttachmentsAssumption DEF IInv, TypeOK, JobInStep, Exists, CreatePostAttachment,
         Goto, UploadInStep, NoRow, Row, Time, NotSet, postVars, jobVars
<1>5. OvertakenIsHidden'
  BY DEF IInv, TypeOK, OvertakenIsHidden, Exists, IsPendingDelete, CreatePostAttachment,
         Goto, UploadInStep, Row, Time, NotSet, postVars, jobVars
<1>6. ListedIsEmbedded'
  BY AttachmentsAssumption DEF IInv, TypeOK, ListedIsEmbedded, Live, IsOrphaned,
         IsPendingDelete, CreatePostAttachment, Goto, UploadInStep, Exists,
         OvertakenIsHidden, Row, Time, NotSet, postVars, jobVars
<1>7. ShownHasFile'
  BY DEF IInv, TypeOK, ShownHasFile, Exists, IsPendingDelete, CreatePostAttachment,
         Goto, UploadInStep, Row, Time, NotSet, postVars, jobVars
<1>8. FilesAccounted'
  BY AttachmentsAssumption DEF IInv, TypeOK, FilesAccounted, Exists,
         CreatePostAttachment, Goto, UploadInStep, Row, Time, NotSet, Upload, postVars,
         jobVars
<1>9. QED
  BY <1>1, <1>2, <1>3, <1>4, <1>5, <1>6, <1>7, <1>8 DEF IInv

\* A rejected upload still has its file.
LEMMA CreateRejectedInv ==
    ASSUME IInv, NEW a \in Attachments, CreateRejected(a)
    PROVE  IInv'
<1>1. TypeOK'
  BY AttachmentsAssumption DEF IInv, TypeOK, Row, Time, NotSet, Upload, Cleaner, Status,
         CreateRejected, Goto, Fail, postVars, jobVars
<1>2. UploadInStep'
  BY DEF IInv, TypeOK, UploadInStep, Exists, NoRow, CreateRejected, Goto, Fail, Upload,
         postVars, jobVars
<1>3. NoneBeforePost'
  BY DEF IInv, TypeOK, NoneBeforePost, Live, CreateRejected, Goto, Fail, Upload,
         postVars, jobVars
<1>4. JobInStep'
  BY AttachmentsAssumption DEF IInv, JobInStep, Exists, CreateRejected, postVars,
         jobVars
<1>5. OvertakenIsHidden'
  BY DEF IInv, OvertakenIsHidden, Exists, IsPendingDelete, CreateRejected, postVars,
         jobVars
<1>6. ListedIsEmbedded'
  BY DEF IInv, ListedIsEmbedded, Live, IsOrphaned, IsPendingDelete, CreateRejected,
         postVars, jobVars
<1>7. ShownHasFile'
  BY DEF IInv, ShownHasFile, Exists, IsPendingDelete, CreateRejected, postVars, jobVars
<1>8. FilesAccounted'
  BY DEF IInv, TypeOK, FilesAccounted, Exists, CreateRejected, Goto, Fail, Upload,
         postVars, jobVars
<1>9. QED
  BY <1>1, <1>2, <1>3, <1>4, <1>5, <1>6, <1>7, <1>8 DEF IInv

\* The file of a rejected upload goes.
LEMMA RemoveUploadInv ==
    ASSUME IInv, NEW a \in Attachments, RemoveUpload(a)
    PROVE  IInv'
<1>1. TypeOK'
  BY AttachmentsAssumption DEF IInv, TypeOK, Row, Time, NotSet, Upload, Cleaner, Status,
         RemoveUpload, Goto, postVars, jobVars
<1>2. UploadInStep'
  BY DEF IInv, TypeOK, UploadInStep, Exists, NoRow, RemoveUpload, Goto, Upload,
         postVars, jobVars
<1>3. NoneBeforePost'
  BY DEF IInv, TypeOK, NoneBeforePost, Live, RemoveUpload, Goto, Upload, postVars,
         jobVars
<1>4. JobInStep'
  BY AttachmentsAssumption DEF IInv, TypeOK, JobInStep, Exists, RemoveUpload, Goto,
         postVars, jobVars
<1>5. OvertakenIsHidden'
  BY DEF IInv, OvertakenIsHidden, Exists, IsPendingDelete, RemoveUpload, postVars,
         jobVars
<1>6. ListedIsEmbedded'
  BY DEF IInv, ListedIsEmbedded, Live, IsOrphaned, IsPendingDelete, RemoveUpload,
         postVars, jobVars
<1>7. ShownHasFile'
  BY DEF IInv, TypeOK, ShownHasFile, Exists, IsPendingDelete, RemoveUpload, Goto,
         UploadInStep, NoRow, postVars, jobVars
<1>8. FilesAccounted'
  BY DEF IInv, TypeOK, FilesAccounted, Exists, RemoveUpload, Goto, Upload, postVars,
         jobVars
<1>9. QED
  BY <1>1, <1>2, <1>3, <1>4, <1>5, <1>6, <1>7, <1>8 DEF IInv

\* The file of a rejected upload is lost sight of.
LEMMA RemoveUploadFailsInv ==
    ASSUME IInv, NEW a \in Attachments, RemoveUploadFails(a)
    PROVE  IInv'
<1>1. TypeOK'
  BY AttachmentsAssumption DEF IInv, TypeOK, Row, Time, NotSet, Upload, Cleaner, Status,
         RemoveUploadFails, Goto, Fail, postVars, jobVars
<1>2. UploadInStep'
  BY DEF IInv, TypeOK, UploadInStep, Exists, NoRow, RemoveUploadFails, Goto, Fail,
         Upload, postVars, jobVars
<1>3. NoneBeforePost'
  BY DEF IInv, TypeOK, NoneBeforePost, Live, RemoveUploadFails, Goto, Fail, Upload,
         postVars, jobVars
<1>4. JobInStep'
  BY AttachmentsAssumption DEF IInv, JobInStep, Exists, RemoveUploadFails, postVars,
         jobVars
<1>5. OvertakenIsHidden'
  BY DEF IInv, OvertakenIsHidden, Exists, IsPendingDelete, RemoveUploadFails, postVars,
         jobVars
<1>6. ListedIsEmbedded'
  BY DEF IInv, ListedIsEmbedded, Live, IsOrphaned, IsPendingDelete, RemoveUploadFails,
         postVars, jobVars
<1>7. ShownHasFile'
  BY DEF IInv, ShownHasFile, Exists, IsPendingDelete, RemoveUploadFails, postVars,
         jobVars
<1>8. FilesAccounted'
  BY DEF IInv, TypeOK, FilesAccounted, Exists, RemoveUploadFails, Goto, Fail, Upload,
         postVars, jobVars
<1>9. QED
  BY <1>1, <1>2, <1>3, <1>4, <1>5, <1>6, <1>7, <1>8 DEF IInv

\* Only an attachment the text does not refer to is hidden on request.
LEMMA DeletePostAttachmentInv ==
    ASSUME IInv, NEW a \in Attachments, DeletePostAttachment(a)
    PROVE  IInv'
<1>1. TypeOK'
  BY AttachmentsAssumption DEF IInv, TypeOK, Row, Time, NotSet, Upload, Cleaner, Status,
         DeletePostAttachment, postVars, jobVars
<1>2. UploadInStep'
  BY DEF IInv, TypeOK, UploadInStep, Exists, NoRow, DeletePostAttachment, Row, Time,
         NotSet, postVars, jobVars
<1>3. NoneBeforePost'
  BY DEF IInv, TypeOK, NoneBeforePost, Live, DeletePostAttachment, Row, Time, NotSet,
         postVars, jobVars
<1>4. JobInStep'
  BY AttachmentsAssumption DEF IInv, TypeOK, JobInStep, Exists, DeletePostAttachment,
         IsPendingDelete, Row, Time, NotSet, postVars, jobVars
<1>5. OvertakenIsHidden'
  BY AttachmentsAssumption DEF IInv, TypeOK, OvertakenIsHidden, Exists, IsPendingDelete,
         DeletePostAttachment, Row, Time, NotSet, postVars, jobVars
<1>6. ListedIsEmbedded'
  BY AttachmentsAssumption DEF IInv, TypeOK, ListedIsEmbedded, Live, IsOrphaned,
         IsPendingDelete, DeletePostAttachment, Exists, Row, Time, NotSet, postVars,
         jobVars
<1>7. ShownHasFile'
  BY DEF IInv, TypeOK, ShownHasFile, Exists, IsPendingDelete, DeletePostAttachment, Row,
         Time, NotSet, postVars, jobVars
<1>8. FilesAccounted'
  BY DEF IInv, TypeOK, FilesAccounted, Exists, DeletePostAttachment, Row, Time, NotSet,
         postVars, jobVars
<1>9. QED
  BY <1>1, <1>2, <1>3, <1>4, <1>5, <1>6, <1>7, <1>8 DEF IInv

\* The job takes rows that exist.
LEMMA SelectCleanupCandidatesBeforeInv ==
    ASSUME IInv, NEW batch \in SUBSET Attachments, SelectCleanupCandidatesBefore(batch)
    PROVE  IInv'
<1>1. TypeOK'
  BY AttachmentsAssumption DEF IInv, TypeOK, Row, Time, NotSet, Upload, Cleaner, Status,
         SelectCleanupCandidatesBefore, AtRest, Candidates,
         attachmentEligibleForCleanup, cleanupEligibleAt, postVars, jobVars
<1>2. UploadInStep'
  BY DEF IInv, UploadInStep, Exists, NoRow, SelectCleanupCandidatesBefore, postVars,
         jobVars
<1>3. NoneBeforePost'
  BY DEF IInv, NoneBeforePost, Live, SelectCleanupCandidatesBefore, postVars, jobVars
<1>4. JobInStep'
  BY AttachmentsAssumption DEF IInv, TypeOK, JobInStep, Exists,
         SelectCleanupCandidatesBefore, AtRest, Candidates,
         attachmentEligibleForCleanup, cleanupEligibleAt, IsPendingDelete, NotSet,
         Cleaner, postVars, jobVars
<1>5. OvertakenIsHidden'
  BY DEF IInv, OvertakenIsHidden, Exists, IsPendingDelete,
         SelectCleanupCandidatesBefore, postVars, jobVars
<1>6. ListedIsEmbedded'
  BY DEF IInv, ListedIsEmbedded, Live, IsOrphaned, IsPendingDelete,
         SelectCleanupCandidatesBefore, postVars, jobVars
<1>7. ShownHasFile'
  BY DEF IInv, ShownHasFile, Exists, IsPendingDelete, SelectCleanupCandidatesBefore,
         postVars, jobVars
<1>8. FilesAccounted'
  BY DEF IInv, FilesAccounted, Exists, SelectCleanupCandidatesBefore, postVars, jobVars
<1>9. QED
  BY <1>1, <1>2, <1>3, <1>4, <1>5, <1>6, <1>7, <1>8 DEF IInv

\* A row is hidden before its file goes, whatever it has become.
LEMMA HideNextInv ==
    ASSUME IInv, NEW a \in Attachments, HideNext(a)
    PROVE  IInv'
<1>1. TypeOK'
  <2>1. row' \in [Attachments -> Row]
    BY AttachmentsAssumption DEF IInv, TypeOK, HideNext, Row, Time, NotSet
  <2>2. overtaken' \subseteq Attachments /\ cleaner' \in Cleaner
    BY DEF IInv, TypeOK, HideNext, Cleaner
  <2>3. QED
    BY <2>1, <2>2 DEF IInv, TypeOK, HideNext, postVars
<1>2. UploadInStep'
  BY DEF IInv, TypeOK, UploadInStep, Exists, NoRow, HideNext, Embedded, Row, Time,
         NotSet, postVars, jobVars
<1>3. NoneBeforePost'
  BY DEF IInv, TypeOK, NoneBeforePost, Live, HideNext, Embedded, Row, Time, NotSet,
         postVars, jobVars
<1>4. JobInStep'
  BY AttachmentsAssumption DEF IInv, TypeOK, JobInStep, Exists, HideNext, Embedded, Row,
         Time, NotSet, Cleaner, postVars, jobVars
<1>5. OvertakenIsHidden'
  BY AttachmentsAssumption DEF IInv, TypeOK, OvertakenIsHidden, Exists, IsPendingDelete,
         HideNext, Embedded, JobInStep, Row, Time, NotSet, postVars, jobVars
<1>6. ListedIsEmbedded'
  BY AttachmentsAssumption DEF IInv, TypeOK, ListedIsEmbedded, Live, IsOrphaned,
         IsPendingDelete, HideNext, Embedded, JobInStep, Exists, Row, Time, NotSet,
         postVars, jobVars
<1>7. ShownHasFile'
  BY AttachmentsAssumption DEF IInv, TypeOK, ShownHasFile, Exists, IsPendingDelete,
         HideNext, Embedded, JobInStep, Row, Time, NotSet, postVars, jobVars
<1>8. FilesAccounted'
  BY DEF IInv, TypeOK, FilesAccounted, Exists, HideNext, Embedded, Row, Time, NotSet,
         postVars, jobVars
<1>9. QED
  BY <1>1, <1>2, <1>3, <1>4, <1>5, <1>6, <1>7, <1>8 DEF IInv

\* Only the file of a hidden row goes.
LEMMA DeleteFileInv ==
    ASSUME IInv, DeleteFile
    PROVE  IInv'
<1>1. TypeOK'
  BY AttachmentsAssumption DEF IInv, TypeOK, Row, Time, NotSet, Upload, Cleaner, Status,
         DeleteFile, postVars, jobVars
<1>2. UploadInStep'
  BY DEF IInv, TypeOK, UploadInStep, Exists, NoRow, DeleteFile, JobInStep, postVars,
         jobVars
<1>3. NoneBeforePost'
  BY DEF IInv, NoneBeforePost, Live, DeleteFile, postVars, jobVars
<1>4. JobInStep'
  BY AttachmentsAssumption DEF IInv, TypeOK, JobInStep, Exists, DeleteFile, Cleaner,
         postVars, jobVars
<1>5. OvertakenIsHidden'
  BY DEF IInv, OvertakenIsHidden, Exists, IsPendingDelete, DeleteFile, postVars, jobVars
<1>6. ListedIsEmbedded'
  BY DEF IInv, ListedIsEmbedded, Live, IsOrphaned, IsPendingDelete, DeleteFile,
         postVars, jobVars
<1>7. ShownHasFile'
  BY AttachmentsAssumption DEF IInv, TypeOK, ShownHasFile, Exists, IsPendingDelete,
         DeleteFile, JobInStep, NotSet, postVars, jobVars
<1>8. FilesAccounted'
  BY DEF IInv, TypeOK, FilesAccounted, Exists, DeleteFile, JobInStep, postVars, jobVars
<1>9. QED
  BY <1>1, <1>2, <1>3, <1>4, <1>5, <1>6, <1>7, <1>8 DEF IInv

\* Only a row without a file goes.
LEMMA DeleteRowInv ==
    ASSUME IInv, DeleteRow
    PROVE  IInv'
<1>1. TypeOK'
  BY AttachmentsAssumption DEF IInv, TypeOK, Row, Time, NotSet, Upload, Cleaner, Status,
         DeleteRow, EndOfRun, AtRest, NoRow, JobInStep, Exists, postVars, jobVars
<1>2. UploadInStep'
  BY AttachmentsAssumption DEF IInv, TypeOK, UploadInStep, Exists, NoRow, DeleteRow,
         EndOfRun, AtRest, JobInStep, Row, Time, NotSet, postVars, jobVars
<1>3. NoneBeforePost'
  BY AttachmentsAssumption DEF IInv, TypeOK, NoneBeforePost, Live, DeleteRow, EndOfRun,
         AtRest, NoRow, JobInStep, Exists, Row, Time, NotSet, postVars, jobVars
<1>4. JobInStep'
  BY AttachmentsAssumption DEF IInv, TypeOK, JobInStep, Exists, DeleteRow, EndOfRun,
         AtRest, NoRow, Row, Time, NotSet, Cleaner, postVars, jobVars
<1>5. OvertakenIsHidden'
  BY AttachmentsAssumption DEF IInv, TypeOK, OvertakenIsHidden, Exists, IsPendingDelete,
         DeleteRow, EndOfRun, AtRest, NoRow, JobInStep, Row, Time, NotSet, postVars,
         jobVars
<1>6. ListedIsEmbedded'
  BY AttachmentsAssumption DEF IInv, TypeOK, ListedIsEmbedded, Live, IsOrphaned,
         IsPendingDelete, DeleteRow, EndOfRun, AtRest, NoRow, JobInStep, Exists,
         OvertakenIsHidden, Row, Time, NotSet, postVars, jobVars
<1>7. ShownHasFile'
  BY AttachmentsAssumption DEF IInv, TypeOK, ShownHasFile, Exists, IsPendingDelete,
         DeleteRow, EndOfRun, AtRest, NoRow, JobInStep, Row, Time, NotSet, postVars,
         jobVars
<1>8. FilesAccounted'
  BY AttachmentsAssumption DEF IInv, TypeOK, FilesAccounted, Exists, DeleteRow,
         EndOfRun, AtRest, NoRow, JobInStep, Row, Time, NotSet, postVars, jobVars
<1>9. QED
  BY <1>1, <1>2, <1>3, <1>4, <1>5, <1>6, <1>7, <1>8 DEF IInv

\* What a run leaves undone stays hidden.
LEMMA CleanupFailsInv ==
    ASSUME IInv, CleanupFails
    PROVE  IInv'
<1>1. TypeOK'
  BY AttachmentsAssumption DEF IInv, TypeOK, Row, Time, NotSet, Upload, Cleaner, Status,
         CleanupFails, EndOfRun, AtRest, Fail, postVars, jobVars
<1>2. UploadInStep'
  BY DEF IInv, UploadInStep, Exists, NoRow, CleanupFails, EndOfRun, postVars, jobVars
<1>3. NoneBeforePost'
  BY DEF IInv, NoneBeforePost, Live, CleanupFails, EndOfRun, postVars, jobVars
<1>4. JobInStep'
  BY AttachmentsAssumption DEF IInv, TypeOK, JobInStep, Exists, CleanupFails, EndOfRun,
         AtRest, Fail, Cleaner, postVars, jobVars
<1>5. OvertakenIsHidden'
  BY DEF IInv, OvertakenIsHidden, Exists, IsPendingDelete, CleanupFails, EndOfRun,
         postVars, jobVars
<1>6. ListedIsEmbedded'
  BY DEF IInv, ListedIsEmbedded, Live, IsOrphaned, IsPendingDelete, CleanupFails,
         EndOfRun, postVars, jobVars
<1>7. ShownHasFile'
  BY DEF IInv, ShownHasFile, Exists, IsPendingDelete, CleanupFails, EndOfRun, postVars,
         jobVars
<1>8. FilesAccounted'
  BY DEF IInv, FilesAccounted, Exists, CleanupFails, EndOfRun, postVars, jobVars
<1>9. QED
  BY <1>1, <1>2, <1>3, <1>4, <1>5, <1>6, <1>7, <1>8 DEF IInv

\* Time changes neither whose a row is nor whether it is hidden.
LEMMA TickInv ==
    ASSUME IInv, Tick
    PROVE  IInv'
<1>1. TickFacts
  BY TickRows DEF IInv, TypeOK, Tick
<1>2. UNCHANGED <<status, embeds, files, upload, todo, hidden, cleaner, faults,
                  overtaken, leaked>>
  BY DEF Tick, postVars, jobVars
<1>3. TypeOK'
  BY AttachmentsAssumption, <1>1, <1>2 DEF IInv, TypeOK, Row, Time, NotSet, Upload,
         Cleaner, Status, TickFacts
<1>4. UploadInStep'
  BY AttachmentsAssumption, <1>1, <1>2 DEF IInv, TypeOK, UploadInStep, Exists, NoRow,
         Row, TickFacts
<1>5. NoneBeforePost'
  BY <1>1, <1>2 DEF IInv, TypeOK, NoneBeforePost, Live, TickFacts
<1>6. JobInStep'
  BY AttachmentsAssumption, <1>1, <1>2 DEF IInv, TypeOK, JobInStep, Exists, TickFacts
<1>7. OvertakenIsHidden'
  BY <1>1, <1>2 DEF IInv, TypeOK, OvertakenIsHidden, Exists, IsPendingDelete, TickFacts
<1>8. ListedIsEmbedded'
  BY <1>1, <1>2 DEF IInv, TypeOK, ListedIsEmbedded, Live, IsOrphaned, IsPendingDelete,
         TickFacts
<1>9. ShownHasFile'
  BY <1>1, <1>2 DEF IInv, TypeOK, ShownHasFile, Exists, IsPendingDelete, TickFacts
<1>10. FilesAccounted'
  BY <1>1, <1>2 DEF IInv, TypeOK, FilesAccounted, Exists, TickFacts
<1>11. QED
  BY <1>3, <1>4, <1>5, <1>6, <1>7, <1>8, <1>9, <1>10 DEF IInv

\* A crash ends uploads and the run of the job.
LEMMA CrashInv ==
    ASSUME IInv, Crash
    PROVE  IInv'
<1>1. TypeOK'
  BY AttachmentsAssumption DEF IInv, TypeOK, Row, Time, NotSet, Upload, Cleaner, Status,
         Crash, EndOfRun, AtRest, Fail, postVars, jobVars
<1>2. UploadInStep'
  BY DEF IInv, TypeOK, UploadInStep, Exists, NoRow, Crash, EndOfRun, AtRest, Fail,
         Upload, postVars, jobVars
<1>3. NoneBeforePost'
  BY DEF IInv, TypeOK, NoneBeforePost, Live, Crash, EndOfRun, AtRest, Fail, Upload,
         postVars, jobVars
<1>4. JobInStep'
  BY AttachmentsAssumption DEF IInv, TypeOK, JobInStep, Exists, Crash, EndOfRun, AtRest,
         Fail, Cleaner, postVars, jobVars
<1>5. OvertakenIsHidden'
  BY DEF IInv, OvertakenIsHidden, Exists, IsPendingDelete, Crash, EndOfRun, postVars,
         jobVars
<1>6. ListedIsEmbedded'
  BY DEF IInv, ListedIsEmbedded, Live, IsOrphaned, IsPendingDelete, Crash, EndOfRun,
         postVars, jobVars
<1>7. ShownHasFile'
  BY DEF IInv, ShownHasFile, Exists, IsPendingDelete, Crash, EndOfRun, postVars, jobVars
<1>8. FilesAccounted'
  BY DEF IInv, TypeOK, FilesAccounted, Exists, Crash, EndOfRun, AtRest, Fail, Upload,
         postVars, jobVars
<1>9. QED
  BY <1>1, <1>2, <1>3, <1>4, <1>5, <1>6, <1>7, <1>8 DEF IInv

\* Nothing is there yet.
LEMMA InitInv == Init => IInv
  BY AttachmentsAssumption
  DEF Init, IInv, TypeOK, UploadInStep, NoneBeforePost, JobInStep, OvertakenIsHidden,
      ListedIsEmbedded, ShownHasFile, FilesAccounted, Exists, IsPendingDelete, IsOrphaned,
      Live, Status, Row, NoRow, Time, NotSet, Upload, Cleaner, AtRest

\* Every step, and every stutter, keeps the invariant.
LEMMA NextInv == IInv /\ [Next]_vars => IInv'
<1> SUFFICES ASSUME IInv, [Next]_vars PROVE IInv'
  OBVIOUS
<1>1. ASSUME NEW p \in Posts, CreatePost(p) \/ UpdatePost(p) \/ PublishPost(p) \/ DeletePost(p)
      PROVE  IInv'
  BY <1>1, CreatePostInv, UpdatePostInv, PublishPostInv, DeletePostInv
<1>2. ASSUME NEW a \in Attachments, UploadPostAttachment(a) PROVE IInv'
  BY <1>2, SaveFileInv, CreatePostAttachmentInv, CreateRejectedInv, RemoveUploadInv,
     RemoveUploadFailsInv DEF UploadPostAttachment
<1>3. ASSUME NEW a \in Attachments, DeletePostAttachment(a) PROVE IInv'
  BY <1>3, DeletePostAttachmentInv
<1>4. CASE CleanupAttachments
  BY <1>4, SelectCleanupCandidatesBeforeInv, HideNextInv, DeleteFileInv, DeleteRowInv,
     CleanupFailsInv DEF CleanupAttachments
<1>5. CASE Tick
  BY <1>5, TickInv
<1>6. CASE Crash
  BY <1>6, CrashInv
<1>7. CASE UNCHANGED vars
  BY <1>7 DEF vars, IInv, TypeOK, UploadInStep, NoneBeforePost, JobInStep,
     OvertakenIsHidden, ListedIsEmbedded, ShownHasFile, FilesAccounted, Exists, IsPendingDelete,
     IsOrphaned, Live
<1>8. QED
  BY <1>1, <1>2, <1>3, <1>4, <1>5, <1>6, <1>7 DEF Next

-----------------------------------------------------------------------------
(* What no step does. *)

\* A step that leaves the rows and the texts alone neither removes nor reveals anything.
LEMMA NothingMoved ==
    ASSUME IInv, UNCHANGED <<row, embeds>>
    PROVE  RemovedInOrder /\ StaysHidden
  BY DEF IInv, TypeOK, RemovedInOrder, StaysHidden, IsPendingDelete, Exists, NoRow

\* The steps that write rows and texts: only DeleteRow removes one.
LEMMA StepsInOrder ==
    ASSUME IInv, [Next]_vars
    PROVE  RemovedInOrder /\ StaysHidden
<1>1. ASSUME NEW p \in Posts, CreatePost(p) \/ UpdatePost(p) \/ PublishPost(p) \/ DeletePost(p)
      PROVE  RemovedInOrder /\ StaysHidden
  <2>1. CASE CreatePost(p)
    BY <2>1, NothingMoved DEF CreatePost
  <2>2. CASE UpdatePost(p)
    <3>1. PICK refs \in SUBSET Attachments :
            /\ validateAttachmentRefs(p, refs)
            /\ syncPostAttachmentOrphans(p, refs)
            /\ embeds' = [embeds EXCEPT ![p] = refs]
      BY <2>2 DEF UpdatePost
    <3>2. SyncFacts(p, refs)
      BY <3>1, SyncRows DEF IInv, TypeOK
    <3>3. QED
      BY <3>1, <3>2
      DEF IInv, TypeOK, SyncFacts, validateAttachmentRefs, RemovedInOrder, StaysHidden,
          IsPendingDelete, Exists, NoRow
  <2>3. ASSUME NEW refs, SyncFacts(p, refs), UNCHANGED embeds
        PROVE  RemovedInOrder /\ StaysHidden
    BY <2>3 DEF SyncFacts, RemovedInOrder, StaysHidden, IsPendingDelete, Exists, NoRow
  <2>4. CASE PublishPost(p)
    BY <2>3, <2>4, SyncRows DEF PublishPost, IInv, TypeOK
  <2>5. CASE DeletePost(p)
    BY <2>3, <2>5, SyncRows DEF DeletePost, orphanPostAttachments, IInv, TypeOK, postVars
  <2>6. QED
    BY <1>1, <2>1, <2>2, <2>4, <2>5
<1>2. ASSUME NEW a \in Attachments, UploadPostAttachment(a)
      PROVE  RemovedInOrder /\ StaysHidden
  <2>1. CASE CreatePostAttachment(a)
    <3>1. /\ ~Exists(a) /\ upload[a].post \in Posts
          /\ \A b \in Attachments \ {a} : row'[b] = row[b]
          /\ row'[a].post = upload[a].post
          /\ UNCHANGED embeds
      BY <2>1 DEF CreatePostAttachment, IInv, TypeOK, UploadInStep, Exists, NoRow, postVars
    <3>2. \A p \in Posts : a \notin embeds[p]
      BY <2>1 DEF CreatePostAttachment, IInv, UploadInStep
    <3>3. ~IsPendingDelete(a)
      BY <2>1 DEF CreatePostAttachment, IInv, UploadInStep, IsPendingDelete, NoRow
    <3>4. QED
      BY <3>1, <3>2, <3>3, AttachmentsAssumption
      DEF RemovedInOrder, StaysHidden, IsPendingDelete, Exists, NoRow
  <2>2. CASE ~CreatePostAttachment(a)
    BY <1>2, <2>2, NothingMoved
    DEF UploadPostAttachment, SaveFile, CreateRejected, RemoveUpload, RemoveUploadFails, postVars
  <2>3. QED
    BY <2>1, <2>2
<1>3. ASSUME NEW a \in Attachments, DeletePostAttachment(a)
      PROVE  RemovedInOrder /\ StaysHidden
  BY <1>3, AttachmentsAssumption
  DEF DeletePostAttachment, IInv, TypeOK, RemovedInOrder, StaysHidden, IsPendingDelete, Exists,
      NoRow, NotSet, Row, Time, postVars
<1>4. CASE CleanupAttachments
  <2>1. ASSUME NEW a \in Attachments, HideNext(a)
        PROVE  RemovedInOrder /\ StaysHidden
    <3>1. /\ Exists(a)
          /\ \A b \in Attachments \ {a} : row'[b] = row[b]
          /\ row'[a].post = row[a].post
          /\ row'[a] = row[a] \/ row'[a].pending = Grace
          /\ UNCHANGED embeds
      BY <2>1 DEF HideNext, IInv, TypeOK, JobInStep, Row, postVars
    <3>2. QED
      BY <3>1, AttachmentsAssumption
      DEF RemovedInOrder, StaysHidden, IsPendingDelete, Exists, NoRow, NotSet
  <2>2. CASE DeleteRow
    BY <2>2, AttachmentsAssumption
    DEF DeleteRow, IInv, TypeOK, JobInStep, RemovedInOrder, StaysHidden, IsPendingDelete, Exists,
        NoRow, NotSet, Row, Time, postVars
  <2>3. CASE \/ \E batch \in SUBSET Attachments : SelectCleanupCandidatesBefore(batch)
             \/ DeleteFile
             \/ CleanupFails
    BY <2>3, NothingMoved DEF SelectCleanupCandidatesBefore, DeleteFile, CleanupFails, postVars
  <2>4. QED
    BY <1>4, <2>1, <2>2, <2>3 DEF CleanupAttachments
<1>5. CASE Tick
  <2>1. TickFacts /\ UNCHANGED embeds
    BY <1>5, TickRows DEF IInv, TypeOK, Tick, postVars
  <2>2. QED
    BY <2>1, AttachmentsAssumption
    DEF TickFacts, RemovedInOrder, StaysHidden, IsPendingDelete, Exists, NoRow
<1>6. CASE Crash \/ UNCHANGED vars
  BY <1>6, NothingMoved DEF Crash, vars, postVars
<1>7. QED
  BY <1>1, <1>2, <1>3, <1>4, <1>5, <1>6 DEF Next

-----------------------------------------------------------------------------
\* Texts, rows, files, uploads and the job stay in step in every reachable state.
THEOREM Invariance == Spec => []IInv
  BY InitInv, NextInv, PTL DEF Spec

\* Rows, uploads and the job's item stay within their types.
THEOREM TypeCorrect == Spec => []TypeOK
<1>1. IInv => TypeOK
  BY DEF IInv
<1>2. QED
  BY <1>1, Invariance, PTL

\* What GetPostAttachments lists for a live post is what its text embeds, but for what the
\* job took from under it.
THEOREM ListedAreEmbedded == Spec => []ListedIsEmbedded
<1>1. IInv => ListedIsEmbedded
  BY DEF IInv
<1>2. QED
  BY <1>1, Invariance, PTL

\* An attachment that is shown has a file, whatever the job and the uploads do meanwhile and
\* wherever they are cut off.
THEOREM ShownHaveFiles == Spec => []ShownHasFile
<1>1. IInv => ShownHasFile
  BY DEF IInv
<1>2. QED
  BY <1>1, Invariance, PTL

\* No file is without a row but those of unfinished uploads and of uploads that were cut off.
THEOREM FilesHaveRows == Spec => []FilesAccounted
<1>1. IInv => FilesAccounted
  BY DEF IInv
<1>2. QED
  BY <1>1, Invariance, PTL

\* The job removes no row before its file, and none before its grace is over.
THEOREM RemovedInTheEnd == Spec => RemovedAtLast
<1>1. IInv /\ [Next]_vars => [RemovedInOrder]_vars
  BY StepsInOrder
<1>2. QED
  BY <1>1, Invariance, PTL DEF Spec, RemovedAtLast

\* What is hidden is never shown again and never referred to anew, by any interleaving of
\* requests with a job that writes rows back from copies.
THEOREM HiddenForGood == Spec => HiddenIsFinal
<1>1. IInv /\ [Next]_vars => [StaysHidden]_vars
  BY StepsInOrder
<1>2. QED
  BY <1>1, Invariance, PTL DEF Spec, HiddenIsFinal
=============================================================================
