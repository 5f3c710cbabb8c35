---------------------------- MODULE Attachments ----------------------------
(***************************************************************************)
(* Files attached to posts: uploaded to the file storage and recorded in   *)
(* a row, embedded by the post's text, orphaned when the text no longer    *)
(* embeds them, hidden on request, and collected by a job: the file first, *)
(* the row after it.                                                       *)
(*                                                                         *)
(* A post, the rows of its attachments and the checks between them change  *)
(* in one transaction; the file storage is outside it, and the job reads   *)
(* its candidates, and writes them back, outside any transaction.          *)
(*                                                                         *)
(* Of a post's text the model keeps the attachments it embeds.  Of the     *)
(* times in a row the code asks only how long ago they were: each is an    *)
(* age in ticks, up to the grace, or NotSet.                               *)
(***************************************************************************)
EXTENDS Integers, FiniteSets

CONSTANTS
    Posts,
    Attachments,    \* uploads, each with a UUID and a storage key of its own
    NoPost,
    NoAttachment,
    Grace,          \* gracePeriodSeconds of the cleanup job
    BatchSize,      \* batchSize
    MaxFaults       \* bound: failed calls and crashes

ASSUME AttachmentsAssumption ==
    /\ Grace \in Nat \ {0}
    /\ BatchSize \in Nat \ {0}
    /\ MaxFaults \in Nat
    /\ NoPost \notin Posts
    /\ NoAttachment \notin Attachments

VARIABLES
    status,     \* status[p] of post p
    embeds,     \* embeds[p]: the attachments the text of p refers to
    row,        \* row[a]: the row of attachment a, if its post is not NoPost
    files,      \* the attachments with a file in the storage
    upload,     \* upload[a]: where the request that uploads a stands, and for which post
    todo,       \* the rows the cleanup job has selected and not yet looked at
    hidden,     \* those of them that were to be deleted when it read them
    cleaner,    \* the step the job takes next, and the row it is at
    faults,     \* faults still allowed
    overtaken,  \* history: attachments the job took though a post embedded them by then
    leaked      \* history: attachments whose upload ended without removing their file

vars == <<status, embeds, row, files, upload, todo, hidden, cleaner, faults, overtaken, leaked>>
postVars  == <<status, embeds>>
jobVars   == <<todo, hidden, cleaner>>

NotSet  == -1
Time    == NotSet..Grace
Status  == {"none", "draft", "published", "deleted"}
Row     == [post : Posts \cup {NoPost}, orphaned : Time, pending : Time]
NoRow   == [post |-> NoPost, orphaned |-> NotSet, pending |-> NotSet]
Upload  == [pc : {"idle", "stored", "rollback", "done"}, post : Posts \cup {NoPost}]
Cleaner == [pc : {"idle", "next", "file", "row"}, item : Attachments \cup {NoAttachment}]
AtRest  == [pc |-> "idle", item |-> NoAttachment]

TypeOK ==
    /\ status \in [Posts -> Status]
    /\ embeds \in [Posts -> SUBSET Attachments]
    /\ row \in [Attachments -> Row]
    /\ files \subseteq Attachments
    /\ upload \in [Attachments -> Upload]
    /\ todo \subseteq Attachments
    /\ hidden \subseteq Attachments
    /\ cleaner \in Cleaner
    /\ faults \in 0..MaxFaults
    /\ overtaken \subseteq Attachments
    /\ leaked \subseteq Attachments

Init ==
    /\ status = [p \in Posts |-> "none"]
    /\ embeds = [p \in Posts |-> {}]
    /\ row = [a \in Attachments |-> NoRow]
    /\ files = {}
    /\ upload = [a \in Attachments |-> [pc |-> "idle", post |-> NoPost]]
    /\ todo = {}
    /\ hidden = {}
    /\ cleaner = AtRest
    /\ faults = MaxFaults
    /\ overtaken = {}
    /\ leaked = {}

Exists(a) == row[a].post # NoPost
IsOrphaned(a) == row[a].orphaned # NotSet
IsPendingDelete(a) == row[a].pending # NotSet
Live(p) == status[p] \in {"draft", "published"}
Embedded(a) == \E p \in Posts : Live(p) /\ a \in embeds[p]

Fail == faults > 0 /\ faults' = faults - 1

-----------------------------------------------------------------------------
(* Posts.  Who may write a post is left out. *)

\* A new text cannot refer to an attachment: none can belong to the post yet.
CreatePost(p) ==
    /\ status[p] = "none"
    /\ \E s \in {"draft", "published"} : status' = [status EXCEPT ![p] = s]
    /\ UNCHANGED <<embeds, row, files, upload, jobVars, faults, overtaken, leaked>>

\* Fault: what is to be deleted may be embedded.
validateOwnership(p, refs) == \A a \in refs : row[a].post = p

validateAttachmentRefs(p, refs) ==
    \A a \in refs : row[a].post = p /\ ~IsPendingDelete(a)

MarkOrphaned(r) == IF r.orphaned = NotSet THEN [r EXCEPT !.orphaned = 0] ELSE r
MarkReferenced(r) == [r EXCEPT !.orphaned = NotSet]

syncPostAttachmentOrphans(p, refs) ==
    row' = [a \in Attachments |->
              IF row[a].post # p THEN row[a]
              ELSE IF a \in refs THEN MarkReferenced(row[a])
              ELSE MarkOrphaned(row[a])]

UpdatePost(p) ==
    /\ Live(p)
    /\ \E refs \in SUBSET Attachments :
         /\ validateAttachmentRefs(p, refs)
         /\ syncPostAttachmentOrphans(p, refs)
         /\ embeds' = [embeds EXCEPT ![p] = refs]
    /\ UNCHANGED <<status, files, upload, jobVars, faults, overtaken, leaked>>

\* A published post may be published again.
PublishPost(p) ==
    /\ Live(p)
    /\ validateAttachmentRefs(p, embeds[p])
    /\ syncPostAttachmentOrphans(p, embeds[p])
    /\ status' = [status EXCEPT ![p] = "published"]
    /\ UNCHANGED <<embeds, files, upload, jobVars, faults, overtaken, leaked>>

\* Fault: the attachments of a deleted post are no orphans.
orphanNothing(p) == syncPostAttachmentOrphans(p, embeds[p])

orphanPostAttachments(p) == syncPostAttachmentOrphans(p, {})

DeletePost(p) ==
    /\ Live(p)
    /\ orphanPostAttachments(p)
    /\ status' = [status EXCEPT ![p] = "deleted"]
    /\ UNCHANGED <<embeds, files, upload, jobVars, faults, overtaken, leaked>>

-----------------------------------------------------------------------------
(* Uploads *)

Goto(a, pc) == upload' = [upload EXCEPT ![a].pc = pc]

\* The checks, and the file: renamed into place when it is complete.
SaveFile(a) ==
    /\ upload[a].pc = "idle"
    /\ \E p \in Posts :
         /\ Live(p)
         /\ upload' = [upload EXCEPT ![a] = [pc |-> "stored", post |-> p]]
    /\ files' = files \cup {a}
    /\ UNCHANGED <<postVars, row, jobVars, faults, overtaken, leaked>>

\* The row is born an orphan: no text can refer to it before it exists.
CreatePostAttachment(a) ==
    /\ upload[a].pc = "stored"
    /\ Live(upload[a].post)
    /\ row' = [row EXCEPT ![a] = [post |-> upload[a].post, orphaned |-> 0, pending |-> NotSet]]
    /\ Goto(a, "done")
    /\ UNCHANGED <<postVars, files, jobVars, faults, overtaken, leaked>>

\* Fault: the file of a rejected upload stays.
RejectedForGood(a) ==
    /\ upload[a].pc = "stored"
    /\ \/ ~Live(upload[a].post) /\ UNCHANGED faults
       \/ Fail
    /\ Goto(a, "done")
    /\ UNCHANGED <<postVars, row, files, jobVars, overtaken, leaked>>

\* The post is gone by now, or the transaction fails.
CreateRejected(a) ==
    /\ upload[a].pc = "stored"
    /\ \/ ~Live(upload[a].post) /\ UNCHANGED faults
       \/ Fail
    /\ Goto(a, "rollback")
    /\ UNCHANGED <<postVars, row, files, jobVars, overtaken, leaked>>

RemoveUpload(a) ==
    /\ upload[a].pc = "rollback"
    /\ files' = files \ {a}
    /\ Goto(a, "done")
    /\ UNCHANGED <<postVars, row, jobVars, faults, overtaken, leaked>>

\* For instance because the request, and its context with it, was cancelled.
RemoveUploadFails(a) ==
    /\ upload[a].pc = "rollback"
    /\ Fail
    /\ Goto(a, "done")
    /\ leaked' = leaked \cup {a}
    /\ UNCHANGED <<postVars, row, files, jobVars, overtaken>>

UploadPostAttachment(a) ==
    \/ SaveFile(a)
    \/ CreatePostAttachment(a)
    \/ CreateRejected(a)
    \/ RemoveUpload(a)
    \/ RemoveUploadFails(a)

\* Fault: the text is not looked at.
DeleteEmbedded(a) ==
    /\ Exists(a)
    /\ Live(row[a].post)
    /\ ~IsPendingDelete(a)
    /\ row' = [row EXCEPT ![a].pending = 0]
    /\ UNCHANGED <<postVars, files, upload, jobVars, faults, overtaken, leaked>>

DeletePostAttachment(a) ==
    /\ Exists(a)
    /\ Live(row[a].post)
    /\ a \notin embeds[row[a].post]
    /\ ~IsPendingDelete(a)
    /\ row' = [row EXCEPT ![a].pending = 0]
    /\ UNCHANGED <<postVars, files, upload, jobVars, faults, overtaken, leaked>>

-----------------------------------------------------------------------------
(* The cleanup job.  A run never overlaps another: the runner waits for it. *)

\* Fault: the older of the two times counts.
orphanedFirst(r) == IF r.orphaned # NotSet THEN r.orphaned ELSE r.pending

cleanupEligibleAt(r) == IF r.pending # NotSet THEN r.pending ELSE r.orphaned
attachmentEligibleForCleanup(a) == Exists(a) /\ cleanupEligibleAt(row[a]) = Grace
Candidates == {a \in Attachments : attachmentEligibleForCleanup(a)}

\* The oldest candidates: past the grace their ages are the same, so a run may
\* take any of them, and FairSpec says that none is passed over for ever.
SelectCleanupCandidatesBefore(batch) ==
    /\ cleaner = AtRest
    /\ batch # {}
    /\ batch \subseteq Candidates
    /\ \/ Cardinality(batch) = BatchSize
       \/ Cardinality(batch) < BatchSize /\ batch = Candidates
    /\ todo' = batch
    /\ hidden' = {a \in batch : IsPendingDelete(a)}
    /\ cleaner' = [AtRest EXCEPT !.pc = "next"]
    /\ UNCHANGED <<postVars, row, files, upload, faults, overtaken, leaked>>

\* Faults: the row is not hidden before its file goes; it is hidden with the grace
\* added to the time instead of taken from it.
HideNothing(a) ==
    /\ cleaner.pc = "next"
    /\ a \in todo
    /\ todo' = todo \ {a}
    /\ cleaner' = [pc |-> "file", item |-> a]
    /\ UNCHANGED <<postVars, row, files, upload, hidden, faults, overtaken, leaked>>

HideInFuture(a) ==
    /\ cleaner.pc = "next"
    /\ a \in todo
    /\ todo' = todo \ {a}
    /\ row' = IF a \in hidden THEN row ELSE [row EXCEPT ![a].pending = -Grace]
    /\ cleaner' = [pc |-> "file", item |-> a]
    /\ UNCHANGED <<postVars, files, upload, hidden, faults, overtaken, leaked>>

\* A row that was not hidden yet when it was selected is hidden now, every
\* column written as it was read: orphaned, and with a time of hiding that
\* makes it a candidate again should the run break off.
HideNext(a) ==
    /\ cleaner.pc = "next"
    /\ a \in todo
    /\ todo' = todo \ {a}
    /\ IF a \in hidden
       THEN UNCHANGED <<row, overtaken>>
       ELSE /\ row' = [row EXCEPT ![a].orphaned = Grace, ![a].pending = Grace]
            /\ overtaken' = IF Embedded(a) THEN overtaken \cup {a} ELSE overtaken
    /\ cleaner' = [pc |-> "file", item |-> a]
    /\ UNCHANGED <<postVars, files, upload, hidden, faults, leaked>>

\* A file that is not there is as good as deleted.
DeleteFile ==
    /\ cleaner.pc = "file"
    /\ files' = files \ {cleaner.item}
    /\ cleaner' = [cleaner EXCEPT !.pc = "row"]
    /\ UNCHANGED <<postVars, row, upload, todo, hidden, faults, overtaken, leaked>>

EndOfRun == todo' = {} /\ hidden' = {} /\ cleaner' = AtRest

DeleteRow ==
    /\ cleaner.pc = "row"
    /\ row' = [row EXCEPT ![cleaner.item] = NoRow]
    /\ IF todo = {}
       THEN EndOfRun
       ELSE cleaner' = [AtRest EXCEPT !.pc = "next"] /\ UNCHANGED <<todo, hidden>>
    /\ UNCHANGED <<postVars, files, upload, faults, overtaken, leaked>>

\* Any call that fails ends the run.
CleanupFails ==
    /\ cleaner # AtRest
    /\ Fail
    /\ EndOfRun
    /\ UNCHANGED <<postVars, row, files, upload, overtaken, leaked>>

CleanupAttachments ==
    \/ \E batch \in SUBSET Attachments : SelectCleanupCandidatesBefore(batch)
    \/ \E a \in Attachments : HideNext(a)
    \/ DeleteFile
    \/ DeleteRow
    \/ CleanupFails

-----------------------------------------------------------------------------
Older(t) == IF t = NotSet \/ t = Grace THEN t ELSE t + 1

Tick ==
    /\ row' = [a \in Attachments |->
                 [row[a] EXCEPT !.orphaned = Older(@), !.pending = Older(@)]]
    /\ row' # row
    /\ UNCHANGED <<postVars, files, upload, jobVars, faults, overtaken, leaked>>

\* The process is killed: its uploads and the run of the job are gone.
Crash ==
    /\ Fail
    /\ LET cut == {a \in Attachments : upload[a].pc \in {"stored", "rollback"}} IN
         /\ upload' = [a \in Attachments |->
                         IF a \in cut THEN [upload[a] EXCEPT !.pc = "done"] ELSE upload[a]]
         /\ leaked' = leaked \cup cut
    /\ EndOfRun
    /\ UNCHANGED <<postVars, row, files, overtaken>>

Next ==
    \/ \E p \in Posts : CreatePost(p) \/ UpdatePost(p) \/ PublishPost(p) \/ DeletePost(p)
    \/ \E a \in Attachments : UploadPostAttachment(a) \/ DeletePostAttachment(a)
    \/ CleanupAttachments
    \/ Tick
    \/ Crash

Spec == Init /\ [][Next]_vars

\* Time passes, a run of the job that began goes on, and as it takes the
\* oldest candidates first, no candidate is passed over in infinitely many.
Selects(a) == \E batch \in SUBSET Attachments : a \in batch /\ SelectCleanupCandidatesBefore(batch)

FairSpec ==
    /\ Spec
    /\ WF_vars(Tick)
    /\ \A a \in Attachments : SF_vars(Selects(a))
    /\ \A a \in Attachments : WF_vars(HideNext(a))
    /\ WF_vars(DeleteFile)
    /\ WF_vars(DeleteRow)

-----------------------------------------------------------------------------
(* Properties *)

\* What GetPostAttachments lists for a live post is what its text embeds, no
\* more and no less, except for what the job took after it was embedded.
ListedIsEmbedded ==
    \A p \in Posts : Live(p) =>
        {a \in Attachments : row[a].post = p /\ ~IsOrphaned(a) /\ ~IsPendingDelete(a)}
            = embeds[p] \ overtaken

\* GetPostAttachmentFile and GetPostAttachmentPreviewFile never answer for a
\* row whose file is missing: the file is there before the row, and the row
\* hidden before the file goes.
ShownHasFile ==
    \A a \in Attachments : Exists(a) /\ ~IsPendingDelete(a) => a \in files

\* Every file in the storage has a row, which the job will find, or an upload
\* that has not ended, unless the upload crashed or failed to undo itself.
FilesAccounted ==
    \A a \in files : Exists(a) \/ upload[a].pc \in {"stored", "rollback"} \/ a \in leaked

\* The job removes a row only after its file, and only once its time of hiding is a
\* grace old: what was hidden on request since the job looked is left for a later run,
\* unless the job hides it too.
RemovedInOrder ==
    \A a \in Attachments :
        (Exists(a) /\ row'[a] = NoRow) => a \notin files /\ row[a].pending = Grace

RemovedAtLast == [][RemovedInOrder]_vars

\* Once hidden an attachment never comes back, and no text refers to it anew.
StaysHidden ==
    \A a \in Attachments : IsPendingDelete(a) =>
        /\ row'[a] = NoRow \/ row'[a].pending # NotSet
        /\ \A p \in Posts : a \in embeds'[p] => a \in embeds[p]

HiddenIsFinal == [][StaysHidden]_vars

\* What the job owes: the attachments of a deleted post and those hidden on
\* request are collected in the end, file and row.
EventuallyCollected ==
    \A a \in Attachments :
        (IsPendingDelete(a) \/ (Exists(a) /\ ~Live(row[a].post))) ~> (~Exists(a) /\ a \notin files)

\* An attachment that the text of a live post refers to belongs to that post and is not
\* on its way out: validateAttachmentRefs lets no other into a text, DeletePostAttachment
\* refuses to hide one that is embedded, and the job is meant for orphans.
RefsResolve ==
    \A p \in Posts : Live(p) =>
        \A a \in embeds[p] : row[a].post = p /\ ~IsPendingDelete(a)

\* An upload has a file and no row until it ends, and nobody refers to it before.
UploadInStep ==
    \A a \in Attachments :
        /\ upload[a].pc \in {"stored", "rollback"} => a \in files /\ upload[a].post \in Posts
        /\ upload[a].pc # "done" =>
             /\ row[a] = NoRow
             /\ a \notin overtaken
             /\ \A p \in Posts : a \notin embeds[p]

\* Nothing belongs to a post before it is created.
NoneBeforePost ==
    \A p \in Posts : status[p] = "none" =>
        /\ embeds[p] = {}
        /\ \A a \in Attachments : row[a].post # p /\ upload[a].post # p

\* The job works on rows that exist, and removes the file and the row of hidden ones only.
JobInStep ==
    /\ cleaner.pc = "idle" => todo = {}
    /\ cleaner.pc \in {"idle", "next"} => cleaner.item = NoAttachment
    /\ \A a \in todo : Exists(a) /\ (a \in hidden => row[a].pending = Grace)
    /\ cleaner.pc \in {"file", "row"} =>
         /\ cleaner.item \in Attachments \ todo
         /\ Exists(cleaner.item)
         /\ row[cleaner.item].pending = Grace
    /\ cleaner.pc = "row" => cleaner.item \notin files

\* What the job took from under a text is hidden or gone.
OvertakenIsHidden == \A a \in overtaken : Exists(a) => IsPendingDelete(a)

\* The inductive invariant behind the properties above.
IInv ==
    /\ TypeOK
    /\ UploadInStep
    /\ NoneBeforePost
    /\ JobInStep
    /\ OvertakenIsHidden
    /\ ListedIsEmbedded
    /\ ShownHasFile
    /\ FilesAccounted
=============================================================================
