----------------------------- MODULE FileTransfer -----------------------------
(***************************************************************************)
(* A file transfer job of libs/hbb_common/src/fs.rs at both ends: the      *)
(* reading job that handle_read_jobs drives on a timer, the writing job,   *)
(* and the files it leaves on disk.  While a file arrives it is kept as    *)
(* path.download, next to path.digest, which says which version of the     *)
(* source the download belongs to; both survive a lost connection, and a   *)
(* later job may resume from them.                                         *)
(*                                                                         *)
(* Every disk call may fail.  Some failures are reported to the caller of  *)
(* write, some are passed over in silence; the job goes on after each, and *)
(* `trouble' remembers which files they may have harmed.                   *)
(*                                                                         *)
(* The program around fs.rs is external: it starts the two jobs, answers a *)
(* digest with is_write_need_confirmation and the user's choice, passes    *)
(* the answer to both jobs, goes on after an error of write, and on Done   *)
(* calls modify_time.  A block is one unit of a file; a file's content is  *)
(* a sequence of them.  A digest (seconds and size) is taken for the       *)
(* version of its file: two versions never have the same one.              *)
(***************************************************************************)
EXTENDS Integers, Sequences, SequencesExt

CONSTANTS
    Sizes,              \* the number of blocks of each file of the job
    MaxVersion,         \* bound: the version of a source file that is the last
    MaxAttempts,        \* bound: jobs started one after the other
    MaxFaults           \* bound: steps in which a call on a file fails

Files == DOMAIN Sizes

ASSUME TransferAssumption ==
    /\ Sizes \in Seq(Nat) /\ Len(Sizes) > 0
    /\ MaxVersion \in Nat \ {0} /\ MaxAttempts \in Nat /\ MaxFaults \in Nat

VARIABLES
    version,            \* the version of each source file
    reading, writing,   \* the two TransferJobs of the attempt under way
    disk,               \* the receiver's files
    toWriter, toReader, \* the connection, one sequence per direction
    saved,              \* file_num of the job that was cut off (gen_meta)
    attempts,
    fate,               \* what became of each file in this attempt (history)
    trouble,            \* the files something went wrong with (history)
    done                \* Done was handled (history)

transferVars == <<version, reading, writing, disk, toWriter, toReader,
                  saved, attempts, fate, trouble, done>>
connection == <<toWriter, toReader>>

NoDigest == 0                   \* the default FileDigest matches no file
Absent == -1                    \* no digest on disk
Closed == -1                    \* no data_stream; else the reader's place in the
                                \* file, or the file the writer's stream is of
None == << <<0, 0>> >>            \* no such file
Versions == 1..MaxVersion
Content(f, v) == [i \in 1..Sizes[f] |-> <<v, i>>]
NoJob == [file_num |-> 0]
NoFiles == [path |-> None, download |-> None, digest |-> Absent]

ReadJob == [file_num : 1..(Len(Sizes) + 1), data_stream : Int,
            detection : BOOLEAN, confirmed : BOOLEAN, waiting : BOOLEAN,
            skipped : BOOLEAN]
WriteJob == [file_num : 1..(Len(Sizes) + 1), data_stream : {Closed} \union Files,
             digest : 0..MaxVersion, is_resume : BOOLEAN]

TransferTypeOK ==
    /\ version \in [Files -> Versions]
    /\ reading = NoJob \/ reading \in ReadJob
    /\ writing = NoJob \/ writing \in WriteJob
    /\ DOMAIN disk = Files /\ attempts \in 0..MaxAttempts
    /\ saved \in 0..(Len(Sizes) + 1)
    /\ fate \in [Files -> {"none", "sent", "skipped", "error"}]
    /\ trouble \in [failed : SUBSET Files, changed : SUBSET Files, suspect : SUBSET Files,
                   faults : 0..MaxFaults]

(* failed: in this attempt a call failed that the file depends on, or one   *)
(* end alone went to the offset of an answer; changed: the source did;      *)
(* suspect: such a failure has come since the download was begun.           *)
Harms(was, files) ==
    [was EXCEPT !.failed = @ \union files, !.suspect = @ \union files]
Fails(was, files) == [Harms(was, files) EXCEPT !.faults = @ + 1]
Forgets(was) == [was EXCEPT !.failed = {}, !.changed = {}]
Begins(was, f) == [was EXCEPT !.suspect = @ \ ({f} \ was.failed)]

----------------------------------------------------------------------------
(* Starting and losing a job *)

(* new_read and new_write.  A resumed job begins at the file its            *)
(* predecessor was cut off at, and asks before it writes.                   *)
Start(detection, is_resume) ==
    /\ attempts < MaxAttempts /\ reading = NoJob /\ writing = NoJob
    /\ is_resume => detection /\ saved # 0
    /\ LET first == IF is_resume THEN saved ELSE 1 IN
       /\ reading' = [file_num |-> first, data_stream |-> Closed, detection |-> detection,
                      confirmed |-> FALSE, waiting |-> FALSE, skipped |-> FALSE]
       /\ writing' = [file_num |-> first, data_stream |-> Closed, digest |-> NoDigest,
                      is_resume |-> is_resume]
    /\ trouble' = Forgets(trouble)
    /\ attempts' = attempts + 1
    /\ saved' = 0
    /\ fate' = [f \in Files |-> "none"] /\ done' = FALSE
    /\ UNCHANGED <<version, disk, connection>>

(* The owner of a source file may change it, also while it is being read.  *)
SourceChanges(f) ==
    /\ \A g \in Files : version[g] < MaxVersion
    /\ version' = [version EXCEPT ![f] = @ + 1]
    /\ trouble' = [trouble EXCEPT !.changed = @ \union {f}]
    /\ UNCHANGED <<reading, writing, disk, connection, saved, attempts, fate, done>>

(* Both jobs are gone, what they wrote to disk stays; the writing job's     *)
(* place is kept for a later attempt unless it was given up.                *)
Ends ==
    /\ reading' = NoJob /\ writing' = NoJob
    /\ toWriter' = <<>> /\ toReader' = <<>>
    /\ fate' = [f \in Files |-> "none"]
    /\ UNCHANGED <<version, attempts, done>>
Stops == Ends /\ saved' = writing.file_num

ConnectionLost ==
    /\ writing # NoJob
    /\ Stops /\ trouble' = Forgets(trouble) /\ UNCHANGED disk

----------------------------------------------------------------------------
(* The reading job *)

Reset(job) == [job EXCEPT !.confirmed = FALSE, !.waiting = FALSE]
NextFile(job) == [Reset(job) EXCEPT !.file_num = @ + 1, !.data_stream = Closed]
Past(job) == job.file_num \notin Files

(* open_data_stream: the job after it, and whether it failed. *)
Faults == {"none", "open", "date"}
OpenFails(job, fault) == fault = "open" /\ ~Past(job) /\ job.data_stream = Closed
Opened(job, fault) ==
    IF Past(job) THEN [job EXCEPT !.data_stream = Closed]
    ELSE IF job.data_stream # Closed THEN job
    ELSE IF fault = "open" THEN NextFile(job)
    ELSE [Reset(job) EXCEPT !.data_stream = 0]

(* init_data_stream: a file about to be read is announced once, unless      *)
(* get_current_digest fails.                                                *)
Announces(job, fault) ==
    /\ ~Past(job) /\ ~OpenFails(job, fault) /\ job.detection
    /\ ~Opened(job, fault).confirmed /\ ~Opened(job, fault).waiting
DateFails(job, fault) == fault = "date" /\ Announces(job, fault)
Initialized(job, fault) ==
    IF Announces(job, fault) /\ fault # "date"
    THEN [Opened(job, fault) EXCEPT !.waiting = TRUE] ELSE Opened(job, fault)

ErrorFor(job) == [kind |-> "error", file_num |-> job.file_num]
InitMessages(job, fault) ==
    IF OpenFails(job, fault) \/ DateFails(job, fault) THEN <<ErrorFor(Opened(job, fault))>>
    ELSE IF Announces(job, fault)
         THEN <<[kind |-> "digest", file_num |-> job.file_num, digest |-> version[job.file_num]]>>
         ELSE <<>>

Unconfirmed(job) == job.detection /\ ~job.confirmed
job_completed(job) == ~job.detection \/ (~job.confirmed /\ ~job.waiting)
job_skipped(job) == job.skipped /\ Len(Sizes) = 1

Block(job, data) == [kind |-> "block", file_num |-> job.file_num, data |-> data]

(* read, of a confirmed file that is open: a block, an error, or the empty   *)
(* block at the end, which moves the job to the next file as an error does. *)
(* With each, what has become of the file.                                  *)
Read(job) ==
    LET f == job.file_num
        at == job.data_stream IN
    {[job |-> NextFile(job), said |-> ErrorFor(NextFile(job)), fate |-> "error"],
     IF at = Sizes[f]
     THEN [job |-> NextFile(job), said |-> Block(job, <<>>), fate |-> "sent"]
     ELSE [job |-> [job EXCEPT !.data_stream = @ + 1], fate |-> "none",
           said |-> Block(job, <<Content(f, version[f])[at + 1]>>)]}

(* One call of handle_read_jobs: open and announce, then read once.  An      *)
(* error is reported under the number the job has after it.                 *)
HandleReadJobs ==
    /\ reading # NoJob
    /\ \E fault \in Faults :
       LET job == Initialized(reading, fault)
           said == toWriter \o InitMessages(reading, fault)
           fails == OpenFails(reading, fault) \/ DateFails(reading, fault)
           known == IF fails THEN Fails(trouble, {}) ELSE trouble
           failed == IF OpenFails(reading, fault)
                     THEN [fate EXCEPT ![reading.file_num] = "error"] ELSE fate IN
       \/ /\ Unconfirmed(job) \/ Past(job)                  \* read gives None
          /\ fate' = failed /\ trouble' = known
          /\ IF job_completed(job)
             THEN /\ reading' = NoJob
                  /\ toWriter' = Append(said, IF job_skipped(job) THEN ErrorFor(job)
                                              ELSE [kind |-> "done", file_num |-> job.file_num])
             ELSE reading' = job /\ toWriter' = said
       \/ /\ ~Unconfirmed(job) /\ ~Past(job)
          /\ job.data_stream = Closed                        \* nothing is open
          /\ reading' = job /\ fate' = failed /\ trouble' = known
          /\ toWriter' = Append(said, ErrorFor(job))
       \/ /\ ~Unconfirmed(job) /\ ~Past(job) /\ job.data_stream # Closed
          /\ \E r \in Read(job) :
               /\ reading' = r.job
               /\ fate' = [failed EXCEPT ![job.file_num] = r.fate]
               /\ trouble' = IF r.fate = "error" THEN Fails(known, {}) ELSE known
               /\ toWriter' = Append(said, r.said)
    /\ UNCHANGED <<version, writing, disk, toReader, saved, attempts, done>>

SkipFileInPlace(job) ==              \* mutant
    [Reset(job) EXCEPT !.data_stream = Closed, !.skipped = TRUE]

SkipFile(job) == [NextFile(job) EXCEPT !.skipped = TRUE]
ConfirmFile(job) == [job EXCEPT !.confirmed = TRUE, !.skipped = FALSE]

(* confirm, at the reading end: an offset moves the open file to it, unless *)
(* the file cannot be opened again; beyond the end there is only the end.   *)
ReaderConfirm(job, r) ==
    IF job.file_num # r.file_num THEN {job}
    ELSE IF r.skip THEN {SkipFile(job)}
    ELSE {ConfirmFile(job)}
         \union (IF r.offset = 0 THEN {}
                 ELSE {[ConfirmFile(job) EXCEPT !.data_stream =
                          IF r.offset > Sizes[r.file_num] THEN Sizes[r.file_num]
                          ELSE r.offset]})

ReaderTakes ==
    /\ toReader # <<>>
    /\ toReader' = Tail(toReader)
    /\ LET r == Head(toReader) IN
       IF reading = NoJob THEN UNCHANGED <<reading, fate, trouble>>
       ELSE /\ reading' \in ReaderConfirm(reading, r)
            /\ fate' = IF r.skip /\ r.file_num = reading.file_num
                       THEN [fate EXCEPT ![r.file_num] = "skipped"] ELSE fate
            /\ trouble' = IF r.offset > 0 /\ reading'.data_stream = reading.data_stream
                          THEN Fails(trouble, {r.file_num}) ELSE trouble
    /\ UNCHANGED <<version, writing, disk, toWriter, saved, attempts, done>>

----------------------------------------------------------------------------
(* The writing job *)

(* modify_time: the digest goes and the download becomes the file.  Both   *)
(* calls may fail without notice; the process may stop between them.       *)
Placed(here) ==
    IF here.download = None THEN here
    ELSE [here EXCEPT !.path = here.download, !.download = None]

ModifyTime(f) ==
    IF f \notin Files THEN {[files |-> disk, trouble |-> trouble]}
    ELSE {[files |-> [disk EXCEPT ![f] = [here EXCEPT !.digest = left]],
           trouble |-> IF here.download # None THEN Fails(trouble, {f})
                       ELSE IF left # Absent THEN Fails(trouble, {}) ELSE trouble] :
            here \in {disk[f], Placed(disk[f])}, left \in {disk[f].digest, Absent}}

(* remove_download_file: each of its two calls may fail without notice. *)
RemoveDownload(f) ==
    IF f \notin Files THEN {[files |-> disk, trouble |-> trouble]}
    ELSE {[files |-> [disk EXCEPT ![f] = [path |-> @.path, download |-> kept, digest |-> left]],
           trouble |-> IF kept # None \/ left # Absent THEN Fails(trouble, {}) ELSE trouble] :
            kept \in {disk[f].download, None}, left \in {disk[f].digest, Absent}}

(* write, the part that turns to another file, after modify_time: the old   *)
(* digest goes, the download is created, the digest is written.  The last   *)
(* may fail without notice; a digest cut short is as good as none.          *)
TurnsTo(m) == m.file_num # writing.file_num \/ writing.data_stream = Closed
Unmarked(files, m) == [files EXCEPT ![m.file_num].digest = Absent]
CreatedAppending(files, m) ==        \* mutant
    [Unmarked(files, m) EXCEPT ![m.file_num].download = IF @ = None THEN <<>> ELSE @]
Created(files, m) == [Unmarked(files, m) EXCEPT ![m.file_num].download = <<>>]
Marked(files, m) == [Created(files, m) EXCEPT ![m.file_num].digest = writing.digest]

Incoming(kind) == writing # NoJob /\ toWriter # <<>> /\ Head(toWriter).kind = kind

(* write_all: the stream goes on with its file, under whichever name that   *)
(* has by now.                                                              *)
Appended(files, f, data) ==
    IF files[f].download # None THEN [files EXCEPT ![f].download = @ \o data]
    ELSE [files EXCEPT ![f].path = @ \o data]

(* The last part of write, on what the turn has left: write_all may fail.   *)
Puts(m, files, job, was) ==
    /\ writing' = job
    /\ \/ disk' = Appended(files, job.data_stream, m.data) /\ trouble' = was
       \/ /\ m.data # <<>>
          /\ disk' = files /\ trouble' = Fails(was, {m.file_num, job.data_stream})

Turned(job, m) == [job EXCEPT !.file_num = m.file_num, !.data_stream = m.file_num]

Write ==
    /\ Incoming("block")
    /\ LET m == Head(toWriter) IN
       \/ ~TurnsTo(m) /\ Puts(m, disk, writing, trouble)
       \/ /\ TurnsTo(m)
          /\ \E after \in ModifyTime(writing.file_num) :
             LET begun == Begins(after.trouble, m.file_num) IN
             \/ Puts(m, Marked(after.files, m), Turned(writing, m), begun)
             \/ Puts(m, Created(after.files, m), Turned(writing, m), Fails(begun, {}))
    /\ toWriter' = Tail(toWriter)
    /\ UNCHANGED <<version, reading, toReader, saved, attempts, fate, done>>

(* write ends with an error while it turns: sync_all fails, and nothing has *)
(* been turned to; or the path is refused, or the old digest stays, or the  *)
(* download is not created, and file_num is the new file's while the stream *)
(* is still the one before it.                                              *)
WriteFails ==
    /\ Incoming("block")
    /\ LET m == Head(toWriter) IN
       /\ TurnsTo(m)
       /\ \E after \in ModifyTime(writing.file_num) :
            \/ writing.data_stream # Closed /\ disk' = after.files /\ UNCHANGED writing
            \/ /\ disk' \in {after.files, Unmarked(after.files, m)}
               /\ writing' = [writing EXCEPT !.file_num = m.file_num]
       /\ trouble' = Fails(trouble, Files \intersect {m.file_num, writing.file_num})
    /\ toWriter' = Tail(toWriter)
    /\ UNCHANGED <<version, reading, toReader, saved, attempts, fate, done>>

(* The process ends inside write, after one of its calls. *)
StopsInWrite ==
    /\ Incoming("block")
    /\ LET m == Head(toWriter) IN
       /\ TurnsTo(m)
       /\ \/ /\ disk' = [disk EXCEPT ![writing.file_num].digest = Absent]
             /\ trouble' = Forgets(trouble)
          \/ \E after \in ModifyTime(writing.file_num) :
               \/ /\ disk' \in {after.files, Unmarked(after.files, m)}
                  /\ trouble' = Forgets(after.trouble)
               \/ /\ disk' \in {Created(after.files, m), Marked(after.files, m)}
                  /\ trouble' = Forgets(Begins(after.trouble, m.file_num))
    /\ Stops

TransferredOfAnyVersion(m) ==        \* mutant
    LET here == disk[m.file_num] IN
    IF writing.is_resume /\ here.digest # Absent /\ here.download # None
    THEN Len(here.download) ELSE 0

(* is_write_need_confirmation: what of the file is there already, and       *)
(* whether the user has to be asked.                                        *)
Transferred(m) ==
    LET here == disk[m.file_num] IN
    IF /\ writing.is_resume /\ here.digest # Absent /\ here.download # None
       /\ here.digest = m.digest
    THEN Len(here.download) ELSE 0
NeedConfirm(m) == Transferred(m) > 0 \/ disk[m.file_num].path # None

(* What may be chosen: an offset is offered for any file of a resumed job  *)
(* that has a download with the same digest.                               *)
Answers(m) ==
    {[file_num |-> m.file_num, skip |-> FALSE, offset |-> 0]}
    \union (IF NeedConfirm(m)
            THEN {[file_num |-> m.file_num, skip |-> TRUE, offset |-> 0]} ELSE {})
    \union (IF Transferred(m) > 0
            THEN {[file_num |-> m.file_num, skip |-> FALSE, offset |-> Transferred(m)]}
            ELSE {})

(* confirm, at the writing end: an answer for another file_num is ignored,  *)
(* and an offset too when the download cannot be opened again.              *)
WriterConfirm(job, r) ==
    IF job.file_num # r.file_num THEN {job}
    ELSE IF r.skip THEN {[job EXCEPT !.file_num = @ + 1, !.data_stream = Closed]}
    ELSE {job} \union (IF r.offset = 0 THEN {}
                       ELSE {[job EXCEPT !.data_stream = r.file_num]})

Answer(m) ==
    /\ \E r \in Answers(m) :
         /\ writing' \in WriterConfirm([writing EXCEPT !.digest = m.digest], r)
         /\ toReader' = Append(toReader, r)
         /\ trouble' = IF r.offset = 0 \/ writing'.data_stream = r.file_num THEN trouble
                       ELSE IF writing.file_num # r.file_num THEN Harms(trouble, {r.file_num})
                       ELSE Fails(trouble, {r.file_num})
    /\ toWriter' = Tail(toWriter)
    /\ UNCHANGED <<version, reading, disk, saved, attempts, fate, done>>

(* The program answers at once when there is nothing to ask; otherwise the  *)
(* user answers, or does not.                                               *)
AwaitsUser == Incoming("digest") /\ NeedConfirm(Head(toWriter))
AnswerDigest == Incoming("digest") /\ ~NeedConfirm(Head(toWriter)) /\ Answer(Head(toWriter))
UserAnswers == AwaitsUser /\ Answer(Head(toWriter))

(* Done ends the writing job, its last file takes its place; an error is    *)
(* shown and the job goes on, unless the reading job is gone.               *)
WriterDone ==
    /\ Incoming("done")
    /\ \E after \in ModifyTime(writing.file_num) :
         disk' = after.files /\ trouble' = after.trouble
    /\ writing' = NoJob
    /\ toWriter' = Tail(toWriter) /\ toReader' = <<>>
    /\ done' = TRUE
    /\ UNCHANGED <<version, reading, saved, attempts, fate>>

WriterError ==
    /\ Incoming("error")
    /\ writing' = IF reading = NoJob /\ Tail(toWriter) = <<>> THEN NoJob ELSE writing
    /\ toWriter' = Tail(toWriter)
    /\ UNCHANGED <<version, reading, disk, toReader, saved, attempts, fate, trouble,
                   done>>

(* The user gives up: the partial file is removed. *)
Cancel ==
    /\ writing # NoJob
    /\ \E after \in RemoveDownload(writing.file_num) :
         disk' = after.files /\ trouble' = Forgets(after.trouble)
    /\ Ends /\ saved' = 0

----------------------------------------------------------------------------
TransferInit ==
    /\ version = [f \in Files |-> 1]
    /\ reading = NoJob /\ writing = NoJob
    /\ disk \in [Files -> {NoFiles, [NoFiles EXCEPT !.path = <<>>]}]
    /\ toWriter = <<>> /\ toReader = <<>>
    /\ saved = 0 /\ attempts = 0
    /\ fate = [f \in Files |-> "none"] /\ done = FALSE
    /\ trouble = [failed |-> {}, changed |-> {}, suspect |-> {}, faults |-> 0]

(* What the writing end does with a message, the user apart. *)
WriterTakes == Write \/ WriteFails \/ AnswerDigest \/ WriterDone \/ WriterError

TransferNext ==
    /\ \/ \E detection, is_resume \in BOOLEAN : Start(detection, is_resume)
       \/ \E f \in Files : SourceChanges(f)
       \/ ConnectionLost \/ HandleReadJobs \/ ReaderTakes
       \/ WriterTakes \/ UserAnswers \/ StopsInWrite \/ Cancel
    /\ trouble'.faults <= MaxFaults

(* The timer of the reading end fires and both ends read what has arrived;  *)
(* nobody is obliged to start, change or cancel anything, and no user to    *)
(* answer.                                                                  *)
TransferFairness ==
    /\ WF_transferVars(HandleReadJobs) /\ WF_transferVars(ReaderTakes)
    /\ WF_transferVars(WriterTakes)

TransferSpec == TransferInit /\ [][TransferNext]_transferVars /\ TransferFairness

----------------------------------------------------------------------------
(* A digest on disk that is still the source's vouches for the download     *)
(* next to it, unless a disk call it depends on has failed since that was   *)
(* begun: the download is the beginning of that version, and resuming from  *)
(* its length is right.  It holds through calls that fail for other files,  *)
(* a process that ends inside write, sources that change at any time, also  *)
(* while they are read, and resumed downloads.                              *)
DigestVouches ==
    \A f \in Files \ trouble.suspect :
      LET here == disk[f] IN
      here.download # None /\ here.digest = version[f]
      => IsPrefix(here.download, Content(f, version[f]))

(* Once Done has been handled, every file that the reading job sent to its  *)
(* end is in its place, whole and of the version that was sent, whatever    *)
(* earlier attempts left behind and whatever failed for other files; except *)
(* one that a disk call failed for, that one end alone resumed, or whose    *)
(* source was changed.                                                      *)
SentIsWhole ==
    done => \A f \in Files \ (trouble.failed \union trouble.changed \union trouble.suspect) :
              fate[f] = "sent" => disk[f].path = Content(f, version[f])

(* A reading job ends, unless the user is asked about a file and never      *)
(* answers: it never waits for an answer that is not coming from a program. *)
JobEnds == (reading # NoJob) ~> (reading = NoJob \/ []AwaitsUser)
=============================================================================
