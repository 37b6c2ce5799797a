--------------------------- MODULE IngestPipeline ---------------------------
(***************************************************************************)
(* What the Python worker (apps/ingest/ingest) does with one student's     *)
(* uploads: process_document, process_toc_detection and                    *)
(* process_chapter_fill, statement by statement, and the web app's         *)
(* hand-off that starts them.  One action is one commit of the worker's    *)
(* connection or one object-store call; several workers interleave, and a  *)
(* worker may die, or an external call fail, between any two.              *)
(*                                                                         *)
(* The queue is reduced to what JobQueue shows of it: one worker per row,  *)
(* and a row whose worker is gone is pending again.  Files are abstracted  *)
(* to what sniffing, policy, scanner and extraction say of them.           *)
(***************************************************************************)
EXTENDS Naturals, Sequences, FiniteSets

CONSTANTS
  Docs,          \* uploads; a larger number was created later
  Textbooks,     \* those of kind textbook, uploaded as PDF
  Files,         \* the contents a student uploads
  Chapters,      \* ordinals of the chapters a table of contents lists
  LostChapters,  \* those whose pages cannot be located in the text
  Workers,
  Quota,         \* user_quota_bytes, in small uploads
  MaxAttempts,   \* INGEST_MAX_ATTEMPTS
  MaxFaults,     \* bound: worker deaths and failed external calls
  MaxJobs,       \* bound: rows in the queue
  None

ASSUME IngestAssumption ==
  /\ Docs \subseteq Nat \ {0}
  /\ Textbooks \subseteq Docs
  /\ Chapters \subseteq Nat \ {0} /\ LostChapters \subseteq Chapters
  /\ Quota \in Nat /\ MaxAttempts \in Nat \ {0}
  /\ MaxFaults \in Nat /\ MaxJobs \in Nat
  /\ None \notin Docs /\ None \notin Nat

VARIABLES
  content,   \* the bytes of each upload
  objects,   \* the buckets that hold its object
  doc,       \* its documents row
  chapters,  \* its textbook_chapters rows
  jobs,      \* the queue
  frame,     \* what each worker is in the middle of
  faults

vars == <<content, objects, doc, chapters, jobs, frame, faults>>

-----------------------------------------------------------------------------
\* Two uploads with the same content have the same content_sha256.
Renamed(d)   == content[d] = "renamed"     \* sniff() rejects it
Oversized(d) == content[d] = "oversized"   \* check_size, check_kind_*
Infected(d)  == content[d] = "infected"
Corrupt(d)   == content[d] = "corrupt"     \* extract() raises: encrypted, or damaged
Blank(d)     == content[d] = "blank"       \* no extractable text
HasToc(d)    == content[d] # "flat"
Size(d)      == IF content[d] = "large" THEN Quota ELSE 1

Pointer   == {"none", "document", "book"}
TocStatus == {"not_applicable", "pending", "no_toc_found", "building", "ready"}

Doc ==
  [status  : {"absent", "scanning", "extracting", "indexing", "ready", "failed", "quarantined"},
   safeKey : BOOLEAN,                        \* s3_key_safe is set
   sha     : BOOLEAN,                        \* content_sha256 is set
   chunks  : {"none", "text", "embedded"},   \* text: some chunk has no vector yet
   pointer : Pointer,
   toc     : TocStatus]

NoDoc == [status |-> "absent", safeKey |-> FALSE, sha |-> FALSE, chunks |-> "none",
          pointer |-> "none", toc |-> "not_applicable"]

Job == [kind : {"ingest_document", "detect_textbook_toc", "fill_textbook_chapter"},
        doc : Docs, chapter : Chapters \cup {None},
        status : {"pending", "running", "done", "failed"}, attempts : 0 .. MaxAttempts]

Statement ==
  {"idle", "begin", "resume", "scan", "reject", "quarantine-copy", "quarantine-delete", "quarantine-status",
   "safe-copy", "safe-delete", "safe-key", "hash", "dedup", "copy-status", "copy-chunks",
   "copy-pointer", "copy-tree", "copy-toc", "copied", "extract", "chunk", "no-text", "index",
   "embed", "point", "toc", "enqueue-detect", "ready", "detect", "build", "insert-chapters",
   "enqueue-fills", "fill", "locate", "write-chapter", "write-sections", "count", "book-ready",
   "done", "permanent"}

\* dup, pointer and toc: the duplicate's row as find_ready_document_by_hash read
\* it; todo: chapters that have no fill job yet.
Frame == [next : Statement, job : 1 .. MaxJobs \cup {None}, dup : Docs \cup {None},
          pointer : Pointer, toc : TocStatus, todo : SUBSET Chapters]

Idle == [next |-> "idle", job |-> None, dup |-> None, pointer |-> "none",
         toc |-> "not_applicable", todo |-> {}]

ChapterStatus == {"none", "pending", "filling", "ready", "failed"}

TypeOK ==
  /\ content \in [Docs -> Files]
  /\ objects \in [Docs -> SUBSET {"raw", "safe", "quarantine"}]
  /\ doc \in [Docs -> Doc]
  /\ chapters \in [Docs -> [Chapters -> ChapterStatus]]
  /\ Len(jobs) <= MaxJobs /\ \A n \in DOMAIN jobs : jobs[n] \in Job
  /\ frame \in [Workers -> Frame]
  /\ faults \in 0 .. MaxFaults

Init ==
  /\ content \in [Docs -> Files]
  /\ objects = [d \in Docs |-> {}]
  /\ doc = [d \in Docs |-> NoDoc]
  /\ chapters = [d \in Docs |-> [c \in Chapters |-> "none"]]
  /\ jobs = <<>>
  /\ frame = [w \in Workers |-> Idle]
  /\ faults = 0

-----------------------------------------------------------------------------
At(w, s)       == frame[w].next = s
Step(w, s, to) == At(w, s) /\ frame' = [frame EXCEPT ![w].next = to]
D(w)           == jobs[frame[w].job].doc
C(w)           == jobs[frame[w].job].chapter
HasJob(d)      == \E n \in DOMAIN jobs : jobs[n].doc = d

Pending(kind, d, c) ==
  [kind |-> kind, doc |-> d, chapter |-> c, status |-> "pending", attempts |-> 0]

\* enqueue: INSERT INTO jobs, in a commit of its own
Enqueue(kind, d, c) == Len(jobs) < MaxJobs /\ jobs' = Append(jobs, Pending(kind, d, c))

SetStatus(w, s, status, to) ==
  /\ Step(w, s, to)
  /\ doc' = [doc EXCEPT ![D(w)].status = status]
  /\ UNCHANGED <<content, objects, chapters, jobs, faults>>

SetToc(w, s, toc, to) ==
  /\ Step(w, s, to)
  /\ doc' = [doc EXCEPT ![D(w)].toc = toc]
  /\ UNCHANGED <<content, objects, chapters, jobs, faults>>

Goto(w, s, to) == Step(w, s, to) /\ UNCHANGED <<content, objects, doc, chapters, jobs, faults>>

\* The worker's process ends, or run_once raises: its row stays running.
Abandon(w) ==
  /\ frame' = [frame EXCEPT ![w] = Idle]
  /\ UNCHANGED <<content, objects, doc, chapters, jobs>>

-----------------------------------------------------------------------------
(* uploadDocumentAndEnqueue, one await at a time; the request may die between. *)

PutRaw(d) ==
  /\ objects[d] = {}
  /\ objects' = [objects EXCEPT ![d] = {"raw"}]
  /\ UNCHANGED <<content, doc, chapters, jobs, frame, faults>>

InsertDocument(d) ==
  /\ objects[d] # {}
  /\ \A e \in Docs : e >= d => doc[e].status = "absent"
  /\ doc' = [doc EXCEPT ![d].status = "scanning"]
  /\ UNCHANGED <<content, objects, chapters, jobs, frame, faults>>

InsertJob(d) ==
  /\ doc[d].status # "absent" /\ ~HasJob(d)
  /\ Enqueue("ingest_document", d, None)
  /\ UNCHANGED <<content, objects, doc, chapters, frame, faults>>

-----------------------------------------------------------------------------
(* run_once *)

FirstStatement(kind) ==
  CASE kind = "ingest_document"       -> "begin"
    [] kind = "detect_textbook_toc"   -> "detect"
    [] kind = "fill_textbook_chapter" -> "fill"

\* claim_job: the oldest pending row that is due; only a row that failed before
\* may still wait for its run_after.
Claim(w) ==
  /\ At(w, "idle")
  /\ \E n \in DOMAIN jobs :
       /\ jobs[n].status = "pending"
       /\ \A m \in 1 .. n - 1 : jobs[m].status = "pending" => jobs[m].attempts > 0
       /\ jobs' = [jobs EXCEPT ![n].status = "running"]
       /\ frame' = [frame EXCEPT ![w] = [Idle EXCEPT !.next = FirstStatement(jobs[n].kind),
                                                     !.job = n]]
  /\ UNCHANGED <<content, objects, doc, chapters, faults>>

\* reclaimStaleJobs of the TypeScript worker, for the rows it is meant for.  It goes
\* by the age of the lock (30 minutes): an ingest that outlives its lock, and is
\* then claimed a second time, is JobQueue's SlowHandlers and left out here.
Reclaim(n) ==
  /\ n \in DOMAIN jobs /\ jobs[n].status = "running"
  /\ \A w \in Workers : frame[w].job # n
  /\ jobs' = [jobs EXCEPT ![n].status = "pending"]
  /\ UNCHANGED <<content, objects, doc, chapters, frame, faults>>

MarkDone(w) ==
  /\ At(w, "done")
  /\ jobs' = [jobs EXCEPT ![frame[w].job].status = "done"]
  /\ frame' = [frame EXCEPT ![w] = Idle]
  /\ UNCHANGED <<content, objects, doc, chapters, faults>>

\* Mutant of MarkFailed: the attempts are counted and never compared.
MarkFailedForever(w, permanent) ==
  /\ jobs' = [jobs EXCEPT ![frame[w].job].attempts = @ + 1,
                          ![frame[w].job].status = IF permanent THEN "failed" ELSE "pending"]
  /\ frame' = [frame EXCEPT ![w] = Idle]
  /\ UNCHANGED <<content, objects, doc, chapters>>

MarkFailed(w, permanent) ==
  /\ LET n == frame[w].job
         attempts == jobs[n].attempts + 1 IN
     jobs' = [jobs EXCEPT ![n].attempts = attempts,
                          ![n].status = IF permanent \/ attempts >= MaxAttempts
                                        THEN "failed" ELSE "pending"]
  /\ frame' = [frame EXCEPT ![w] = Idle]
  /\ UNCHANGED <<content, objects, doc, chapters>>

\* PermanentFailure
FailForGood(w) == At(w, "permanent") /\ MarkFailed(w, TRUE) /\ UNCHANGED faults

\* The object store, the scanner, the embedder or the model fails.
ExternalCalls == {"resume", "scan", "quarantine-copy", "quarantine-delete", "safe-copy",
                  "safe-delete", "embed", "point", "write-chapter", "write-sections"}

CallFails(w) ==
  /\ frame[w].next \in ExternalCalls /\ faults < MaxFaults
  /\ MarkFailed(w, FALSE)
  /\ faults' = faults + 1

Crash(w) ==
  /\ ~At(w, "idle") /\ faults < MaxFaults
  /\ Abandon(w)
  /\ faults' = faults + 1

-----------------------------------------------------------------------------
(* process_document: scan and move *)

\* A row with s3_key_safe resumes from SAFE and keeps the row's content_sha256.
Begin(w) ==
  /\ At(w, "begin")
  /\ IF doc[D(w)].safeKey
     THEN Goto(w, "begin", "resume")
     ELSE SetStatus(w, "begin", "scanning", "scan")

\* The download from SAFE.
Resume(w) == Goto(w, "resume", "dedup")

\* Mutant of Counted: only finished uploads count.
CountedReady(d) == {e \in Docs \ {d} : doc[e].status = "ready"}

\* sum_user_document_bytes: every other upload that is not rejected counts, from
\* the moment its row is there.
Counted(d) == {e \in Docs \ {d} : doc[e].status \notin {"absent", "failed", "quarantined"}}

\* SUM(size_bytes): a byte is an upload and its place in it.
Bytes(S) == UNION {{d} \X (1 .. Size(d)) : d \in S}
Used(S)  == Cardinality(Bytes(S))

RejectedByPolicy(d) == Oversized(d) \/ Used(Counted(d)) + Size(d) > Quota

\* The download from RAW, sniff, policy and the scanner's verdict.
Scan(w) ==
  /\ At(w, "scan") /\ "raw" \in objects[D(w)]
  /\ LET d == D(w) IN
     Goto(w, "scan", IF Renamed(d) THEN "quarantine-copy"
                     ELSE IF RejectedByPolicy(d) THEN "reject"
                     ELSE IF Infected(d) THEN "quarantine-copy"
                     ELSE "safe-copy")

\* The object is gone from RAW: a 404, retried like any other error.
ScanNotFound(w) ==
  /\ At(w, "scan") /\ "raw" \notin objects[D(w)]
  /\ MarkFailed(w, FALSE)
  /\ UNCHANGED faults

Reject(w) == SetStatus(w, "reject", "failed", "permanent")

\* move_object: copy, then delete.
Copy(w, s, bucket, to) ==
  /\ Step(w, s, to)
  /\ objects' = [objects EXCEPT ![D(w)] = @ \cup {bucket}]
  /\ UNCHANGED <<content, doc, chapters, jobs, faults>>

Delete(w, s, to) ==
  /\ Step(w, s, to)
  /\ objects' = [objects EXCEPT ![D(w)] = @ \ {"raw"}]
  /\ UNCHANGED <<content, doc, chapters, jobs, faults>>

Quarantine(w) ==
  \/ Copy(w, "quarantine-copy", "quarantine", "quarantine-delete")
  \/ Delete(w, "quarantine-delete", "quarantine-status")
  \/ SetStatus(w, "quarantine-status", "quarantined", "permanent")

\* Mutant of MoveToSafe: deletes before it copies.
DeleteThenCopy(w) ==
  \/ Delete(w, "safe-copy", "safe-delete")
  \/ Copy(w, "safe-delete", "safe", "safe-key")

MoveToSafe(w) ==
  \/ Copy(w, "safe-copy", "safe", "safe-delete")
  \/ Delete(w, "safe-delete", "safe-key")

SetSafeKey(w) ==
  /\ Step(w, "safe-key", "hash")
  /\ doc' = [doc EXCEPT ![D(w)].safeKey = TRUE]
  /\ UNCHANGED <<content, objects, chapters, jobs, faults>>

SetHash(w) ==
  /\ Step(w, "hash", "dedup")
  /\ doc' = [doc EXCEPT ![D(w)].sha = TRUE]
  /\ UNCHANGED <<content, objects, chapters, jobs, faults>>

-----------------------------------------------------------------------------
(* process_document: deduplication *)

\* Mutant of Duplicates: takes a duplicate in any status.
DuplicatesAnyStatus(d) ==
  {e \in Docs \ {d} : doc[e].sha /\ doc[d].sha /\ content[e] = content[d]}

\* find_ready_document_by_hash: a NULL hash matches nothing.
Duplicates(d) ==
  {e \in Docs \ {d} : /\ doc[e].status = "ready" /\ doc[e].sha /\ doc[d].sha
                      /\ content[e] = content[d]}

FindDuplicate(w) ==
  /\ At(w, "dedup")
  /\ IF Duplicates(D(w)) = {}
     THEN frame' = [frame EXCEPT ![w].next = "extract"]
     ELSE \E e \in Duplicates(D(w)) :
            /\ \A f \in Duplicates(D(w)) : e <= f
            /\ frame' = [frame EXCEPT ![w] = [@ EXCEPT !.next = "copy-status", !.dup = e,
                           !.pointer = doc[e].pointer, !.toc = doc[e].toc]]
  /\ UNCHANGED <<content, objects, doc, chapters, jobs, faults>>

\* copy_chunks_from: ON CONFLICT DO NOTHING, so chunks already there stay.
CopyChunks(w) ==
  /\ Step(w, "copy-chunks", "copy-pointer")
  /\ doc' = [doc EXCEPT ![D(w)].chunks = IF @ = "none" THEN doc[frame[w].dup].chunks ELSE @]
  /\ UNCHANGED <<content, objects, chapters, jobs, faults>>

CopyPointer(w) ==
  /\ Step(w, "copy-pointer", "copy-tree")
  /\ doc' = [doc EXCEPT ![D(w)].pointer = frame[w].pointer]
  /\ UNCHANGED <<content, objects, chapters, jobs, faults>>

Listed(d) == {c \in Chapters : chapters[d][c] # "none"}

\* copy_textbook_tree_from: one transaction, no ON CONFLICT.  A unique violation
\* aborts the transaction, so mark_failed raises too and the row stays running.
CopyTree(w) ==
  /\ At(w, "copy-tree")
  /\ IF Listed(D(w)) \cap Listed(frame[w].dup) # {}
     THEN Abandon(w)
     ELSE /\ Step(w, "copy-tree", "copy-toc")
          /\ chapters' = [chapters EXCEPT ![D(w)] = [c \in Chapters |->
               IF chapters[frame[w].dup][c] # "none" THEN chapters[frame[w].dup][c] ELSE @[c]]]
          /\ UNCHANGED <<content, objects, doc, jobs>>
  /\ UNCHANGED faults

Deduplicate(w) ==
  \/ SetStatus(w, "copy-status", "indexing", "copy-chunks")
  \/ CopyChunks(w) \/ CopyPointer(w) \/ CopyTree(w)
  \/ SetToc(w, "copy-toc", frame[w].toc, "copied")
  \/ SetStatus(w, "copied", "ready", "done")

-----------------------------------------------------------------------------
(* process_document: extract, chunk, embed, pointer, chapter tree *)

\* extract() raises for this file at every attempt; to run_once that is an error
\* like any other, and nothing touches the documents row.
ExtractFails(w) ==
  /\ At(w, "chunk") /\ Corrupt(D(w))
  /\ MarkFailed(w, FALSE)
  /\ UNCHANGED faults

InsertChunks(w) ==
  /\ At(w, "chunk") /\ ~Corrupt(D(w))
  /\ Step(w, "chunk", IF Blank(D(w)) THEN "no-text" ELSE "index")
  /\ doc' = [doc EXCEPT ![D(w)].chunks = IF Blank(D(w)) \/ @ # "none" THEN @ ELSE "text"]
  /\ UNCHANGED <<content, objects, chapters, jobs, faults>>

Embed(w) ==
  /\ Step(w, "embed", "point")
  /\ doc' = [doc EXCEPT ![D(w)].chunks = "embedded"]
  /\ UNCHANGED <<content, objects, chapters, jobs, faults>>

SetPointer(w) ==
  /\ Step(w, "point", IF D(w) \in Textbooks THEN "toc" ELSE "ready")
  /\ doc' = [doc EXCEPT ![D(w)].pointer = "document"]
  /\ UNCHANGED <<content, objects, chapters, jobs, faults>>

EnqueueDetect(w) ==
  /\ Step(w, "enqueue-detect", "ready")
  /\ Enqueue("detect_textbook_toc", D(w), None)
  /\ UNCHANGED <<content, objects, doc, chapters, faults>>

Index(w) ==
  \/ SetStatus(w, "extract", "extracting", "chunk")
  \/ InsertChunks(w)
  \/ SetStatus(w, "no-text", "failed", "permanent")
  \/ SetStatus(w, "index", "indexing", "embed")
  \/ Embed(w) \/ SetPointer(w)
  \/ SetToc(w, "toc", "pending", "enqueue-detect")
  \/ EnqueueDetect(w)
  \/ SetStatus(w, "ready", "ready", "done")

-----------------------------------------------------------------------------
(* process_toc_detection *)

InsertChapters(w) ==
  /\ At(w, "insert-chapters")
  /\ IF Listed(D(w)) # {}
     THEN Abandon(w)     \* unique violation, as in CopyTree
     ELSE /\ frame' = [frame EXCEPT ![w] = [@ EXCEPT !.next = "enqueue-fills", !.todo = Chapters]]
          /\ chapters' = [chapters EXCEPT ![D(w)] = [c \in Chapters |-> "pending"]]
          /\ UNCHANGED <<content, objects, doc, jobs>>
  /\ UNCHANGED faults

\* Mutant of EnqueueFill: only the first chapter gets its job.
EnqueueFirst(w) ==
  /\ At(w, "enqueue-fills")
  /\ \E c \in frame[w].todo :
       /\ \A b \in frame[w].todo : c <= b
       /\ Enqueue("fill_textbook_chapter", D(w), c)
       /\ frame' = [frame EXCEPT ![w] = [@ EXCEPT !.next = "done"]]
  /\ UNCHANGED <<content, objects, doc, chapters, faults>>

EnqueueFill(w) ==
  /\ At(w, "enqueue-fills")
  /\ \E c \in frame[w].todo :
       /\ \A b \in frame[w].todo : c <= b
       /\ Enqueue("fill_textbook_chapter", D(w), c)
       /\ frame' = [frame EXCEPT ![w] = [frame[w] EXCEPT !.todo = @ \ {c},
                      !.next = IF frame[w].todo = {c} THEN "done" ELSE @]]
  /\ UNCHANGED <<content, objects, doc, chapters, faults>>

DetectToc(w) ==
  \/ /\ At(w, "detect")
     /\ IF HasToc(D(w)) /\ Chapters # {}
        THEN Goto(w, "detect", "build")
        ELSE SetToc(w, "detect", "no_toc_found", "done")
  \/ SetToc(w, "build", "building", "insert-chapters")
  \/ InsertChapters(w) \/ EnqueueFill(w)

-----------------------------------------------------------------------------
(* process_chapter_fill *)

SetChapter(w, s, status, to) ==
  /\ Step(w, s, to)
  /\ chapters' = [chapters EXCEPT ![D(w)][C(w)] = status]
  /\ UNCHANGED <<content, objects, doc, jobs, faults>>

\* Mutant of SetContent: writes the markdown and leaves the status.
SetMarkdown(w) == SetChapter(w, "write-chapter", "filling", "write-sections")

SetContent(w) == SetChapter(w, "write-chapter", "ready", "write-sections")

\* Mutant of Unfinished: forgets the chapters being filled.
Unstarted(d) == {c \in Chapters : chapters[d][c] = "pending"}

Unfinished(d) == {c \in Chapters : chapters[d][c] \in {"pending", "filling"}}

\* lock_document_row, the count and, if it is 0, the book's pointer: one transaction.
CountAndPoint(w) ==
  /\ At(w, "count")
  /\ IF Unfinished(D(w)) = {}
     THEN /\ Step(w, "count", "book-ready")
          /\ doc' = [doc EXCEPT ![D(w)].pointer = "book"]
     ELSE Step(w, "count", "done") /\ UNCHANGED doc
  /\ UNCHANGED <<content, objects, chapters, jobs, faults>>

FillChapter(w) ==
  \/ /\ At(w, "fill")
     /\ IF chapters[D(w)][C(w)] = "ready"
        THEN Goto(w, "fill", "done")
        ELSE SetChapter(w, "fill", "filling", "locate")
  \/ /\ At(w, "locate")
     /\ IF C(w) \in LostChapters
        THEN SetChapter(w, "locate", "failed", "done")
        ELSE Goto(w, "locate", "write-chapter")
  \/ SetContent(w)
  \/ Goto(w, "write-sections", "count")
  \/ CountAndPoint(w)
  \/ SetToc(w, "book-ready", "ready", "done")

-----------------------------------------------------------------------------
Work(w) ==
  \/ Claim(w) \/ MarkDone(w) \/ FailForGood(w)
  \/ Begin(w) \/ Resume(w) \/ Scan(w) \/ ScanNotFound(w) \/ Reject(w) \/ Quarantine(w)
  \/ MoveToSafe(w) \/ SetSafeKey(w) \/ SetHash(w)
  \/ FindDuplicate(w) \/ Deduplicate(w) \/ ExtractFails(w) \/ Index(w)
  \/ DetectToc(w) \/ FillChapter(w)

Next ==
  \/ \E d \in Docs : PutRaw(d) \/ InsertDocument(d) \/ InsertJob(d)
  \/ \E n \in 1 .. MaxJobs : Reclaim(n)
  \/ \E w \in Workers : Work(w) \/ CallFails(w) \/ Crash(w)

Spec == Init /\ [][Next]_vars

\* Workers poll and every call of theirs returns (the HTTP clients have timeouts);
\* requests promise nothing.
FairSpec ==
  /\ Spec
  /\ \A w \in Workers : WF_vars(Work(w))
  /\ \A n \in 1 .. MaxJobs : WF_vars(Reclaim(n))

-----------------------------------------------------------------------------
(* Properties. *)

\* Whatever dies during a move, an upload's bytes are in some bucket, and in the
\* one its row points to (move_object, s3.py:38-45; pipeline.py:94-99).
NoBytesLost ==
  \A d \in Docs : doc[d].status # "absent" =>
    objects[d] # {} /\ (doc[d].safeKey => "safe" \in objects[d])

\* Uploads checked at the same time do not both slip under the quota, retries
\* included (policy.py:45-50).
QuotaHolds == Used({d \in Docs : doc[d].status = "ready"}) <= Quota

\* A ready upload has its text and a pointer, whichever way it got them: extracted,
\* resumed or copied from a duplicate that other workers are still at.
ReadyHasText ==
  \A d \in Docs : doc[d].status = "ready" => doc[d].chunks # "none" /\ doc[d].pointer # "none"

\* A book is declared ready only when none of its chapters waits or is being
\* filled (chapters.py:200-205).
BookReadyWhenFilled ==
  [][\A d \in Docs : doc'[d].toc = "ready" /\ doc[d].toc # "ready" =>
       \A c \in Chapters : chapters[d][c] \notin {"pending", "filling"}]_vars

\* A ready textbook whose tree is unfinished has a job that will finish it.
TreeHasAJob ==
  \A d \in Docs : doc[d].status = "ready" /\ doc[d].toc \in {"pending", "building"} =>
    \E n \in DOMAIN jobs : jobs[n].doc = d /\ jobs[n].status \in {"pending", "running"}

\* Every upload that has its job ends: rejected, ready with its tree settled, or,
\* when its text cannot be extracted, with a job that has failed for good.
UploadsSettle ==
  \A d \in Docs :
    HasJob(d) ~> \/ doc[d].status \in {"failed", "quarantined"}
                 \/ /\ doc[d].status = "ready"
                    /\ doc[d].toc \notin {"pending", "building"}
                 \/ /\ Corrupt(d)
                    /\ \E n \in DOMAIN jobs : jobs[n].doc = d /\ jobs[n].status = "failed"
=============================================================================
