------------------------ MODULE IngestPipelineProofs ------------------------
(***************************************************************************)
(* Proofs about IngestPipeline, for any uploads, contents, chapters,       *)
(* workers, quota, attempts and faults.  Types says who holds which row of *)
(* the queue; Known and Grown say what a worker between two commits can    *)
(* count on while the others go on, a crash or a retry included.           *)
(* Trees says which job will go on with a book, Paid what the uploads that *)
(* passed the policy add up to.                                            *)
(***************************************************************************)
EXTENDS IngestPipeline, SetLemmas, SequenceTheorems

-----------------------------------------------------------------------------
(* The inductive invariant. *)

Data ==
  /\ content \in [Docs -> Files]
  /\ objects \in [Docs -> SUBSET {"raw", "safe", "quarantine"}]
  /\ doc \in [Docs -> Doc]
  /\ chapters \in [Docs -> [Chapters -> ChapterStatus]]
  /\ faults \in 0 .. MaxFaults

\* A row that may run again has attempts left.
Rows ==
  /\ jobs \in Seq(Job) /\ Len(jobs) <= MaxJobs
  /\ \A n \in DOMAIN jobs :
       jobs[n].status \in {"pending", "running"} => jobs[n].attempts < MaxAttempts

\* A worker holds the row it runs, and holds it alone.
Held ==
  /\ frame \in [Workers -> Frame]
  /\ \A w \in Workers :
       IF frame[w].next = "idle" THEN frame[w].job = None
       ELSE frame[w].job \in DOMAIN jobs /\ jobs[frame[w].job].status = "running"
  /\ \A w, v \in Workers : frame[w].job = frame[v].job /\ frame[w].job # None => w = v

Types == Data /\ Rows /\ Held

-----------------------------------------------------------------------------
(* Records and rows. *)

LEMMA IdleType ==
  /\ Idle \in Frame
  /\ Idle.next = "idle" /\ Idle.job = None /\ Idle.dup = None
BY DEF Idle, Frame, Statement, Pointer, TocStatus

Claimed(s, n) == [Idle EXCEPT !.next = s, !.job = n]

LEMMA ClaimedType ==
  ASSUME NEW s \in Statement, NEW n \in 1 .. MaxJobs
  PROVE  Claimed(s, n) \in Frame /\ Claimed(s, n).next = s /\ Claimed(s, n).job = n
BY IdleType DEF Claimed, Frame

LEMMA GoesType ==
  ASSUME NEW f \in Frame, NEW to \in Statement
  PROVE  LET g == [f EXCEPT !.next = to] IN
         /\ g \in Frame /\ g.next = to /\ g.job = f.job /\ g.dup = f.dup
         /\ g.pointer = f.pointer /\ g.toc = f.toc /\ g.todo = f.todo
BY DEF Frame

\* What one UPDATE of a documents row leaves of it.
LEMMA DocStatus ==
  ASSUME doc \in [Docs -> Doc], NEW d \in Docs,
         NEW s \in {"absent", "scanning", "extracting", "indexing", "ready", "failed", "quarantined"},
         doc' = [doc EXCEPT ![d].status = s]
  PROVE  /\ doc' \in [Docs -> Doc] /\ doc'[d].status = s
         /\ \A e \in Docs : e # d => doc'[e] = doc[e]
         /\ \A e \in Docs : /\ doc'[e].chunks = doc[e].chunks /\ doc'[e].pointer = doc[e].pointer
                            /\ doc'[e].safeKey = doc[e].safeKey /\ doc'[e].toc = doc[e].toc
BY DEF Doc

LEMMA DocToc ==
  ASSUME doc \in [Docs -> Doc], NEW d \in Docs, NEW t \in TocStatus,
         doc' = [doc EXCEPT ![d].toc = t]
  PROVE  /\ doc' \in [Docs -> Doc] /\ doc'[d].toc = t
         /\ \A e \in Docs : e # d => doc'[e] = doc[e]
         /\ \A e \in Docs : /\ doc'[e].chunks = doc[e].chunks /\ doc'[e].pointer = doc[e].pointer
                            /\ doc'[e].safeKey = doc[e].safeKey /\ doc'[e].status = doc[e].status
BY DEF Doc

LEMMA DocChunks ==
  ASSUME doc \in [Docs -> Doc], NEW d \in Docs, NEW c \in {"none", "text", "embedded"},
         doc' = [doc EXCEPT ![d].chunks = c]
  PROVE  /\ doc' \in [Docs -> Doc] /\ doc'[d].chunks = c
         /\ \A e \in Docs : e # d => doc'[e] = doc[e]
         /\ \A e \in Docs : /\ doc'[e].toc = doc[e].toc /\ doc'[e].pointer = doc[e].pointer
                            /\ doc'[e].safeKey = doc[e].safeKey /\ doc'[e].status = doc[e].status
BY DEF Doc

LEMMA DocPointer ==
  ASSUME doc \in [Docs -> Doc], NEW d \in Docs, NEW p \in Pointer,
         doc' = [doc EXCEPT ![d].pointer = p]
  PROVE  /\ doc' \in [Docs -> Doc] /\ doc'[d].pointer = p
         /\ \A e \in Docs : e # d => doc'[e] = doc[e]
         /\ \A e \in Docs : /\ doc'[e].toc = doc[e].toc /\ doc'[e].chunks = doc[e].chunks
                            /\ doc'[e].safeKey = doc[e].safeKey /\ doc'[e].status = doc[e].status
BY DEF Doc

LEMMA DocKeys ==
  ASSUME doc \in [Docs -> Doc], NEW d \in Docs,
         \/ doc' = [doc EXCEPT ![d].safeKey = TRUE]
         \/ doc' = [doc EXCEPT ![d].sha = TRUE]
  PROVE  /\ doc' \in [Docs -> Doc]
         /\ \A e \in Docs : e # d => doc'[e] = doc[e]
         /\ \A e \in Docs : /\ doc'[e].toc = doc[e].toc /\ doc'[e].chunks = doc[e].chunks
                            /\ doc'[e].pointer = doc[e].pointer /\ doc'[e].status = doc[e].status
<1>1. ASSUME NEW r \in Doc, doc' = [doc EXCEPT ![d] = r], r.toc = doc[d].toc,
             r.chunks = doc[d].chunks, r.pointer = doc[d].pointer, r.status = doc[d].status
      PROVE  /\ doc' \in [Docs -> Doc]
             /\ \A e \in Docs : e # d => doc'[e] = doc[e]
             /\ \A e \in Docs : /\ doc'[e].toc = doc[e].toc /\ doc'[e].chunks = doc[e].chunks
                                /\ doc'[e].pointer = doc[e].pointer /\ doc'[e].status = doc[e].status
  BY <1>1
<1>2. doc[d] \in Doc /\ TRUE \in BOOLEAN
  OBVIOUS
<1>3. CASE doc' = [doc EXCEPT ![d].safeKey = TRUE]
  <2> DEFINE r == [doc[d] EXCEPT !.safeKey = TRUE]
  <2>1. r \in Doc
    BY <1>2, Zenon DEF Doc
  <2>2. /\ r.toc = doc[d].toc /\ r.chunks = doc[d].chunks /\ r.pointer = doc[d].pointer
        /\ r.status = doc[d].status
    BY <1>2 DEF Doc
  <2>3. QED
    BY <1>1, <1>3, <2>1, <2>2
<1>4. CASE doc' = [doc EXCEPT ![d].sha = TRUE]
  <2> DEFINE r == [doc[d] EXCEPT !.sha = TRUE]
  <2>1. r \in Doc
    BY <1>2, Zenon DEF Doc
  <2>2. /\ r.toc = doc[d].toc /\ r.chunks = doc[d].chunks /\ r.pointer = doc[d].pointer
        /\ r.status = doc[d].status
    BY <1>2 DEF Doc
  <2>3. QED
    BY <1>1, <1>4, <2>1, <2>2
<1>5. QED
  BY <1>3, <1>4

Updated(j, a, s) == [j EXCEPT !.attempts = a, !.status = s]

\* An UPDATE of the status alone.
LEMMA StatusUpdated ==
  ASSUME NEW j \in Job, NEW s
  PROVE  [j EXCEPT !.status = s] = Updated(j, j.attempts, s)
BY DEF Updated, Job

\* A write to one row of the queue that leaves what the row is about.
LEMMA RowWritten ==
  ASSUME Rows, NEW n \in DOMAIN jobs, NEW a \in 0 .. MaxAttempts,
         NEW s \in {"pending", "running", "done", "failed"},
         jobs' = [jobs EXCEPT ![n] = Updated(jobs[n], a, s)],
         s \in {"pending", "running"} => a < MaxAttempts
  PROVE  /\ Rows' /\ DOMAIN jobs' = DOMAIN jobs
         /\ jobs'[n].status = s
         /\ \A m \in DOMAIN jobs : m # n => jobs'[m] = jobs[m]
         /\ \A m \in DOMAIN jobs : /\ jobs'[m].doc = jobs[m].doc /\ jobs'[m].kind = jobs[m].kind
                                   /\ jobs'[m].chapter = jobs[m].chapter
<1> DEFINE j == Updated(jobs[n], a, s)
<1>1. jobs \in Seq(Job) /\ DOMAIN jobs = 1 .. Len(jobs)
  BY LenProperties DEF Rows
<1>2. jobs[n] \in Job
  BY <1>1, ElementOfSeq
<1>3. /\ j \in Job /\ j.status = s /\ j.attempts = a /\ j.doc = jobs[n].doc
      /\ j.kind = jobs[n].kind /\ j.chapter = jobs[n].chapter
  BY <1>2 DEF Job, Updated
<1>4. jobs' = [jobs EXCEPT ![n] = j]
  OBVIOUS
<1> HIDE DEF j
<1>5. /\ jobs' \in Seq(Job) /\ Len(jobs') = Len(jobs)
      /\ \A m \in 1 .. Len(jobs) : jobs'[m] = IF m = n THEN j ELSE jobs[m]
  BY <1>1, <1>3, <1>4, ExceptSeq
<1>6. DOMAIN jobs' = DOMAIN jobs
  BY <1>1, <1>4
<1>7. Rows'
  BY <1>1, <1>3, <1>5, <1>6 DEF Rows
<1>8. QED
  BY <1>1, <1>3, <1>5, <1>6, <1>7

\* A row inserted behind the others.
LEMMA RowInserted ==
  ASSUME Rows, NEW k \in {"ingest_document", "detect_textbook_toc", "fill_textbook_chapter"},
         NEW d \in Docs, NEW c \in Chapters \cup {None}, Enqueue(k, d, c)
  PROVE  /\ Rows' /\ DOMAIN jobs \subseteq DOMAIN jobs'
         /\ \A m \in DOMAIN jobs : jobs'[m] = jobs[m]
         /\ \A m \in DOMAIN jobs' : m \in DOMAIN jobs \/ jobs'[m] = Pending(k, d, c)
         /\ Pending(k, d, c).kind = k /\ Pending(k, d, c).doc = d /\ Pending(k, d, c).chapter = c
<1>1. jobs \in Seq(Job) /\ DOMAIN jobs = 1 .. Len(jobs) /\ Len(jobs) \in Nat
  BY LenProperties DEF Rows
<1>2. MaxAttempts \in Nat /\ MaxAttempts # 0 /\ MaxJobs \in Nat
  BY IngestAssumption
<1>3. /\ Pending(k, d, c) \in Job /\ Pending(k, d, c).attempts = 0
      /\ Pending(k, d, c).kind = k /\ Pending(k, d, c).doc = d /\ Pending(k, d, c).chapter = c
  BY <1>2 DEF Pending, Job
<1>4. Len(jobs) < MaxJobs /\ jobs' = Append(jobs, Pending(k, d, c))
  BY DEF Enqueue
<1>5. /\ jobs' \in Seq(Job) /\ Len(jobs') = Len(jobs) + 1
      /\ \A m \in 1 .. Len(jobs) : jobs'[m] = jobs[m]
      /\ jobs'[Len(jobs) + 1] = Pending(k, d, c)
  BY <1>1, <1>3, <1>4, AppendProperties
<1>6. DOMAIN jobs' = 1 .. Len(jobs) + 1
  <2>1. DOMAIN jobs' = 1 .. Len(jobs')
    BY <1>5, LenProperties
  <2>2. QED
    BY <1>5, <2>1
<1>7. \A m \in DOMAIN jobs' : m \in DOMAIN jobs \/ jobs'[m] = Pending(k, d, c)
  BY <1>1, <1>5, <1>6
<1>8. Len(jobs') <= MaxJobs
  BY <1>1, <1>2, <1>4, <1>5
<1>9. Rows'
  BY <1>1, <1>2, <1>3, <1>5, <1>7, <1>8 DEF Rows
<1>10. QED
  BY <1>1, <1>3, <1>5, <1>6, <1>7, <1>9

-----------------------------------------------------------------------------
(* Held: the moves of a worker. *)

\* No row has the number None.
LEMMA JobIsNotNone ==
  ASSUME Held, Rows, NEW w \in Workers, frame[w].next # "idle"
  PROVE  frame[w].job \in DOMAIN jobs /\ frame[w].job # None /\ frame[w].job \in 1 .. MaxJobs
<1>1. frame[w].job \in DOMAIN jobs /\ DOMAIN jobs = 1 .. Len(jobs) /\ Len(jobs) \in Nat
  BY LenProperties DEF Held, Rows
<1>2. None \notin Nat /\ MaxJobs \in Nat
  BY IngestAssumption
<1>3. QED
  BY <1>1, <1>2 DEF Rows

\* It goes on with its row.
LEMMA HeldGoesOn ==
  ASSUME Held, NEW w \in Workers, NEW f \in Frame, frame' = [frame EXCEPT ![w] = f],
         frame[w].next # "idle", f.next # "idle", f.job = frame[w].job,
         DOMAIN jobs \subseteq DOMAIN jobs', \A n \in DOMAIN jobs : jobs'[n] = jobs[n]
  PROVE  Held'
<1>1. frame' \in [Workers -> Frame] /\ \A v \in Workers : frame'[v] = IF v = w THEN f ELSE frame[v]
  BY DEF Held
<1>2. \A v \in Workers : frame'[v].job = frame[v].job
  BY <1>1
<1>3. \A v \in Workers : frame'[v].next = "idle" <=> frame[v].next = "idle"
  BY <1>1
<1>4. QED
  BY <1>1, <1>2, <1>3 DEF Held

\* It is done with its row, whatever it wrote there.
LEMMA HeldFreed ==
  ASSUME Held, Rows, NEW w \in Workers, frame' = [frame EXCEPT ![w] = Idle],
         DOMAIN jobs' = DOMAIN jobs,
         \A n \in DOMAIN jobs : n # frame[w].job => jobs'[n] = jobs[n]
  PROVE  Held'
<1>1. frame' \in [Workers -> Frame] /\ \A v \in Workers : frame'[v] = IF v = w THEN Idle ELSE frame[v]
  BY IdleType DEF Held
<1>2. ASSUME NEW v \in Workers, v # w, frame[v].next # "idle"
      PROVE  frame[v].job \in DOMAIN jobs /\ frame[v].job # frame[w].job
  <2>1. frame[v].job \in DOMAIN jobs /\ frame[v].job # None
    BY <1>2, JobIsNotNone DEF Held
  <2>2. QED
    BY <1>2, <2>1 DEF Held
<1>3. \A v \in Workers :
        IF frame'[v].next = "idle" THEN frame'[v].job = None
        ELSE frame'[v].job \in DOMAIN jobs' /\ jobs'[frame'[v].job].status = "running"
  BY <1>1, <1>2, IdleType DEF Held
<1>4. \A u, v \in Workers : frame'[u].job = frame'[v].job /\ frame'[u].job # None => u = v
  BY <1>1, IdleType DEF Held
<1>5. QED
  BY <1>1, <1>3, <1>4 DEF Held

-----------------------------------------------------------------------------
(* The moves of a worker, by what they write. *)

\* Nothing but the next statement.
GoMove(s, to) ==
  \/ s = "begin" /\ to = "resume"
  \/ s = "resume" /\ to = "dedup"
  \/ s = "scan" /\ to \in {"quarantine-copy", "reject", "safe-copy"}
  \/ s = "detect" /\ to = "build"
  \/ s \in {"fill", "count"} /\ to = "done"
  \/ s = "locate" /\ to = "write-chapter"
  \/ s = "write-sections" /\ to = "count"

\* The status of the documents row.
StatusMove(s, status, to) ==
  \/ s = "begin" /\ status = "scanning" /\ to = "scan"
  \/ s \in {"reject", "no-text"} /\ status = "failed" /\ to = "permanent"
  \/ s = "quarantine-status" /\ status = "quarantined" /\ to = "permanent"
  \/ s = "copy-status" /\ status = "indexing" /\ to = "copy-chunks"
  \/ s = "extract" /\ status = "extracting" /\ to = "chunk"
  \/ s = "index" /\ status = "indexing" /\ to = "embed"
  \/ s \in {"copied", "ready"} /\ status = "ready" /\ to = "done"

\* Its toc_status.
TocMove(s, toc, to) ==
  \/ s = "copy-toc" /\ to = "copied"
  \/ s = "toc" /\ toc = "pending" /\ to = "enqueue-detect"
  \/ s = "detect" /\ toc = "no_toc_found" /\ to = "done"
  \/ s = "build" /\ toc = "building" /\ to = "insert-chapters"
  \/ s = "book-ready" /\ toc = "ready" /\ to = "done"

\* A bucket.
CopyMove(s, bucket, to) ==
  \/ s = "quarantine-copy" /\ bucket = "quarantine" /\ to = "quarantine-delete"
  \/ s = "safe-copy" /\ bucket = "safe" /\ to = "safe-delete"

DeleteMove(s, to) ==
  \/ s = "quarantine-delete" /\ to = "quarantine-status"
  \/ s = "safe-delete" /\ to = "safe-key"

\* A chapter.
ChapterMove(w, s, status, to) ==
  \/ s = "fill" /\ status = "filling" /\ to = "locate" /\ chapters[D(w)][C(w)] # "ready"
  \/ s = "locate" /\ status = "failed" /\ to = "done" /\ C(w) \in LostChapters
  \/ s = "write-chapter" /\ status = "ready" /\ to = "write-sections"

\* CountAndPoint when every chapter is done.
Points(w) ==
  /\ Unfinished(D(w)) = {} /\ Step(w, "count", "book-ready")
  /\ doc' = [doc EXCEPT ![D(w)].pointer = "book"]
  /\ UNCHANGED <<content, objects, chapters, jobs, faults>>

\* CopyTree when no chapter is there twice.
CopiesTree(w) ==
  /\ Listed(D(w)) \cap Listed(frame[w].dup) = {} /\ Step(w, "copy-tree", "copy-toc")
  /\ chapters' = [chapters EXCEPT ![D(w)] = [c \in Chapters |->
       IF chapters[frame[w].dup][c] # "none" THEN chapters[frame[w].dup][c] ELSE @[c]]]
  /\ UNCHANGED <<content, objects, doc, jobs, faults>>

Moves(w) ==
  \/ \E s, to \in Statement :
       /\ GoMove(s, to) /\ Goto(w, s, to)
       /\ (s = "count" => Unfinished(D(w)) # {}) /\ (s = "detect" => Chapters # {})
       /\ (s = "fill" => chapters[D(w)][C(w)] = "ready")
       /\ (s = "begin" => doc[D(w)].safeKey)
       /\ (to = "safe-copy" => ~RejectedByPolicy(D(w)))
  \/ \E s, to \in Statement, status \in {"scanning", "extracting", "indexing", "ready", "failed", "quarantined"} :
       StatusMove(s, status, to) /\ SetStatus(w, s, status, to) /\ (s = "begin" => ~doc[D(w)].safeKey)
  \/ \E s, to \in Statement, toc \in TocStatus :
       TocMove(s, toc, to) /\ (s = "copy-toc" => toc = frame[w].toc) /\ SetToc(w, s, toc, to)
  \/ \E s, to \in Statement, bucket \in {"safe", "quarantine"} :
       CopyMove(s, bucket, to) /\ Copy(w, s, bucket, to)
  \/ \E s, to \in Statement : DeleteMove(s, to) /\ Delete(w, s, to)
  \/ \E s, to \in Statement, status \in ChapterStatus :
       ChapterMove(w, s, status, to) /\ SetChapter(w, s, status, to)
  \/ SetSafeKey(w) \/ SetHash(w) \/ CopyChunks(w) \/ CopyPointer(w) \/ InsertChunks(w)
  \/ Embed(w) \/ SetPointer(w) \/ Points(w) \/ CopiesTree(w)

\* InsertChapters when there is none yet.
ListsChapters(w) ==
  /\ At(w, "insert-chapters") /\ Listed(D(w)) = {}
  /\ frame' = [frame EXCEPT ![w] = [frame[w] EXCEPT !.next = "enqueue-fills", !.todo = Chapters]]
  /\ chapters' = [chapters EXCEPT ![D(w)] = [c \in Chapters |-> "pending"]]
  /\ UNCHANGED <<content, objects, doc, jobs, faults>>

\* The steps that end with a free worker.
Frees(w) ==
  /\ ~At(w, "idle")
  /\ \/ MarkDone(w)
     \/ \E permanent \in BOOLEAN : MarkFailed(w, permanent) /\ faults' \in {faults, faults + 1}
     \/ Abandon(w) /\ faults' \in {faults, faults + 1}
  /\ faults' # faults => faults < MaxFaults
  /\ \/ frame[w].next \in {"done", "permanent", "scan", "chunk"}
     \/ frame[w].next \in {"copy-tree", "insert-chapters"} /\ Abandon(w)
     \/ faults' # faults

LEMMA StatementIs ==
  {"idle", "begin", "resume", "scan", "reject", "quarantine-copy", "quarantine-delete", "quarantine-status",
   "safe-copy", "safe-delete", "safe-key", "hash", "dedup", "copy-status", "copy-chunks",
   "copy-pointer", "copy-tree", "copy-toc", "copied", "extract", "chunk", "no-text", "index",
   "embed", "point", "toc", "enqueue-detect", "ready", "detect", "build", "insert-chapters",
   "enqueue-fills", "fill", "locate", "write-chapter", "write-sections", "count", "book-ready",
   "done", "permanent"} \subseteq Statement
BY DEF Statement

LEMMA WorkCases ==
  ASSUME Types, NEW w \in Workers, Work(w) \/ CallFails(w) \/ Crash(w)
  PROVE  \/ Claim(w) \/ Frees(w) \/ Moves(w) \/ FindDuplicate(w) \/ EnqueueDetect(w)
         \/ ListsChapters(w) \/ EnqueueFill(w)
<1>0. frame[w] \in Frame /\ frame[w].toc \in TocStatus /\ faults + 1 # faults
  <2>1. MaxFaults \in Nat
    BY IngestAssumption
  <2>2. QED
    BY <2>1 DEF Types, Data, Held, Frame
<1>1. CASE MarkDone(w) \/ FailForGood(w) \/ ScanNotFound(w) \/ ExtractFails(w) \/ CallFails(w) \/ Crash(w)
  BY <1>0, <1>1 DEF MarkDone, FailForGood, ScanNotFound, ExtractFails, CallFails, Crash, Frees, At, ExternalCalls
<1>2. ASSUME NEW s \in Statement, NEW to \in Statement, GoMove(s, to), Goto(w, s, to),
             s = "count" => Unfinished(D(w)) # {}, s = "detect" => Chapters # {},
             s = "fill" => chapters[D(w)][C(w)] = "ready", s = "begin" => doc[D(w)].safeKey,
             to = "safe-copy" => ~RejectedByPolicy(D(w))
      PROVE  Moves(w)
  BY <1>2 DEF Moves
<1>3. ASSUME NEW s \in Statement, NEW to \in Statement,
             NEW status \in {"scanning", "extracting", "indexing", "ready", "failed", "quarantined"},
             StatusMove(s, status, to), SetStatus(w, s, status, to),
             s = "begin" => ~doc[D(w)].safeKey
      PROVE  Moves(w)
  BY <1>3 DEF Moves
<1>4. ASSUME NEW s \in Statement, NEW to \in Statement, NEW toc \in TocStatus,
             TocMove(s, toc, to), s = "copy-toc" => toc = frame[w].toc, SetToc(w, s, toc, to)
      PROVE  Moves(w)
  BY <1>4 DEF Moves
<1>5. ASSUME NEW s \in Statement, NEW to \in Statement, NEW status \in ChapterStatus,
             ChapterMove(w, s, status, to), SetChapter(w, s, status, to)
      PROVE  Moves(w)
  BY <1>5 DEF Moves
<1>6. CASE Begin(w) \/ Resume(w)
  BY <1>2, <1>3, <1>6, StatementIs DEF Begin, Resume, GoMove, StatusMove
<1>7. CASE Scan(w)
  <2>1. PICK to \in {"quarantine-copy", "reject", "safe-copy"} :
          Goto(w, "scan", to) /\ (to = "safe-copy" => ~RejectedByPolicy(D(w)))
    BY <1>7 DEF Scan
  <2>2. QED
    BY <1>2, <2>1, StatementIs DEF GoMove
<1>8. CASE Reject(w)
  BY <1>3, <1>8, StatementIs DEF Reject, StatusMove
<1>9. CASE Quarantine(w)
  <2>1. CASE Copy(w, "quarantine-copy", "quarantine", "quarantine-delete")
    BY <2>1, StatementIs DEF Moves, CopyMove
  <2>2. CASE Delete(w, "quarantine-delete", "quarantine-status")
    BY <2>2, StatementIs DEF Moves, DeleteMove
  <2>3. CASE SetStatus(w, "quarantine-status", "quarantined", "permanent")
    BY <1>3, <2>3, StatementIs DEF StatusMove
  <2>4. QED
    BY <1>9, <2>1, <2>2, <2>3 DEF Quarantine
<1>10. CASE MoveToSafe(w)
  <2>1. CASE Copy(w, "safe-copy", "safe", "safe-delete")
    BY <2>1, StatementIs DEF Moves, CopyMove
  <2>2. CASE Delete(w, "safe-delete", "safe-key")
    BY <2>2, StatementIs DEF Moves, DeleteMove
  <2>3. QED
    BY <1>10, <2>1, <2>2 DEF MoveToSafe
<1>11. CASE Deduplicate(w)
  <2>1. CASE SetStatus(w, "copy-status", "indexing", "copy-chunks")
    BY <1>3, <2>1, StatementIs DEF StatusMove
  <2>2. CASE CopyChunks(w) \/ CopyPointer(w)
    BY <2>2 DEF Moves
  <2>3. CASE CopyTree(w)
    <3>1. CASE Listed(D(w)) \cap Listed(frame[w].dup) # {}
      BY <2>3, <3>1 DEF CopyTree, Frees, At
    <3>2. CASE Listed(D(w)) \cap Listed(frame[w].dup) = {}
      BY <2>3, <3>2 DEF CopyTree, CopiesTree, Moves
    <3>3. QED
      BY <3>1, <3>2
  <2>4. CASE SetToc(w, "copy-toc", frame[w].toc, "copied")
    BY <1>0, <1>4, <2>4, StatementIs DEF TocMove
  <2>5. CASE SetStatus(w, "copied", "ready", "done")
    BY <1>3, <2>5, StatementIs DEF StatusMove
  <2>6. QED
    BY <1>11, <2>1, <2>2, <2>3, <2>4, <2>5 DEF Deduplicate
<1>12. CASE Index(w)
  <2>1. CASE InsertChunks(w) \/ Embed(w) \/ SetPointer(w)
    BY <2>1 DEF Moves
  <2>2. CASE SetToc(w, "toc", "pending", "enqueue-detect")
    BY <1>4, <2>2, StatementIs DEF TocMove, TocStatus
  <2>3. CASE SetStatus(w, "extract", "extracting", "chunk")
    BY <1>3, <2>3, StatementIs DEF StatusMove
  <2>4. CASE SetStatus(w, "no-text", "failed", "permanent")
    BY <1>3, <2>4, StatementIs DEF StatusMove
  <2>5. CASE SetStatus(w, "index", "indexing", "embed")
    BY <1>3, <2>5, StatementIs DEF StatusMove
  <2>6. CASE SetStatus(w, "ready", "ready", "done")
    BY <1>3, <2>6, StatementIs DEF StatusMove
  <2>7. QED
    BY <1>12, <2>1, <2>2, <2>3, <2>4, <2>5, <2>6 DEF Index
<1>13. CASE DetectToc(w)
  <2>1. CASE Chapters # {} /\ Goto(w, "detect", "build")
    BY <1>2, <2>1, StatementIs DEF GoMove
  <2>2. CASE SetToc(w, "detect", "no_toc_found", "done")
    BY <1>4, <2>2, StatementIs DEF TocMove, TocStatus
  <2>3. CASE SetToc(w, "build", "building", "insert-chapters")
    BY <1>4, <2>3, StatementIs DEF TocMove, TocStatus
  <2>4. CASE InsertChapters(w)
    <3>1. CASE Listed(D(w)) # {}
      BY <2>4, <3>1 DEF InsertChapters, Frees, At
    <3>2. CASE Listed(D(w)) = {}
      BY <2>4, <3>2 DEF InsertChapters, ListsChapters
    <3>3. QED
      BY <3>1, <3>2
  <2>5. QED
    BY <1>13, <2>1, <2>2, <2>3, <2>4 DEF DetectToc
<1>14. CASE FillChapter(w)
  <2>1. CASE \/ chapters[D(w)][C(w)] = "ready" /\ Goto(w, "fill", "done")
             \/ Goto(w, "locate", "write-chapter") \/ Goto(w, "write-sections", "count")
    BY <1>2, <2>1, StatementIs DEF GoMove
  <2>2. CASE chapters[D(w)][C(w)] # "ready" /\ SetChapter(w, "fill", "filling", "locate")
    BY <1>5, <2>2, StatementIs DEF ChapterMove, ChapterStatus
  <2>3. CASE C(w) \in LostChapters /\ SetChapter(w, "locate", "failed", "done")
    BY <1>5, <2>3, StatementIs DEF ChapterMove, ChapterStatus
  <2>4. CASE SetContent(w)
    BY <1>5, <2>4, StatementIs DEF SetContent, ChapterMove, ChapterStatus
  <2>5. CASE CountAndPoint(w)
    <3>1. CASE Unfinished(D(w)) = {}
      BY <2>5, <3>1 DEF CountAndPoint, Points, Moves
    <3>2. CASE Unfinished(D(w)) # {}
      <4>1. Goto(w, "count", "done")
        BY <2>5, <3>2 DEF CountAndPoint, Goto
      <4>2. QED
        BY <1>2, <3>2, <4>1, StatementIs DEF GoMove
    <3>3. QED
      BY <3>1, <3>2
  <2>6. CASE SetToc(w, "book-ready", "ready", "done")
    BY <1>4, <2>6, StatementIs DEF TocMove, TocStatus
  <2>7. QED
    BY <1>14, <2>1, <2>2, <2>3, <2>4, <2>5, <2>6 DEF FillChapter
<1>15. CASE SetSafeKey(w) \/ SetHash(w)
  BY <1>15 DEF Moves
<1>16. QED
  BY <1>1, <1>6, <1>7, <1>8, <1>9, <1>10, <1>11, <1>12, <1>13, <1>14, <1>15 DEF Work, DetectToc

-----------------------------------------------------------------------------
(* What a worker can count on. *)

Copying     == {"copy-status", "copy-chunks", "copy-pointer", "copy-tree"}
WithText    == {"copy-pointer", "copy-tree", "copy-toc", "copied",
                "index", "embed", "point", "toc", "enqueue-detect", "ready"}
WithPointer == {"copy-tree", "copy-toc", "copied", "toc", "enqueue-detect", "ready"}
Filling     == {"fill", "locate", "write-chapter", "write-sections", "count"}

DocKnown(d) ==
  /\ doc[d].status # "absent" => objects[d] # {}
  /\ doc[d].safeKey => "safe" \in objects[d]
  /\ doc[d].status = "ready" => doc[d].chunks # "none" /\ doc[d].pointer # "none"

AllListed(d) == \A c \in Chapters : chapters[d][c] # "none"
AllReady(d)  == \A c \in Chapters : chapters[d][c] = "ready"

RowKnown(n) ==
  /\ doc[jobs[n].doc].status # "absent"
  /\ jobs[n].kind = "fill_textbook_chapter" => AllListed(jobs[n].doc)

WorkerKnown(w) ==
  /\ frame[w].next = "quarantine-delete" => "quarantine" \in objects[D(w)]
  /\ frame[w].next \in {"safe-delete", "safe-key"} => "safe" \in objects[D(w)]
  /\ frame[w].next \in Copying =>
       frame[w].dup \in Docs /\ doc[frame[w].dup].chunks # "none" /\ frame[w].pointer # "none"
  /\ frame[w].next \in WithText => doc[D(w)].chunks # "none"
  /\ frame[w].next \in WithPointer => doc[D(w)].pointer # "none"
  /\ frame[w].next \in Filling => jobs[frame[w].job].kind = "fill_textbook_chapter"
  /\ frame[w].next = "enqueue-fills" => AllListed(D(w))

Known ==
  /\ \A d \in Docs : DocKnown(d)
  /\ \A n \in DOMAIN jobs : RowKnown(n)
  /\ \A w \in Workers : WorkerKnown(w)

IInv == Types /\ Known

\* What no step undoes.
GoesOn ==
  /\ DOMAIN jobs \subseteq DOMAIN jobs'
  /\ \A n \in DOMAIN jobs : /\ jobs'[n].doc = jobs[n].doc /\ jobs'[n].kind = jobs[n].kind
                            /\ jobs'[n].chapter = jobs[n].chapter
  /\ \A d \in Docs : /\ doc[d].status # "absent" => doc'[d].status # "absent"
                     /\ doc[d].chunks # "none" => doc'[d].chunks # "none"
                     /\ doc[d].pointer # "none" => doc'[d].pointer # "none"
                     /\ "safe" \in objects[d] => "safe" \in objects'[d]
                     /\ "quarantine" \in objects[d] => "quarantine" \in objects'[d]
                     /\ \A c \in Chapters : chapters[d][c] # "none" => chapters'[d][c] # "none"

LEMMA OwnRow ==
  ASSUME Types, NEW w \in Workers, frame[w].next # "idle"
  PROVE  /\ frame[w].job \in DOMAIN jobs /\ jobs[frame[w].job] \in Job
         /\ jobs[frame[w].job].status = "running"
         /\ D(w) \in Docs /\ C(w) \in Chapters \cup {None}
<1>1. frame[w].job \in DOMAIN jobs /\ jobs[frame[w].job].status = "running"
  BY DEF Types, Held
<1>2. jobs[frame[w].job] \in Job
  BY <1>1, LenProperties, ElementOfSeq DEF Types, Rows
<1>3. QED
  BY <1>1, <1>2 DEF Job, D, C

LEMMA StepIs ==
  ASSUME Types, NEW w \in Workers, NEW s, NEW to \in Statement, Step(w, s, to)
  PROVE  /\ frame[w].next = s /\ frame'[w] \in Frame
         /\ frame' = [frame EXCEPT ![w] = frame'[w]]
         /\ frame'[w].next = to /\ frame'[w].job = frame[w].job /\ frame'[w].dup = frame[w].dup
         /\ frame'[w].pointer = frame[w].pointer /\ frame'[w].toc = frame[w].toc
         /\ \A v \in Workers : v # w => frame'[v] = frame[v]
<1> DEFINE f == [frame[w] EXCEPT !.next = to]
<1>1. frame \in [Workers -> Frame] /\ frame[w] \in Frame
  BY DEF Types, Held
<1>2. /\ f \in Frame /\ f.next = to /\ f.job = frame[w].job /\ f.dup = frame[w].dup
      /\ f.pointer = frame[w].pointer /\ f.toc = frame[w].toc
  BY <1>1, GoesType
<1>3. frame' = [frame EXCEPT ![w] = f] /\ frame[w].next = s
  BY DEF Step, At
<1> HIDE DEF f
<1>4. frame'[w] = f /\ \A v \in Workers : v # w => frame'[v] = frame[v]
  BY <1>1, <1>3
<1>5. QED
  BY <1>2, <1>3, <1>4

\* A worker's row stays its own in a move.
LEMMA MoveHeld ==
  ASSUME Types, NEW w \in Workers, NEW s, NEW to \in Statement, Step(w, s, to),
         s # "idle", to # "idle", jobs' = jobs
  PROVE  Held' /\ Rows' /\ D(w)' = D(w) /\ D(w) \in Docs
<1>1. /\ frame[w].next = s /\ frame'[w] \in Frame /\ frame'[w].next = to
      /\ frame' = [frame EXCEPT ![w] = frame'[w]] /\ frame'[w].job = frame[w].job
  BY StepIs
<1>2. Held'
  BY <1>1, HeldGoesOn DEF Types
<1>3. Rows'
  BY DEF Types, Rows
<1>4. QED
  BY <1>1, <1>2, <1>3, OwnRow DEF D

-----------------------------------------------------------------------------
(* Each move keeps what is known. *)

\* The parts of a move's conclusion.
MoveKeeps(w) == Data' /\ GoesOn /\ (\A d \in Docs : DocKnown(d)') /\ WorkerKnown(w)'

LEMMA GoKeeps ==
  ASSUME IInv, NEW w \in Workers, NEW s \in Statement, NEW to \in Statement,
         GoMove(s, to), Goto(w, s, to)
  PROVE  MoveKeeps(w)
<1>1. s # "idle" /\ to # "idle" /\ Step(w, s, to) /\ UNCHANGED <<content, objects, doc, chapters, jobs, faults>>
  BY DEF GoMove, Goto
<1>2. Data' /\ GoesOn /\ \A d \in Docs : DocKnown(d)'
  BY <1>1 DEF IInv, Types, Data, GoesOn, Known, DocKnown
<1>3. /\ frame[w].next = s /\ frame'[w].next = to /\ frame'[w].job = frame[w].job
      /\ WorkerKnown(w)
  BY <1>1, StepIs DEF IInv, Known
<1>4. WorkerKnown(w)'
  BY <1>1, <1>3 DEF WorkerKnown, GoMove, Copying, WithText, WithPointer, Filling
<1>5. QED
  BY <1>2, <1>4 DEF MoveKeeps

LEMMA StatusKeeps ==
  ASSUME IInv, NEW w \in Workers, NEW s \in Statement, NEW to \in Statement,
         NEW status \in {"scanning", "extracting", "indexing", "ready", "failed", "quarantined"},
         StatusMove(s, status, to), SetStatus(w, s, status, to)
  PROVE  MoveKeeps(w)
<1>1. /\ s # "idle" /\ to # "idle" /\ Step(w, s, to)
      /\ UNCHANGED <<content, objects, chapters, jobs, faults>>
      /\ doc' = [doc EXCEPT ![D(w)].status = status]
  BY DEF StatusMove, SetStatus
<1>2. /\ frame[w].next = s /\ frame'[w].next = to /\ frame'[w].job = frame[w].job
      /\ frame'[w].dup = frame[w].dup /\ frame'[w].pointer = frame[w].pointer
      /\ WorkerKnown(w)
  BY <1>1, StepIs DEF IInv, Known
<1>3. D(w)' = D(w) /\ D(w) \in Docs /\ doc \in [Docs -> Doc] /\ objects[D(w)] # {}
  <2>1. D(w)' = D(w) /\ D(w) \in Docs /\ frame[w].job \in DOMAIN jobs
    BY <1>1, <1>2, MoveHeld, OwnRow DEF IInv
  <2>2. QED
    BY <2>1 DEF IInv, Types, Data, Known, RowKnown, DocKnown, D
<1>4. /\ doc' \in [Docs -> Doc] /\ doc'[D(w)].status = status
      /\ \A e \in Docs : e # D(w) => doc'[e] = doc[e]
      /\ \A e \in Docs : /\ doc'[e].chunks = doc[e].chunks /\ doc'[e].pointer = doc[e].pointer
                         /\ doc'[e].safeKey = doc[e].safeKey /\ doc'[e].toc = doc[e].toc
  BY <1>1, <1>3, DocStatus
<1>5. Data' /\ GoesOn
  BY <1>1, <1>4 DEF IInv, Types, Data, GoesOn
<1>6. \A d \in Docs : DocKnown(d)'
  <2>1. status = "ready" => doc[D(w)].chunks # "none" /\ doc[D(w)].pointer # "none"
    BY <1>2 DEF StatusMove, WorkerKnown, WithText, WithPointer
  <2>2. QED
    BY <1>1, <1>3, <1>4, <2>1 DEF IInv, Known, DocKnown
<1>7. WorkerKnown(w)'
  <2>1. doc'[D(w)].chunks = doc[D(w)].chunks /\ doc'[D(w)].pointer = doc[D(w)].pointer
        /\ \A e \in Docs : doc'[e].chunks = doc[e].chunks
    BY <1>3, <1>4
  <2>2. QED
    BY <1>1, <1>2, <1>3, <2>1 DEF WorkerKnown, StatusMove, Copying, WithText, WithPointer, Filling
<1>8. QED
  BY <1>5, <1>6, <1>7 DEF MoveKeeps

LEMMA TocKeeps ==
  ASSUME IInv, NEW w \in Workers, NEW s \in Statement, NEW to \in Statement,
         NEW toc \in TocStatus, TocMove(s, toc, to), SetToc(w, s, toc, to)
  PROVE  MoveKeeps(w)
<1>1. /\ s # "idle" /\ to # "idle" /\ Step(w, s, to)
      /\ UNCHANGED <<content, objects, chapters, jobs, faults>>
      /\ doc' = [doc EXCEPT ![D(w)].toc = toc]
  BY DEF TocMove, SetToc
<1>2. /\ frame[w].next = s /\ frame'[w].next = to /\ frame'[w].job = frame[w].job
      /\ WorkerKnown(w)
  BY <1>1, StepIs DEF IInv, Known
<1>3. D(w)' = D(w) /\ D(w) \in Docs /\ doc \in [Docs -> Doc]
  BY <1>1, MoveHeld DEF IInv, Types, Data
<1>4. /\ doc' \in [Docs -> Doc]
      /\ \A e \in Docs : /\ doc'[e].chunks = doc[e].chunks /\ doc'[e].pointer = doc[e].pointer
                         /\ doc'[e].safeKey = doc[e].safeKey /\ doc'[e].status = doc[e].status
  BY <1>1, <1>3, DocToc
<1>5. Data' /\ GoesOn
  BY <1>1, <1>4 DEF IInv, Types, Data, GoesOn
<1>6. \A d \in Docs : DocKnown(d)'
  BY <1>1, <1>4 DEF IInv, Known, DocKnown
<1>7. WorkerKnown(w)'
  <2>1. doc'[D(w)].chunks = doc[D(w)].chunks /\ doc'[D(w)].pointer = doc[D(w)].pointer
    BY <1>3, <1>4
  <2>2. QED
    BY <1>1, <1>2, <1>3, <2>1 DEF WorkerKnown, TocMove, Copying, WithText, WithPointer, Filling
<1>8. QED
  BY <1>5, <1>6, <1>7 DEF MoveKeeps

LEMMA CopyKeeps ==
  ASSUME IInv, NEW w \in Workers, NEW s \in Statement, NEW to \in Statement,
         NEW bucket \in {"safe", "quarantine"}, CopyMove(s, bucket, to), Copy(w, s, bucket, to)
  PROVE  MoveKeeps(w)
<1>1. /\ s # "idle" /\ to # "idle" /\ Step(w, s, to)
      /\ UNCHANGED <<content, doc, chapters, jobs, faults>>
      /\ objects' = [objects EXCEPT ![D(w)] = @ \cup {bucket}]
  BY DEF CopyMove, Copy
<1>2. frame'[w].next = to
  BY <1>1, StepIs DEF IInv
<1>3. D(w)' = D(w) /\ D(w) \in Docs /\ objects \in [Docs -> SUBSET {"raw", "safe", "quarantine"}]
  BY <1>1, MoveHeld DEF IInv, Types, Data
<1>4. /\ objects' \in [Docs -> SUBSET {"raw", "safe", "quarantine"}]
      /\ bucket \in objects'[D(w)] /\ \A d \in Docs : objects[d] \subseteq objects'[d]
  BY <1>1, <1>3
<1>5. Data' /\ GoesOn /\ \A d \in Docs : DocKnown(d)'
  BY <1>1, <1>4 DEF IInv, Types, Data, GoesOn, Known, DocKnown
<1>6. WorkerKnown(w)'
  BY <1>2, <1>3, <1>4 DEF WorkerKnown, CopyMove, Copying, WithText, WithPointer, Filling
<1>7. QED
  BY <1>5, <1>6 DEF MoveKeeps

LEMMA DeleteKeeps ==
  ASSUME IInv, NEW w \in Workers, NEW s \in Statement, NEW to \in Statement,
         DeleteMove(s, to), Delete(w, s, to)
  PROVE  MoveKeeps(w)
<1>1. /\ s # "idle" /\ to # "idle" /\ Step(w, s, to)
      /\ UNCHANGED <<content, doc, chapters, jobs, faults>>
      /\ objects' = [objects EXCEPT ![D(w)] = @ \ {"raw"}]
  BY DEF DeleteMove, Delete
<1>2. frame[w].next = s /\ frame'[w].next = to /\ WorkerKnown(w)
  BY <1>1, StepIs DEF IInv, Known
<1>3. D(w)' = D(w) /\ D(w) \in Docs /\ objects \in [Docs -> SUBSET {"raw", "safe", "quarantine"}]
  BY <1>1, MoveHeld DEF IInv, Types, Data
<1>4. /\ objects' \in [Docs -> SUBSET {"raw", "safe", "quarantine"}]
      /\ \A d \in Docs : /\ "safe" \in objects[d] => "safe" \in objects'[d]
                         /\ "quarantine" \in objects[d] => "quarantine" \in objects'[d]
                         /\ d # D(w) => objects'[d] = objects[d]
  BY <1>1, <1>3
<1>5. s = "quarantine-delete" => "quarantine" \in objects'[D(w)]
  BY <1>2, <1>3, <1>4 DEF WorkerKnown
<1>6. s = "safe-delete" => "safe" \in objects'[D(w)]
  BY <1>2, <1>3, <1>4 DEF WorkerKnown
<1>7. objects'[D(w)] # {}
  BY <1>5, <1>6 DEF DeleteMove
<1>8. Data' /\ GoesOn /\ \A d \in Docs : DocKnown(d)'
  BY <1>1, <1>4, <1>7 DEF IInv, Types, Data, GoesOn, Known, DocKnown
<1>9. WorkerKnown(w)'
  BY <1>2, <1>3, <1>6 DEF WorkerKnown, DeleteMove, Copying, WithText, WithPointer, Filling
<1>10. QED
  BY <1>8, <1>9 DEF MoveKeeps

LEMMA ChapterKeeps ==
  ASSUME IInv, NEW w \in Workers, NEW s \in Statement, NEW to \in Statement,
         NEW status \in ChapterStatus, ChapterMove(w, s, status, to), SetChapter(w, s, status, to)
  PROVE  MoveKeeps(w)
<1>1. /\ s # "idle" /\ to # "idle" /\ Step(w, s, to) /\ status # "none"
      /\ UNCHANGED <<content, objects, doc, jobs, faults>>
      /\ chapters' = [chapters EXCEPT ![D(w)][C(w)] = status]
  BY DEF ChapterMove, SetChapter
<1>2. /\ frame[w].next = s /\ frame'[w].next = to /\ frame'[w].job = frame[w].job
      /\ WorkerKnown(w)
  BY <1>1, StepIs DEF IInv, Known
<1>3. D(w) \in Docs /\ chapters \in [Docs -> [Chapters -> ChapterStatus]]
  BY <1>1, MoveHeld DEF IInv, Types, Data
<1>4. /\ chapters' \in [Docs -> [Chapters -> ChapterStatus]]
      /\ \A d \in Docs, c \in Chapters : chapters'[d][c] \in {chapters[d][c], status}
  BY <1>1, <1>3
<1>5. Data' /\ GoesOn /\ \A d \in Docs : DocKnown(d)'
  BY <1>1, <1>4 DEF IInv, Types, Data, GoesOn, Known, DocKnown
<1>6. WorkerKnown(w)'
  BY <1>1, <1>2 DEF WorkerKnown, ChapterMove, Copying, WithText, WithPointer, Filling
<1>7. QED
  BY <1>5, <1>6 DEF MoveKeeps

LEMMA KeysKeep ==
  ASSUME IInv, NEW w \in Workers, SetSafeKey(w) \/ SetHash(w)
  PROVE  MoveKeeps(w)
<1>1. PICK s, to \in Statement :
        /\ s # "idle" /\ Step(w, s, to) /\ to \in {"hash", "dedup"}
        /\ \/ s = "safe-key" /\ doc' = [doc EXCEPT ![D(w)].safeKey = TRUE]
           \/ s = "hash" /\ doc' = [doc EXCEPT ![D(w)].sha = TRUE]
        /\ UNCHANGED <<content, objects, chapters, jobs, faults>>
  BY StatementIs DEF SetSafeKey, SetHash
<1>2. frame[w].next = s /\ frame'[w].next = to /\ WorkerKnown(w)
  BY <1>1, StepIs DEF IInv, Known
<1>3. D(w) \in Docs /\ doc \in [Docs -> Doc]
  BY <1>1, MoveHeld DEF IInv, Types, Data
<1>4. /\ doc' \in [Docs -> Doc]
      /\ \A e \in Docs : e # D(w) => doc'[e] = doc[e]
      /\ \A e \in Docs : /\ doc'[e].toc = doc[e].toc /\ doc'[e].chunks = doc[e].chunks
                         /\ doc'[e].pointer = doc[e].pointer /\ doc'[e].status = doc[e].status
  BY <1>1, <1>3, DocKeys
<1>5. Data' /\ GoesOn
  BY <1>1, <1>4 DEF IInv, Types, Data, GoesOn
<1>6. doc'[D(w)].safeKey => "safe" \in objects[D(w)]
  <2>1. CASE s = "safe-key"
    BY <1>2, <2>1 DEF WorkerKnown
  <2>2. CASE doc' = [doc EXCEPT ![D(w)].sha = TRUE]
    <3>1. doc[D(w)] \in Doc
      BY <1>3
    <3>2. doc'[D(w)].safeKey = doc[D(w)].safeKey
      BY <1>3, <2>2, <3>1 DEF Doc
    <3>3. QED
      BY <1>3, <3>2 DEF IInv, Known, DocKnown
  <2>3. QED
    BY <1>1, <2>1, <2>2
<1>7. \A d \in Docs : DocKnown(d)'
  BY <1>1, <1>3, <1>4, <1>6 DEF IInv, Known, DocKnown
<1>8. WorkerKnown(w)'
  BY <1>1, <1>2 DEF WorkerKnown, Copying, WithText, WithPointer, Filling
<1>9. QED
  BY <1>5, <1>7, <1>8 DEF MoveKeeps

\* CopyChunks, InsertChunks and Embed.
LEMMA ChunksKeep ==
  ASSUME IInv, NEW w \in Workers, NEW s \in Statement, NEW to \in Statement,
         NEW c \in {"none", "text", "embedded"}, Step(w, s, to), s # "idle",
         doc' = [doc EXCEPT ![D(w)].chunks = c],
         UNCHANGED <<content, objects, chapters, jobs, faults>>,
         c = "none" => doc[D(w)].chunks = "none" /\ to = "no-text",
         \/ s = "copy-chunks" /\ to = "copy-pointer"
         \/ s = "chunk" /\ to \in {"no-text", "index"}
         \/ s = "embed" /\ to = "point"
  PROVE  MoveKeeps(w)
<1>1. /\ frame[w].next = s /\ frame'[w].next = to /\ frame'[w].dup = frame[w].dup
      /\ frame'[w].pointer = frame[w].pointer /\ WorkerKnown(w)
  BY StepIs DEF IInv, Known
<1>2. to # "idle"
  OBVIOUS
<1>3. D(w)' = D(w) /\ D(w) \in Docs /\ doc \in [Docs -> Doc]
  BY <1>2, MoveHeld DEF IInv, Types, Data
<1>4. /\ doc' \in [Docs -> Doc] /\ doc'[D(w)].chunks = c
      /\ \A e \in Docs : e # D(w) => doc'[e] = doc[e]
      /\ \A e \in Docs : /\ doc'[e].toc = doc[e].toc /\ doc'[e].pointer = doc[e].pointer
                         /\ doc'[e].safeKey = doc[e].safeKey /\ doc'[e].status = doc[e].status
  BY <1>3, DocChunks
<1>5. \A e \in Docs : doc[e].chunks # "none" => doc'[e].chunks # "none"
  BY <1>4
<1>6. Data' /\ GoesOn /\ \A d \in Docs : DocKnown(d)'
  BY <1>4, <1>5 DEF IInv, Types, Data, GoesOn, Known, DocKnown
<1>7. WorkerKnown(w)'
  BY <1>1, <1>3, <1>4, <1>5 DEF WorkerKnown, Copying, WithText, WithPointer, Filling
<1>8. QED
  BY <1>6, <1>7 DEF MoveKeeps

\* CopyPointer, SetPointer and Points.
LEMMA PointerKeeps ==
  ASSUME IInv, NEW w \in Workers, NEW s \in Statement, NEW to \in Statement,
         NEW p \in Pointer \ {"none"}, Step(w, s, to), s # "idle",
         doc' = [doc EXCEPT ![D(w)].pointer = p],
         UNCHANGED <<content, objects, chapters, jobs, faults>>,
         \/ s = "copy-pointer" /\ to = "copy-tree"
         \/ s = "point" /\ to \in {"toc", "ready"}
         \/ s = "count" /\ to = "book-ready"
  PROVE  MoveKeeps(w)
<1>1. /\ frame[w].next = s /\ frame'[w].next = to /\ frame'[w].dup = frame[w].dup
      /\ frame'[w].pointer = frame[w].pointer /\ WorkerKnown(w)
  BY StepIs DEF IInv, Known
<1>2. to # "idle"
  OBVIOUS
<1>3. D(w)' = D(w) /\ D(w) \in Docs /\ doc \in [Docs -> Doc]
  BY <1>2, MoveHeld DEF IInv, Types, Data
<1>4. /\ doc' \in [Docs -> Doc] /\ doc'[D(w)].pointer = p
      /\ \A e \in Docs : e # D(w) => doc'[e] = doc[e]
      /\ \A e \in Docs : /\ doc'[e].toc = doc[e].toc /\ doc'[e].chunks = doc[e].chunks
                         /\ doc'[e].safeKey = doc[e].safeKey /\ doc'[e].status = doc[e].status
  BY <1>3, DocPointer
<1>5. \A e \in Docs : doc[e].pointer # "none" => doc'[e].pointer # "none"
  BY <1>4
<1>6. Data' /\ GoesOn /\ \A d \in Docs : DocKnown(d)'
  BY <1>4, <1>5 DEF IInv, Types, Data, GoesOn, Known, DocKnown
<1>7. WorkerKnown(w)'
  BY <1>1, <1>3, <1>4 DEF WorkerKnown, Copying, WithText, WithPointer, Filling
<1>8. QED
  BY <1>6, <1>7 DEF MoveKeeps

LEMMA TreeKeeps ==
  ASSUME IInv, NEW w \in Workers, CopiesTree(w)
  PROVE  MoveKeeps(w)
<1> DEFINE dup == frame[w].dup
<1>1. /\ Step(w, "copy-tree", "copy-toc") /\ "copy-tree" \in Statement /\ "copy-toc" \in Statement
      /\ UNCHANGED <<content, objects, doc, jobs, faults>>
      /\ chapters' = [chapters EXCEPT ![D(w)] = [c \in Chapters |->
                        IF chapters[dup][c] # "none" THEN chapters[dup][c] ELSE chapters[D(w)][c]]]
  BY StatementIs DEF CopiesTree
<1>2. frame[w].next = "copy-tree" /\ frame'[w].next = "copy-toc" /\ WorkerKnown(w)
  BY <1>1, StepIs DEF IInv, Known
<1>3. D(w)' = D(w) /\ D(w) \in Docs /\ chapters \in [Docs -> [Chapters -> ChapterStatus]]
  BY <1>1, MoveHeld DEF IInv, Types, Data
<1>4. dup \in Docs
  BY <1>2 DEF WorkerKnown, Copying
<1> HIDE DEF dup
<1>5. /\ chapters' \in [Docs -> [Chapters -> ChapterStatus]]
      /\ \A d \in Docs, c \in Chapters : chapters[d][c] # "none" => chapters'[d][c] # "none"
  BY <1>1, <1>3, <1>4
<1>6. Data' /\ GoesOn /\ \A d \in Docs : DocKnown(d)'
  BY <1>1, <1>5 DEF IInv, Types, Data, GoesOn, Known, DocKnown
<1>7. WorkerKnown(w)'
  BY <1>1, <1>2, <1>3 DEF WorkerKnown, Copying, WithText, WithPointer, Filling
<1>8. QED
  BY <1>6, <1>7 DEF MoveKeeps

LEMMA MovesKeep ==
  ASSUME IInv, NEW w \in Workers, Moves(w)
  PROVE  /\ MoveKeeps(w) /\ Held' /\ Rows' /\ jobs' = jobs
         /\ \A v \in Workers : v # w => frame'[v] = frame[v]
         /\ frame'[w].job = frame[w].job
<1>0. /\ doc \in [Docs -> Doc] /\ frame[w] \in Frame /\ WorkerKnown(w)
      /\ "document" \in Pointer \ {"none"} /\ "book" \in Pointer \ {"none"}
  BY DEF IInv, Types, Data, Held, Known, Pointer
<1>1. ASSUME NEW s \in Statement, NEW to \in Statement, Step(w, s, to), s # "idle", to # "idle",
             jobs' = jobs
      PROVE  /\ Held' /\ Rows' /\ \A v \in Workers : v # w => frame'[v] = frame[v]
             /\ frame[w].next = s /\ frame'[w].job = frame[w].job
  BY <1>1, MoveHeld, StepIs DEF IInv
<1>2. ASSUME NEW s \in Statement, NEW to \in Statement, GoMove(s, to), Goto(w, s, to)
      PROVE  MoveKeeps(w) /\ jobs' = jobs /\ Step(w, s, to) /\ s # "idle" /\ to # "idle"
  BY <1>2, GoKeeps DEF GoMove, Goto
<1>3. ASSUME NEW s \in Statement, NEW to \in Statement,
             NEW status \in {"scanning", "extracting", "indexing", "ready", "failed", "quarantined"},
             StatusMove(s, status, to), SetStatus(w, s, status, to)
      PROVE  MoveKeeps(w) /\ jobs' = jobs /\ Step(w, s, to) /\ s # "idle" /\ to # "idle"
  BY <1>3, StatusKeeps DEF StatusMove, SetStatus
<1>4. ASSUME NEW s \in Statement, NEW to \in Statement, NEW toc \in TocStatus,
             TocMove(s, toc, to), SetToc(w, s, toc, to)
      PROVE  MoveKeeps(w) /\ jobs' = jobs /\ Step(w, s, to) /\ s # "idle" /\ to # "idle"
  BY <1>4, TocKeeps DEF TocMove, SetToc
<1>5. ASSUME NEW s \in Statement, NEW to \in Statement, NEW bucket \in {"safe", "quarantine"},
             CopyMove(s, bucket, to), Copy(w, s, bucket, to)
      PROVE  MoveKeeps(w) /\ jobs' = jobs /\ Step(w, s, to) /\ s # "idle" /\ to # "idle"
  BY <1>5, CopyKeeps DEF CopyMove, Copy
<1>6. ASSUME NEW s \in Statement, NEW to \in Statement, DeleteMove(s, to), Delete(w, s, to)
      PROVE  MoveKeeps(w) /\ jobs' = jobs /\ Step(w, s, to) /\ s # "idle" /\ to # "idle"
  BY <1>6, DeleteKeeps DEF DeleteMove, Delete
<1>7. ASSUME NEW s \in Statement, NEW to \in Statement, NEW status \in ChapterStatus,
             ChapterMove(w, s, status, to), SetChapter(w, s, status, to)
      PROVE  MoveKeeps(w) /\ jobs' = jobs /\ Step(w, s, to) /\ s # "idle" /\ to # "idle"
  BY <1>7, ChapterKeeps DEF ChapterMove, SetChapter
<1>8. CASE SetSafeKey(w)
  BY <1>1, <1>8, KeysKeep, StatementIs DEF SetSafeKey
<1>9. CASE SetHash(w)
  BY <1>1, <1>9, KeysKeep, StatementIs DEF SetHash
<1>10. CASE CopyChunks(w)
  <2>1. Step(w, "copy-chunks", "copy-pointer") /\ jobs' = jobs
    BY <1>10 DEF CopyChunks
  <2>2. frame[w].next = "copy-chunks"
    BY <1>1, <2>1, StatementIs
  <2>3. frame[w].dup \in Docs /\ doc[frame[w].dup].chunks \in {"text", "embedded"} /\ D(w) \in Docs
    BY <1>0, <2>2, OwnRow DEF WorkerKnown, Copying, Doc, IInv
  <2> DEFINE c == IF doc[D(w)].chunks = "none" THEN doc[frame[w].dup].chunks ELSE doc[D(w)].chunks
  <2>4. c \in {"none", "text", "embedded"} /\ c # "none"
    BY <1>0, <2>3 DEF Doc
  <2>5. doc' = [doc EXCEPT ![D(w)].chunks = c] /\ UNCHANGED <<content, objects, chapters, jobs, faults>>
    BY <1>0, <1>10, <2>3 DEF CopyChunks
  <2> HIDE DEF c
  <2>6. MoveKeeps(w)
    BY <2>1, <2>4, <2>5, ChunksKeep, StatementIs
  <2>7. QED
    BY <1>1, <2>1, <2>6, StatementIs
<1>11. CASE InsertChunks(w)
  <2> DEFINE to == IF Blank(D(w)) THEN "no-text" ELSE "index"
             c == IF Blank(D(w)) \/ doc[D(w)].chunks # "none" THEN doc[D(w)].chunks ELSE "text"
  <2>1. Step(w, "chunk", to) /\ jobs' = jobs /\ to \in {"no-text", "index"} /\ to \in Statement
    BY <1>11, StatementIs DEF InsertChunks
  <2>2. frame[w].next = "chunk"
    BY <1>1, <2>1, StatementIs
  <2>3. D(w) \in Docs
    BY <2>2, OwnRow DEF IInv
  <2>4. c \in {"none", "text", "embedded"} /\ (c = "none" => doc[D(w)].chunks = "none" /\ to = "no-text")
    BY <1>0, <2>3 DEF Doc
  <2>5. doc' = [doc EXCEPT ![D(w)].chunks = c] /\ UNCHANGED <<content, objects, chapters, jobs, faults>>
    BY <1>0, <1>11, <2>3 DEF InsertChunks
  <2> HIDE DEF c, to
  <2>6. MoveKeeps(w)
    BY <2>1, <2>4, <2>5, ChunksKeep, StatementIs
  <2>7. QED
    BY <1>1, <2>1, <2>6, StatementIs
<1>12. CASE Embed(w)
  BY <1>1, <1>12, ChunksKeep, StatementIs DEF Embed
<1>13. CASE CopyPointer(w)
  <2>1. /\ Step(w, "copy-pointer", "copy-tree") /\ doc' = [doc EXCEPT ![D(w)].pointer = frame[w].pointer]
        /\ UNCHANGED <<content, objects, chapters, jobs, faults>>
    BY <1>13 DEF CopyPointer
  <2>2. frame[w].next = "copy-pointer"
    BY <1>1, <2>1, StatementIs
  <2>3. frame[w].pointer \in Pointer \ {"none"}
    BY <1>0, <2>2 DEF WorkerKnown, Copying, Frame
  <2>4. MoveKeeps(w)
    BY <2>1, <2>3, PointerKeeps, StatementIs
  <2>5. QED
    BY <1>1, <2>1, <2>4, StatementIs
<1>14. CASE SetPointer(w)
  <2> DEFINE to == IF D(w) \in Textbooks THEN "toc" ELSE "ready"
  <2>1. /\ Step(w, "point", to) /\ doc' = [doc EXCEPT ![D(w)].pointer = "document"]
        /\ UNCHANGED <<content, objects, chapters, jobs, faults>>
        /\ to \in Statement /\ to \in {"toc", "ready"}
    BY <1>14, StatementIs DEF SetPointer
  <2> HIDE DEF to
  <2>2. MoveKeeps(w)
    BY <1>0, <2>1, PointerKeeps, StatementIs
  <2>3. QED
    BY <1>1, <2>1, <2>2, StatementIs
<1>15. CASE Points(w)
  BY <1>0, <1>1, <1>15, PointerKeeps, StatementIs DEF Points
<1>16. CASE CopiesTree(w)
  BY <1>1, <1>16, TreeKeeps, StatementIs DEF CopiesTree
<1>17. QED
  BY <1>1, <1>2, <1>3, <1>4, <1>5, <1>6, <1>7, <1>8, <1>9, <1>10, <1>11, <1>12, <1>13, <1>14,
     <1>15, <1>16 DEF Moves

-----------------------------------------------------------------------------
(* The other steps. *)

\* What the others know they go on knowing.
LEMMA KnownKept ==
  ASSUME IInv, Data', Rows', Held', GoesOn, \A d \in Docs : DocKnown(d)',
         \A n \in DOMAIN jobs' : n \in DOMAIN jobs \/ RowKnown(n)',
         \A v \in Workers : frame'[v] = frame[v] \/ WorkerKnown(v)'
  PROVE  IInv' /\ GoesOn
<1>1. \A n \in DOMAIN jobs : jobs[n] \in Job /\ jobs[n].doc \in Docs
  <2>1. \A n \in DOMAIN jobs : jobs[n] \in Job
    BY LenProperties, ElementOfSeq DEF IInv, Types, Rows
  <2>2. QED
    BY <2>1 DEF Job
<1>2. ASSUME NEW n \in DOMAIN jobs' PROVE RowKnown(n)'
  <2>1. CASE n \in DOMAIN jobs
    BY <1>1, <2>1 DEF IInv, Known, RowKnown, GoesOn, AllListed
  <2>2. QED
    BY <2>1
<1>3. ASSUME NEW v \in Workers, frame'[v] = frame[v] PROVE WorkerKnown(v)'
  <2>1. CASE frame[v].next = "idle"
    BY <1>3, <2>1 DEF WorkerKnown, Copying, WithText, WithPointer, Filling
  <2>2. CASE frame[v].next # "idle"
    <3>1. frame[v].job \in DOMAIN jobs /\ D(v) \in Docs
      BY <2>2, OwnRow DEF IInv
    <3>2. D(v)' = D(v) /\ jobs'[frame[v].job].kind = jobs[frame[v].job].kind
      BY <1>3, <3>1 DEF D, GoesOn
    <3>3. WorkerKnown(v)
      BY DEF IInv, Known
    <3>4. AllListed(D(v)) => AllListed(D(v))'
      BY <3>1, <3>2 DEF AllListed, GoesOn
    <3>5. QED
      BY <1>3, <3>1, <3>2, <3>3, <3>4 DEF WorkerKnown, GoesOn
  <2>3. QED
    BY <2>1, <2>2
<1>4. QED
  BY <1>2, <1>3 DEF IInv, Types, Known

\* A step that writes neither documents, objects nor chapters.
LEMMA QuietGoesOn ==
  ASSUME IInv, UNCHANGED <<content, objects, doc, chapters>>, faults' \in 0 .. MaxFaults,
         DOMAIN jobs \subseteq DOMAIN jobs',
         \A n \in DOMAIN jobs : /\ jobs'[n].doc = jobs[n].doc /\ jobs'[n].kind = jobs[n].kind
                                /\ jobs'[n].chapter = jobs[n].chapter
  PROVE  Data' /\ GoesOn /\ \A d \in Docs : DocKnown(d)'
BY DEF IInv, Types, Data, GoesOn, Known, DocKnown

LEMMA FreesKeep ==
  ASSUME IInv, NEW w \in Workers, Frees(w)
  PROVE  IInv' /\ GoesOn
<1> DEFINE n == frame[w].job
<1>0. faults' \in 0 .. MaxFaults /\ MaxAttempts \in Nat
  BY IngestAssumption DEF IInv, Types, Data, Frees, MarkDone
<1>1. n \in DOMAIN jobs /\ jobs[n] \in Job /\ jobs[n].status = "running"
  BY OwnRow DEF IInv, Frees, At
<1>2. frame' = [frame EXCEPT ![w] = Idle] /\ UNCHANGED <<content, objects, doc, chapters>>
  BY DEF Frees, MarkDone, MarkFailed, Abandon
<1> DEFINE Written ==
      /\ Rows' /\ DOMAIN jobs' = DOMAIN jobs
      /\ \A m \in DOMAIN jobs : m # n => jobs'[m] = jobs[m]
      /\ \A m \in DOMAIN jobs : /\ jobs'[m].doc = jobs[m].doc /\ jobs'[m].kind = jobs[m].kind
                                /\ jobs'[m].chapter = jobs[m].chapter
<1>3. Written
  <2>1. jobs[n].attempts \in Nat /\ jobs[n].attempts < MaxAttempts
    BY <1>0, <1>1 DEF IInv, Types, Rows, Job
  <2>2. ASSUME NEW a \in 0 .. MaxAttempts, NEW s \in {"pending", "done", "failed"},
               jobs' = [jobs EXCEPT ![n] = Updated(jobs[n], a, s)],
               s = "pending" => a < MaxAttempts
        PROVE  Written
    BY <1>1, <2>2, RowWritten DEF IInv, Types
  <2>3. CASE MarkDone(w)
    <3>1. [jobs[n] EXCEPT !.status = "done"] = Updated(jobs[n], jobs[n].attempts, "done")
      BY <1>1, StatusUpdated
    <3>2. jobs' = [jobs EXCEPT ![n] = [jobs[n] EXCEPT !.status = "done"]]
      BY <2>3 DEF MarkDone
    <3>3. jobs[n].attempts \in 0 .. MaxAttempts
      BY <1>0, <2>1
    <3>4. QED
      BY <2>2, <3>1, <3>2, <3>3
  <2>4. ASSUME NEW permanent \in BOOLEAN, MarkFailed(w, permanent) PROVE Written
    <3> DEFINE a == jobs[n].attempts + 1
               s == IF permanent \/ a >= MaxAttempts THEN "failed" ELSE "pending"
    <3>1. a \in 0 .. MaxAttempts /\ (s = "pending" => a < MaxAttempts)
      BY <1>0, <2>1
    <3>2. s \in {"pending", "done", "failed"}
      OBVIOUS
    <3>3. jobs' = [jobs EXCEPT ![n] = Updated(jobs[n], a, s)]
      BY <1>1, <2>4, Zenon DEF MarkFailed, Updated
    <3> HIDE DEF a, s
    <3>4. QED
      BY <2>2, <3>1, <3>2, <3>3
  <2>5. CASE Abandon(w)
    BY <2>5 DEF Abandon, IInv, Types, Rows
  <2>6. QED
    BY <2>3, <2>4, <2>5 DEF Frees
<1> HIDE DEF n
<1>4. Held'
  BY <1>2, <1>3, HeldFreed DEF IInv, Types, n
<1>5. Data' /\ GoesOn /\ \A d \in Docs : DocKnown(d)'
  BY <1>0, <1>2, <1>3, QuietGoesOn
<1>6. \A v \in Workers : frame'[v] = frame[v] \/ frame'[v].next = "idle"
  BY <1>2, IdleType DEF IInv, Types, Held
<1>7. \A v \in Workers : frame'[v] = frame[v] \/ WorkerKnown(v)'
  BY <1>6 DEF WorkerKnown, Copying, WithText, WithPointer, Filling
<1>8. QED
  BY <1>3, <1>4, <1>5, <1>7, KnownKept

LEMMA ClaimKeeps ==
  ASSUME IInv, NEW w \in Workers, Claim(w)
  PROVE  IInv' /\ GoesOn
<1>1. PICK n \in DOMAIN jobs :
        /\ jobs[n].status = "pending"
        /\ jobs' = [jobs EXCEPT ![n].status = "running"]
        /\ frame' = [frame EXCEPT ![w] = Claimed(FirstStatement(jobs[n].kind), n)]
  BY Zenon DEF Claim, Claimed
<1>2. frame[w].next = "idle" /\ UNCHANGED <<content, objects, doc, chapters, faults>>
  BY DEF Claim, At
<1>3. jobs[n] \in Job /\ n \in 1 .. MaxJobs /\ None \notin Nat
  <2>1. jobs \in Seq(Job) /\ DOMAIN jobs = 1 .. Len(jobs) /\ Len(jobs) \in Nat /\ Len(jobs) <= MaxJobs
    BY LenProperties DEF IInv, Types, Rows
  <2>2. MaxJobs \in Nat /\ None \notin Nat
    BY IngestAssumption
  <2>3. QED
    BY <2>1, <2>2, ElementOfSeq
<1>4. /\ Rows' /\ DOMAIN jobs' = DOMAIN jobs /\ jobs'[n].status = "running"
      /\ \A m \in DOMAIN jobs : m # n => jobs'[m] = jobs[m]
      /\ \A m \in DOMAIN jobs : /\ jobs'[m].doc = jobs[m].doc /\ jobs'[m].kind = jobs[m].kind
                                /\ jobs'[m].chapter = jobs[m].chapter
  <2>1. [jobs[n] EXCEPT !.status = "running"] = Updated(jobs[n], jobs[n].attempts, "running")
    BY <1>3, StatusUpdated
  <2>2. jobs' = [jobs EXCEPT ![n] = [jobs[n] EXCEPT !.status = "running"]]
    BY <1>1
  <2>3. jobs[n].attempts \in 0 .. MaxAttempts /\ jobs[n].attempts < MaxAttempts
    BY <1>1, <1>3 DEF IInv, Types, Rows, Job
  <2>4. QED
    BY <1>1, <2>1, <2>2, <2>3, RowWritten DEF IInv, Types
<1> DEFINE s == FirstStatement(jobs[n].kind)
           f == Claimed(s, n)
<1>5. s \in {"begin", "detect", "fill"} /\ s \in Statement
      /\ (s = "fill" => jobs[n].kind = "fill_textbook_chapter")
  BY <1>3, StatementIs DEF FirstStatement, Job
<1>6. f \in Frame /\ f.next = s /\ f.job = n
  BY <1>3, <1>5, ClaimedType
<1> HIDE DEF f, s
<1>7. frame' \in [Workers -> Frame] /\ \A v \in Workers : frame'[v] = IF v = w THEN f ELSE frame[v]
  BY <1>1, <1>6 DEF IInv, Types, Held, f, s
<1>8. ASSUME NEW v \in Workers PROVE frame[v].job # n
  <2>1. CASE frame[v].next = "idle"
    BY <1>3, <2>1 DEF IInv, Types, Held
  <2>2. CASE frame[v].next # "idle"
    BY <1>1, <2>2, OwnRow DEF IInv
  <2>3. QED
    BY <2>1, <2>2
<1>9. Held'
  <2>1. \A v \in Workers :
          IF frame'[v].next = "idle" THEN frame'[v].job = None
          ELSE frame'[v].job \in DOMAIN jobs' /\ jobs'[frame'[v].job].status = "running"
    BY <1>4, <1>5, <1>6, <1>7, <1>8 DEF IInv, Types, Held
  <2>2. \A u, v \in Workers : frame'[u].job = frame'[v].job /\ frame'[u].job # None => u = v
    BY <1>6, <1>7, <1>8 DEF IInv, Types, Held
  <2>3. QED
    BY <1>7, <2>1, <2>2 DEF Held
<1>10. Data' /\ GoesOn /\ \A d \in Docs : DocKnown(d)'
  <2>1. faults' \in 0 .. MaxFaults
    BY <1>2 DEF IInv, Types, Data
  <2>2. QED
    BY <1>2, <1>4, <2>1, QuietGoesOn
<1>11. WorkerKnown(w)'
  <2>1. frame'[w].next = s /\ frame'[w].job = n /\ jobs'[n].kind = jobs[n].kind
    BY <1>4, <1>6, <1>7
  <2>2. QED
    BY <1>5, <2>1 DEF WorkerKnown, Copying, WithText, WithPointer, Filling
<1>12. \A v \in Workers : frame'[v] = frame[v] \/ WorkerKnown(v)'
  BY <1>7, <1>11
<1>13. QED
  BY <1>4, <1>9, <1>10, <1>12, KnownKept

LEMMA ReclaimKeeps ==
  ASSUME IInv, NEW n \in 1 .. MaxJobs, Reclaim(n)
  PROVE  IInv' /\ GoesOn
<1>1. /\ n \in DOMAIN jobs /\ jobs[n].status = "running"
      /\ \A w \in Workers : frame[w].job # n
      /\ jobs' = [jobs EXCEPT ![n] = [jobs[n] EXCEPT !.status = "pending"]]
      /\ UNCHANGED <<content, objects, doc, chapters, frame, faults>>
  BY DEF Reclaim
<1>2. jobs[n] \in Job
  BY <1>1, LenProperties, ElementOfSeq DEF IInv, Types, Rows
<1>3. /\ Rows' /\ DOMAIN jobs' = DOMAIN jobs
      /\ \A m \in DOMAIN jobs : m # n => jobs'[m] = jobs[m]
      /\ \A m \in DOMAIN jobs : /\ jobs'[m].doc = jobs[m].doc /\ jobs'[m].kind = jobs[m].kind
                                /\ jobs'[m].chapter = jobs[m].chapter
  <2>1. [jobs[n] EXCEPT !.status = "pending"] = Updated(jobs[n], jobs[n].attempts, "pending")
    BY <1>2, StatusUpdated
  <2>2. jobs[n].attempts \in 0 .. MaxAttempts /\ jobs[n].attempts < MaxAttempts
    BY <1>1, <1>2 DEF IInv, Types, Rows, Job
  <2>3. QED
    BY <1>1, <2>1, <2>2, RowWritten DEF IInv, Types
<1>4. Held'
  BY <1>1, <1>3 DEF IInv, Types, Held
<1>5. Data' /\ GoesOn /\ \A d \in Docs : DocKnown(d)'
  <2>1. faults' \in 0 .. MaxFaults
    BY <1>1 DEF IInv, Types, Data
  <2>2. QED
    BY <1>1, <1>3, <2>1, QuietGoesOn
<1>6. QED
  BY <1>1, <1>3, <1>4, <1>5, KnownKept

LEMMA WebKeeps ==
  ASSUME IInv, NEW d \in Docs, PutRaw(d) \/ InsertDocument(d) \/ InsertJob(d)
  PROVE  IInv' /\ GoesOn
<1>0. /\ doc \in [Docs -> Doc] /\ objects \in [Docs -> SUBSET {"raw", "safe", "quarantine"}]
      /\ Data /\ Rows /\ Held /\ frame' = frame
  BY DEF IInv, Types, Data, PutRaw, InsertDocument, InsertJob
<1>1. CASE PutRaw(d)
  <2>1. /\ objects[d] = {} /\ objects' = [objects EXCEPT ![d] = {"raw"}]
        /\ UNCHANGED <<content, doc, chapters, jobs, faults>>
    BY <1>1 DEF PutRaw
  <2>2. objects' \in [Docs -> SUBSET {"raw", "safe", "quarantine"}]
        /\ \A e \in Docs : objects[e] \subseteq objects'[e]
    BY <1>0, <2>1
  <2>3. Data' /\ GoesOn /\ Rows' /\ Held' /\ \A e \in Docs : DocKnown(e)'
    BY <1>0, <2>1, <2>2 DEF Data, Rows, Held, GoesOn, IInv, Known, DocKnown
  <2>4. QED
    BY <1>0, <2>1, <2>3, KnownKept
<1>2. CASE InsertDocument(d)
  <2>1. /\ objects[d] # {} /\ doc[d].status = "absent" /\ doc' = [doc EXCEPT ![d].status = "scanning"]
        /\ UNCHANGED <<content, objects, chapters, jobs, faults>>
    <3>1. d >= d
      BY IngestAssumption
    <3>2. QED
      BY <1>2, <3>1 DEF InsertDocument
  <2>2. /\ doc' \in [Docs -> Doc] /\ doc'[d].status = "scanning"
        /\ \A e \in Docs : e # d => doc'[e] = doc[e]
        /\ \A e \in Docs : /\ doc'[e].chunks = doc[e].chunks /\ doc'[e].pointer = doc[e].pointer
                           /\ doc'[e].safeKey = doc[e].safeKey /\ doc'[e].toc = doc[e].toc
    BY <1>0, <2>1, DocStatus
  <2>3. Data' /\ GoesOn /\ Rows' /\ Held' /\ \A e \in Docs : DocKnown(e)'
    BY <1>0, <2>1, <2>2 DEF Data, Rows, Held, GoesOn, IInv, Known, DocKnown
  <2>4. QED
    BY <1>0, <2>1, <2>3, KnownKept
<1>3. CASE InsertJob(d)
  <2>1. /\ doc[d].status # "absent" /\ Enqueue("ingest_document", d, None)
        /\ UNCHANGED <<content, objects, doc, chapters, faults>>
    BY <1>3 DEF InsertJob
  <2>2. /\ Rows' /\ DOMAIN jobs \subseteq DOMAIN jobs'
        /\ \A m \in DOMAIN jobs : jobs'[m] = jobs[m]
        /\ \A m \in DOMAIN jobs' : m \in DOMAIN jobs \/ jobs'[m] = Pending("ingest_document", d, None)
        /\ Pending("ingest_document", d, None).kind = "ingest_document"
        /\ Pending("ingest_document", d, None).doc = d
    BY <1>0, <2>1, RowInserted
  <2>3. \A m \in DOMAIN jobs' : m \in DOMAIN jobs \/ RowKnown(m)'
    BY <2>1, <2>2 DEF RowKnown
  <2>4. Held'
    BY <1>0, <2>2 DEF Held
  <2>5. Data' /\ GoesOn /\ \A e \in Docs : DocKnown(e)'
    <3>1. faults' \in 0 .. MaxFaults
      BY <1>0, <2>1 DEF Data
    <3>2. QED
      BY <2>1, <2>2, <3>1, QuietGoesOn
  <2>6. QED
    BY <1>0, <2>2, <2>3, <2>4, <2>5, KnownKept
<1>4. QED
  BY <1>1, <1>2, <1>3

\* A worker goes on with its row, and nothing but chapters and rows behind the others
\* are written.
LEMMA GoesOnKeeps ==
  ASSUME IInv, NEW w \in Workers, NEW f \in Frame, frame' = [frame EXCEPT ![w] = f],
         frame[w].next # "idle", f.next # "idle", f.job = frame[w].job,
         UNCHANGED <<content, objects, doc, faults>>,
         chapters' \in [Docs -> [Chapters -> ChapterStatus]],
         \A d \in Docs, c \in Chapters : chapters[d][c] # "none" => chapters'[d][c] # "none",
         Rows', DOMAIN jobs \subseteq DOMAIN jobs', \A n \in DOMAIN jobs : jobs'[n] = jobs[n],
         \A n \in DOMAIN jobs' : n \in DOMAIN jobs \/ RowKnown(n)',
         WorkerKnown(w)'
  PROVE  IInv' /\ GoesOn
<1>1. Held'
  BY HeldGoesOn DEF IInv, Types
<1>2. Data' /\ GoesOn /\ \A d \in Docs : DocKnown(d)'
  BY DEF IInv, Types, Data, GoesOn, Known, DocKnown
<1>3. \A v \in Workers : frame'[v] = frame[v] \/ WorkerKnown(v)'
  BY DEF IInv, Types, Held
<1>4. QED
  BY <1>1, <1>2, <1>3, KnownKept

\* What FindDuplicate finds.
LEMMA FindLeads ==
  ASSUME IInv, NEW w \in Workers, FindDuplicate(w)
  PROVE  /\ frame[w].next = "dedup" /\ frame'[w] \in Frame /\ frame'[w].job = frame[w].job
         /\ frame' = [frame EXCEPT ![w] = frame'[w]]
         /\ \/ frame'[w].next = "extract"
            \/ /\ frame'[w].next = "copy-status" /\ frame'[w].dup \in Duplicates(D(w))
               /\ frame'[w].pointer = doc[frame'[w].dup].pointer
               /\ frame'[w].toc = doc[frame'[w].dup].toc
<1>0. frame \in [Workers -> Frame] /\ frame[w] \in Frame /\ frame[w].next = "dedup"
      /\ doc \in [Docs -> Doc]
  BY Zenon DEF IInv, Types, Held, Data, FindDuplicate, At
<1>1. "extract" \in Statement /\ "copy-status" \in Statement
  BY StatementIs
<1>2. CASE frame' = [frame EXCEPT ![w].next = "extract"]
  <2> DEFINE f == [frame[w] EXCEPT !.next = "extract"]
  <2>1. f \in Frame /\ f.next = "extract" /\ f.job = frame[w].job
    BY <1>0, <1>1, GoesType
  <2>2. frame' = [frame EXCEPT ![w] = f]
    BY <1>2
  <2> HIDE DEF f
  <2>3. frame'[w] = f
    BY <1>0, <2>2
  <2>4. QED
    BY <1>0, <2>1, <2>2, <2>3
<1>3. ASSUME NEW e \in Duplicates(D(w)),
             frame' = [frame EXCEPT ![w] = [frame[w] EXCEPT !.next = "copy-status", !.dup = e,
                         !.pointer = doc[e].pointer, !.toc = doc[e].toc]]
      PROVE  /\ frame'[w] \in Frame /\ frame'[w].job = frame[w].job
             /\ frame' = [frame EXCEPT ![w] = frame'[w]]
             /\ frame'[w].next = "copy-status" /\ frame'[w].dup = e
             /\ frame'[w].pointer = doc[e].pointer /\ frame'[w].toc = doc[e].toc
  <2> DEFINE f == [frame[w] EXCEPT !.next = "copy-status", !.dup = e,
                     !.pointer = doc[e].pointer, !.toc = doc[e].toc]
  <2>1. e \in Docs /\ doc[e].pointer \in Pointer /\ doc[e].toc \in TocStatus
    BY <1>0 DEF Duplicates, Doc
  <2>2. /\ f \in Frame /\ f.next = "copy-status" /\ f.job = frame[w].job /\ f.dup = e
        /\ f.pointer = doc[e].pointer /\ f.toc = doc[e].toc
    BY <1>0, <1>1, <2>1 DEF Frame
  <2>3. frame' = [frame EXCEPT ![w] = f]
    BY <1>3
  <2> HIDE DEF f
  <2>4. frame'[w] = f
    BY <1>0, <2>3
  <2>5. QED
    BY <2>2, <2>3, <2>4
<1>4. QED
  BY <1>0, <1>2, <1>3, Zenon DEF FindDuplicate

LEMMA FindKeeps ==
  ASSUME IInv, NEW w \in Workers, FindDuplicate(w)
  PROVE  IInv' /\ GoesOn
<1>1. /\ frame[w].next = "dedup" /\ frame'[w] \in Frame /\ frame'[w].job = frame[w].job
      /\ frame' = [frame EXCEPT ![w] = frame'[w]]
      /\ \/ frame'[w].next = "extract"
         \/ /\ frame'[w].next = "copy-status" /\ frame'[w].dup \in Duplicates(D(w))
            /\ frame'[w].pointer = doc[frame'[w].dup].pointer
  BY FindLeads
<1>2. UNCHANGED <<content, objects, doc, chapters, jobs, faults>>
  BY Zenon DEF FindDuplicate
<1>3. frame'[w].next = "copy-status" =>
        /\ frame'[w].dup \in Docs /\ doc[frame'[w].dup].chunks # "none" /\ frame'[w].pointer # "none"
  BY <1>1 DEF Duplicates, IInv, Known, DocKnown
<1>4. WorkerKnown(w)'
  BY <1>1, <1>2, <1>3 DEF WorkerKnown, Copying, WithText, WithPointer, Filling
<1>5. Rows' /\ chapters' \in [Docs -> [Chapters -> ChapterStatus]]
  BY <1>2 DEF IInv, Types, Rows, Data
<1>6. QED
  BY <1>1, <1>2, <1>4, <1>5, GoesOnKeeps

LEMMA DetectKeeps ==
  ASSUME IInv, NEW w \in Workers, EnqueueDetect(w)
  PROVE  IInv' /\ GoesOn
<1>1. /\ Step(w, "enqueue-detect", "ready") /\ Enqueue("detect_textbook_toc", D(w), None)
      /\ UNCHANGED <<content, objects, doc, chapters, faults>>
  BY DEF EnqueueDetect
<1>2. /\ frame[w].next = "enqueue-detect" /\ frame'[w] \in Frame /\ frame'[w].next = "ready"
      /\ frame' = [frame EXCEPT ![w] = frame'[w]] /\ frame'[w].job = frame[w].job
  BY <1>1, StepIs, StatementIs DEF IInv
<1>3. D(w) \in Docs /\ frame[w].job \in DOMAIN jobs
  BY <1>2, OwnRow DEF IInv
<1>4. /\ Rows' /\ DOMAIN jobs \subseteq DOMAIN jobs'
      /\ \A m \in DOMAIN jobs : jobs'[m] = jobs[m]
      /\ \A m \in DOMAIN jobs' : m \in DOMAIN jobs \/ jobs'[m] = Pending("detect_textbook_toc", D(w), None)
      /\ Pending("detect_textbook_toc", D(w), None).kind = "detect_textbook_toc"
      /\ Pending("detect_textbook_toc", D(w), None).doc = D(w)
  BY <1>1, <1>3, RowInserted DEF IInv, Types
<1>5. D(w)' = D(w)
  BY <1>2, <1>3, <1>4 DEF D
<1>6. doc[D(w)].status # "absent"
  BY <1>3 DEF IInv, Known, RowKnown, D
<1>7. \A n \in DOMAIN jobs' : n \in DOMAIN jobs \/ RowKnown(n)'
  BY <1>1, <1>4, <1>6 DEF RowKnown
<1>8. WorkerKnown(w)
  BY DEF IInv, Known
<1>9. WorkerKnown(w)'
  BY <1>1, <1>2, <1>5, <1>8 DEF WorkerKnown, Copying, WithText, WithPointer, Filling
<1>10. chapters' \in [Docs -> [Chapters -> ChapterStatus]]
  BY <1>1 DEF IInv, Types, Data
<1>11. QED
  BY <1>1, <1>2, <1>4, <1>7, <1>9, <1>10, GoesOnKeeps

LEMMA ListsLeads ==
  ASSUME IInv, NEW w \in Workers, ListsChapters(w)
  PROVE  /\ frame[w].next = "insert-chapters" /\ frame'[w] \in Frame
         /\ frame'[w].next = "enqueue-fills" /\ frame'[w].job = frame[w].job
         /\ frame'[w].todo = Chapters
         /\ frame' = [frame EXCEPT ![w] = frame'[w]]
         /\ D(w) \in Docs /\ Listed(D(w)) = {}
         /\ chapters' \in [Docs -> [Chapters -> ChapterStatus]]
         /\ \A c \in Chapters : chapters'[D(w)][c] = "pending"
         /\ \A d \in Docs : d # D(w) => chapters'[d] = chapters[d]
         /\ UNCHANGED <<content, objects, doc, jobs, faults>>
<1> DEFINE f == [frame[w] EXCEPT !.next = "enqueue-fills", !.todo = Chapters]
<1>1. /\ frame[w].next = "insert-chapters" /\ frame' = [frame EXCEPT ![w] = f]
      /\ chapters' = [chapters EXCEPT ![D(w)] = [c \in Chapters |-> "pending"]]
      /\ UNCHANGED <<content, objects, doc, jobs, faults>> /\ Listed(D(w)) = {}
      /\ frame \in [Workers -> Frame] /\ chapters \in [Docs -> [Chapters -> ChapterStatus]]
  BY DEF ListsChapters, At, IInv, Types, Held, Data
<1>2. frame[w] \in Frame /\ "enqueue-fills" \in Statement
  BY <1>1, StatementIs
<1>3. f \in Frame /\ f.next = "enqueue-fills" /\ f.job = frame[w].job /\ f.todo = Chapters
  BY <1>2 DEF Frame
<1> HIDE DEF f
<1>4. D(w) \in Docs /\ frame'[w] = f
  BY <1>1, OwnRow DEF IInv
<1>5. /\ chapters' \in [Docs -> [Chapters -> ChapterStatus]]
      /\ \A c \in Chapters : chapters'[D(w)][c] = "pending"
      /\ \A d \in Docs : d # D(w) => chapters'[d] = chapters[d]
  BY <1>1, <1>4 DEF ChapterStatus
<1>6. QED
  BY <1>1, <1>3, <1>4, <1>5

LEMMA ListsKeep ==
  ASSUME IInv, NEW w \in Workers, ListsChapters(w)
  PROVE  IInv' /\ GoesOn
<1>1. /\ frame[w].next = "insert-chapters" /\ frame'[w] \in Frame
      /\ frame'[w].next = "enqueue-fills" /\ frame'[w].job = frame[w].job
      /\ frame' = [frame EXCEPT ![w] = frame'[w]] /\ D(w) \in Docs /\ Listed(D(w)) = {}
      /\ chapters' \in [Docs -> [Chapters -> ChapterStatus]]
      /\ \A c \in Chapters : chapters'[D(w)][c] = "pending"
      /\ \A d \in Docs : d # D(w) => chapters'[d] = chapters[d]
      /\ UNCHANGED <<content, objects, doc, jobs, faults>>
  BY ListsLeads
<1>2. \A d \in Docs, c \in Chapters : chapters[d][c] # "none" => chapters'[d][c] # "none"
  BY <1>1
<1>3. D(w)' = D(w) /\ AllListed(D(w))'
  BY <1>1 DEF D, AllListed
<1>4. WorkerKnown(w)'
  BY <1>1, <1>3 DEF WorkerKnown, Copying, WithText, WithPointer, Filling
<1>5. Rows'
  BY <1>1, Zenon DEF IInv, Types, Rows
<1>6. QED
  BY <1>1, <1>2, <1>4, <1>5, GoesOnKeeps

LEMMA FillLeads ==
  ASSUME IInv, NEW w \in Workers, EnqueueFill(w)
  PROVE  \E c \in Chapters :
           /\ frame[w].next = "enqueue-fills" /\ frame'[w] \in Frame
           /\ frame'[w].next \in {"done", "enqueue-fills"} /\ frame'[w].job = frame[w].job
           /\ frame'[w].next = "done" => frame[w].todo = {c}
           /\ frame'[w].todo = frame[w].todo \ {c}
           /\ frame' = [frame EXCEPT ![w] = frame'[w]]
           /\ D(w) \in Docs /\ Enqueue("fill_textbook_chapter", D(w), c)
           /\ UNCHANGED <<content, objects, doc, chapters, faults>>
<1>0. frame \in [Workers -> Frame] /\ frame[w] \in Frame /\ frame[w].next = "enqueue-fills"
  BY DEF IInv, Types, Held, EnqueueFill, At
<1>1. PICK c \in frame[w].todo :
        /\ Enqueue("fill_textbook_chapter", D(w), c)
        /\ frame' = [frame EXCEPT ![w] = [frame[w] EXCEPT !.todo = frame[w].todo \ {c},
                       !.next = IF frame[w].todo = {c} THEN "done" ELSE frame[w].next]]
  BY <1>0, Zenon DEF EnqueueFill
<1>2. UNCHANGED <<content, objects, doc, chapters, faults>>
  BY DEF EnqueueFill
<1> DEFINE to == IF frame[w].todo = {c} THEN "done" ELSE frame[w].next
           rest == frame[w].todo \ {c}
           f == [frame[w] EXCEPT !.todo = rest, !.next = to]
<1>3. frame' = [frame EXCEPT ![w] = f]
  BY <1>1
<1>4. /\ to \in Statement /\ to \in {"done", "enqueue-fills"} /\ rest \in SUBSET Chapters
      /\ c \in Chapters /\ (to = "done" => frame[w].todo = {c})
  BY <1>0, <1>1, StatementIs DEF Frame
<1>5. rest = frame[w].todo \ {c}
  OBVIOUS
<1> HIDE DEF to, rest
<1>6. f \in Frame /\ f.next = to /\ f.job = frame[w].job /\ f.todo = rest
  BY <1>0, <1>4 DEF Frame
<1> HIDE DEF f
<1>7. D(w) \in Docs /\ frame'[w] = f
  BY <1>0, <1>3, OwnRow DEF IInv
<1>8. QED
  BY <1>0, <1>1, <1>2, <1>3, <1>4, <1>5, <1>6, <1>7, Zenon

LEMMA FillsKeep ==
  ASSUME IInv, NEW w \in Workers, EnqueueFill(w)
  PROVE  IInv' /\ GoesOn
<1>1. PICK c \in Chapters :
        /\ frame[w].next = "enqueue-fills" /\ frame'[w] \in Frame
        /\ frame'[w].next \in {"done", "enqueue-fills"} /\ frame'[w].job = frame[w].job
        /\ frame' = [frame EXCEPT ![w] = frame'[w]]
        /\ D(w) \in Docs /\ Enqueue("fill_textbook_chapter", D(w), c)
        /\ UNCHANGED <<content, objects, doc, chapters, faults>>
  BY FillLeads
<1>2. frame[w].job \in DOMAIN jobs
  BY <1>1, OwnRow DEF IInv
<1>3. AllListed(D(w)) /\ doc[D(w)].status # "absent"
  BY <1>1, <1>2 DEF IInv, Known, WorkerKnown, RowKnown, D
<1>4. /\ Rows' /\ DOMAIN jobs \subseteq DOMAIN jobs'
      /\ \A m \in DOMAIN jobs : jobs'[m] = jobs[m]
      /\ \A m \in DOMAIN jobs' : m \in DOMAIN jobs \/ jobs'[m] = Pending("fill_textbook_chapter", D(w), c)
      /\ Pending("fill_textbook_chapter", D(w), c).doc = D(w)
  BY <1>1, RowInserted DEF IInv, Types
<1>5. D(w)' = D(w) /\ AllListed(D(w))'
  BY <1>1, <1>2, <1>3, <1>4 DEF D, AllListed
<1>6. \A n \in DOMAIN jobs' : n \in DOMAIN jobs \/ RowKnown(n)'
  BY <1>1, <1>3, <1>4 DEF RowKnown, AllListed
<1>7. WorkerKnown(w)'
  BY <1>1, <1>5 DEF WorkerKnown, Copying, WithText, WithPointer, Filling
<1>8. /\ chapters' \in [Docs -> [Chapters -> ChapterStatus]]
      /\ \A d \in Docs, b \in Chapters : chapters[d][b] # "none" => chapters'[d][b] # "none"
  BY <1>1 DEF IInv, Types, Data
<1>9. QED
  BY <1>1, <1>4, <1>6, <1>7, <1>8, GoesOnKeeps

-----------------------------------------------------------------------------
(* IInv is inductive. *)

LEMMA InitIInv == Init => IInv
<1> SUFFICES ASSUME Init PROVE IInv
  OBVIOUS
<1>1. NoDoc \in Doc /\ NoDoc.status = "absent" /\ NoDoc.safeKey = FALSE
  BY DEF NoDoc, Doc, Pointer, TocStatus
<1>2. Data
  BY <1>1, IngestAssumption DEF Init, Data, ChapterStatus
<1>3. Rows
  <2>1. jobs \in Seq(Job) /\ Len(jobs) = 0 /\ DOMAIN jobs = 1 .. Len(jobs)
    BY EmptySeq, LenProperties DEF Init
  <2>2. MaxJobs \in Nat
    BY IngestAssumption
  <2>3. QED
    BY <2>1, <2>2 DEF Rows
<1>4. DOMAIN jobs = {}
  BY DEF Init
<1>5. frame \in [Workers -> Frame] /\ \A w \in Workers : frame[w].next = "idle" /\ frame[w].job = None
  BY IdleType DEF Init
<1>6. Held
  BY <1>5 DEF Held
<1>7. \A d \in Docs : DocKnown(d)
  BY <1>1 DEF Init, DocKnown
<1>8. \A w \in Workers : WorkerKnown(w)
  BY <1>5 DEF WorkerKnown, Copying, WithText, WithPointer, Filling
<1>9. QED
  BY <1>2, <1>3, <1>4, <1>6, <1>7, <1>8 DEF IInv, Types, Known

LEMMA StepIInv == IInv /\ [Next]_vars => IInv' /\ GoesOn
<1> SUFFICES ASSUME IInv, [Next]_vars PROVE IInv' /\ GoesOn
  OBVIOUS
<1>1. CASE UNCHANGED vars
  <2>1. UNCHANGED <<content, objects, doc, chapters, jobs, frame, faults>>
    BY <1>1 DEF vars
  <2>2. Data' /\ Rows' /\ Held' /\ GoesOn /\ \A d \in Docs : DocKnown(d)'
    BY <2>1 DEF IInv, Types, Data, Rows, Held, GoesOn, Known, DocKnown
  <2>3. QED
    BY <2>1, <2>2, KnownKept
<1>2. ASSUME NEW d \in Docs, PutRaw(d) \/ InsertDocument(d) \/ InsertJob(d) PROVE IInv' /\ GoesOn
  BY <1>2, WebKeeps
<1>3. ASSUME NEW n \in 1 .. MaxJobs, Reclaim(n) PROVE IInv' /\ GoesOn
  BY <1>3, ReclaimKeeps
<1>4. ASSUME NEW w \in Workers, Work(w) \/ CallFails(w) \/ Crash(w) PROVE IInv' /\ GoesOn
  <2>1. CASE Moves(w)
    <3>1. /\ MoveKeeps(w) /\ Held' /\ Rows' /\ jobs' = jobs
          /\ \A v \in Workers : v # w => frame'[v] = frame[v]
      BY <2>1, MovesKeep
    <3>2. \A v \in Workers : frame'[v] = frame[v] \/ WorkerKnown(v)'
      BY <3>1 DEF MoveKeeps
    <3>3. QED
      BY <3>1, <3>2, KnownKept DEF MoveKeeps
  <2>2. QED
    BY <1>4, <2>1, WorkCases, ClaimKeeps, FreesKeep, FindKeeps, DetectKeeps, ListsKeep, FillsKeep
    DEF IInv
<1>5. QED
  BY <1>1, <1>2, <1>3, <1>4 DEF Next

-----------------------------------------------------------------------------
(* The theorems about types, bytes and text. *)

\* Every run keeps the inductive invariant.
THEOREM IngestInvariant == Spec => []IInv
<1>1. QED
  BY InitIInv, StepIInv, PTL DEF Spec

\* Every run keeps the types, the budget of attempts included.
THEOREM IngestTypesCorrect == Spec => []TypeOK
<1>1. IInv => TypeOK
  <2> SUFFICES ASSUME IInv PROVE TypeOK
    OBVIOUS
  <2>1. \A n \in DOMAIN jobs : jobs[n] \in Job
    BY LenProperties, ElementOfSeq DEF IInv, Types, Rows
  <2>2. QED
    BY <2>1 DEF IInv, Types, Data, Rows, Held, TypeOK
<1>2. QED
  BY <1>1, IngestInvariant, PTL

\* Whatever dies during a move, the bytes of every upload are in some bucket, and in
\* the one its row points to (move_object, s3.py:38-45; pipeline.py:94-99).
THEOREM BytesAreKept == Spec => []NoBytesLost
<1>1. IInv => NoBytesLost
  BY DEF IInv, Known, DocKnown, NoBytesLost
<1>2. QED
  BY <1>1, IngestInvariant, PTL

\* A ready upload has its text and a pointer, whether it was extracted, resumed after a
\* crash or copied from a duplicate that other workers are still at.
THEOREM ReadyMeansRead == Spec => []ReadyHasText
<1>1. IInv => ReadyHasText
  BY DEF IInv, Known, DocKnown, ReadyHasText
<1>2. QED
  BY <1>1, IngestInvariant, PTL

-----------------------------------------------------------------------------
(* A book is ready only when its chapters are.  A chapter whose pages cannot be
   located is excluded: its job, run once more after a crash, takes it back from
   failed to filling while the last of the others declares the book ready. *)

WorkerGrown(w) ==
  /\ frame[w].next \in Copying /\ frame[w].toc = "ready" => AllReady(frame[w].dup)
  /\ frame[w].next = "copy-toc" /\ frame[w].toc = "ready" => AllReady(D(w))
  /\ frame[w].next = "book-ready" => AllReady(D(w))

NoneFailed == \A d \in Docs, c \in Chapters : chapters[d][c] # "failed"

Grown ==
  /\ NoneFailed
  /\ \A d \in Docs : doc[d].toc = "ready" => AllReady(d)
  /\ \A w \in Workers : WorkerGrown(w)

\* What a step does to the chapters and to the books declared ready.
Grows ==
  /\ NoneFailed'
  /\ \A d \in Docs : AllReady(d) => AllReady(d)'
  /\ \A d \in Docs : doc'[d].toc = "ready" => doc[d].toc = "ready" \/ AllReady(d)

LEMMA QuietGrows ==
  ASSUME Grown, chapters' = chapters, \A d \in Docs : doc'[d].toc = doc[d].toc
  PROVE  Grows
BY DEF Grows, Grown, NoneFailed, AllReady

LEMMA GrownKept ==
  ASSUME IInv, Grown, GoesOn, Grows,
         \A v \in Workers : frame'[v] = frame[v] \/ WorkerGrown(v)'
  PROVE  Grown'
<1>1. ASSUME NEW v \in Workers, frame'[v] = frame[v] PROVE WorkerGrown(v)'
  <2>1. frame[v].next \in Copying => frame[v].dup \in Docs
    BY DEF IInv, Known, WorkerKnown
  <2>2. frame[v].next \in {"copy-toc", "book-ready"} => D(v) \in Docs /\ D(v)' = D(v)
    BY <1>1, OwnRow DEF IInv, GoesOn, D
  <2>3. WorkerGrown(v)
    BY DEF Grown
  <2>4. QED
    BY <1>1, <2>1, <2>2, <2>3 DEF WorkerGrown, Grows
<1>2. QED
  BY <1>1 DEF Grown, Grows

LEMMA MoveGrows ==
  ASSUME LostChapters = {}, IInv, Grown, NEW w \in Workers, Moves(w), MoveKeeps(w)
  PROVE  Grows /\ WorkerGrown(w)'
<1>0. /\ doc \in [Docs -> Doc] /\ chapters \in [Docs -> [Chapters -> ChapterStatus]]
      /\ frame[w] \in Frame /\ WorkerKnown(w) /\ WorkerGrown(w)
  BY DEF IInv, Types, Data, Held, Known, Grown
<1>1. ASSUME NEW s \in Statement, NEW to \in Statement, Step(w, s, to), s # "idle", to # "idle",
             jobs' = jobs
      PROVE  /\ D(w)' = D(w) /\ D(w) \in Docs /\ frame[w].next = s /\ frame'[w].next = to
             /\ frame'[w].dup = frame[w].dup /\ frame'[w].toc = frame[w].toc
  BY <1>1, MoveHeld, StepIs DEF IInv
<1>2. ASSUME NEW s \in Statement, NEW to \in Statement, Step(w, s, to), jobs' = jobs, s # "idle",
             chapters' = chapters, \A d \in Docs : doc'[d].toc = doc[d].toc,
             \/ to \notin Copying \cup {"idle", "copy-toc", "book-ready"}
             \/ (s \in Copying /\ to \in Copying)
      PROVE  Grows /\ WorkerGrown(w)'
  <2>1. Grows
    BY <1>2, QuietGrows
  <2>2. to # "idle"
    BY <1>2 DEF Copying
  <2>3. QED
    BY <1>0, <1>1, <1>2, <2>1, <2>2 DEF WorkerGrown, AllReady, Copying
<1>3. ASSUME NEW s \in Statement, NEW to \in Statement, GoMove(s, to), Goto(w, s, to)
      PROVE  Grows /\ WorkerGrown(w)'
  BY <1>2, <1>3 DEF GoMove, Goto, Copying
<1>4. ASSUME NEW s \in Statement, NEW to \in Statement,
             NEW status \in {"scanning", "extracting", "indexing", "ready", "failed", "quarantined"},
             StatusMove(s, status, to), SetStatus(w, s, status, to)
      PROVE  Grows /\ WorkerGrown(w)'
  <2>1. /\ Step(w, s, to) /\ s # "idle" /\ to # "idle" /\ jobs' = jobs /\ chapters' = chapters
        /\ doc' = [doc EXCEPT ![D(w)].status = status]
    BY <1>4 DEF StatusMove, SetStatus
  <2>2. \A d \in Docs : doc'[d].toc = doc[d].toc
    BY <1>0, <1>1, <2>1, DocStatus
  <2>3. QED
    BY <1>2, <1>4, <2>1, <2>2 DEF StatusMove, Copying
<1>5. ASSUME NEW s \in Statement, NEW to \in Statement, NEW toc \in TocStatus,
             TocMove(s, toc, to), s = "copy-toc" => toc = frame[w].toc, SetToc(w, s, toc, to)
      PROVE  Grows /\ WorkerGrown(w)'
  <2>1. /\ Step(w, s, to) /\ s # "idle" /\ to # "idle" /\ jobs' = jobs /\ chapters' = chapters
        /\ doc' = [doc EXCEPT ![D(w)].toc = toc]
        /\ to \notin Copying \cup {"copy-toc", "book-ready"}
    BY <1>5 DEF TocMove, SetToc, Copying
  <2>2. /\ D(w) \in Docs /\ frame[w].next = s /\ frame'[w].next = to
    BY <1>1, <2>1
  <2>3. /\ doc'[D(w)].toc = toc /\ \A d \in Docs : d # D(w) => doc'[d] = doc[d]
    BY <1>0, <2>1, <2>2, DocToc
  <2>4. toc = "ready" => AllReady(D(w))
    BY <1>0, <1>5, <2>2 DEF TocMove, WorkerGrown
  <2>5. Grows
    BY <2>1, <2>2, <2>3, <2>4 DEF Grows, Grown, NoneFailed, AllReady
  <2>6. QED
    BY <2>1, <2>2, <2>5 DEF WorkerGrown
<1>6. ASSUME NEW s \in Statement, NEW to \in Statement, NEW bucket \in {"safe", "quarantine"},
             CopyMove(s, bucket, to), Copy(w, s, bucket, to)
      PROVE  Grows /\ WorkerGrown(w)'
  BY <1>2, <1>6 DEF CopyMove, Copy, Copying
<1>7. ASSUME NEW s \in Statement, NEW to \in Statement, DeleteMove(s, to), Delete(w, s, to)
      PROVE  Grows /\ WorkerGrown(w)'
  BY <1>2, <1>7 DEF DeleteMove, Delete, Copying
<1>8. ASSUME NEW s \in Statement, NEW to \in Statement, NEW status \in ChapterStatus,
             ChapterMove(w, s, status, to), SetChapter(w, s, status, to)
      PROVE  Grows /\ WorkerGrown(w)'
  <2>1. /\ Step(w, s, to) /\ s # "idle" /\ to # "idle" /\ jobs' = jobs /\ doc' = doc
        /\ chapters' = [chapters EXCEPT ![D(w)][C(w)] = status]
        /\ to \notin Copying \cup {"copy-toc", "book-ready"} /\ status # "failed"
        /\ status = "ready" \/ chapters[D(w)][C(w)] # "ready"
    BY <1>8 DEF ChapterMove, SetChapter, Copying
  <2>2. D(w) \in Docs /\ frame'[w].next = to /\ C(w) \in Chapters \cup {None}
    BY <1>1, <2>1, OwnRow DEF IInv
  <2>3. /\ \A d \in Docs, c \in Chapters :
             chapters'[d][c] = IF d = D(w) /\ c = C(w) THEN status ELSE chapters[d][c]
    BY <1>0, <2>1, <2>2
  <2>4. \A d \in Docs : AllReady(d) => AllReady(d)'
    BY <2>1, <2>3 DEF AllReady
  <2>5. NoneFailed'
    BY <2>1, <2>3 DEF Grown, NoneFailed
  <2>6. QED
    BY <2>1, <2>2, <2>4, <2>5 DEF Grows, WorkerGrown
<1>9. CASE SetSafeKey(w) \/ SetHash(w)
  <2>1. PICK s, to \in Statement :
          /\ Step(w, s, to) /\ s \in {"safe-key", "hash"} /\ to \in {"hash", "dedup"}
          /\ jobs' = jobs /\ chapters' = chapters
          /\ \/ doc' = [doc EXCEPT ![D(w)].safeKey = TRUE]
             \/ doc' = [doc EXCEPT ![D(w)].sha = TRUE]
    BY <1>9, StatementIs DEF SetSafeKey, SetHash
  <2>2. \A d \in Docs : doc'[d].toc = doc[d].toc
    BY <1>0, <1>1, <2>1, DocKeys
  <2>3. QED
    BY <1>2, <2>1, <2>2 DEF Copying
<1>10. ASSUME NEW s \in Statement, NEW to \in Statement, NEW c,
              Step(w, s, to), s # "idle", to # "idle", jobs' = jobs, chapters' = chapters,
              doc' = [doc EXCEPT ![D(w)].chunks = c] \/ doc' = [doc EXCEPT ![D(w)].pointer = c]
       PROVE  \A d \in Docs : doc'[d].toc = doc[d].toc
  <2>1. D(w) \in Docs
    BY <1>1, <1>10
  <2>2. ASSUME NEW r, r.toc = doc[D(w)].toc, doc' = [doc EXCEPT ![D(w)] = r]
        PROVE  \A d \in Docs : doc'[d].toc = doc[d].toc
    BY <1>0, <2>1, <2>2
  <2>3. /\ [doc[D(w)] EXCEPT !.chunks = c].toc = doc[D(w)].toc
        /\ [doc[D(w)] EXCEPT !.pointer = c].toc = doc[D(w)].toc
    BY <1>0, <2>1 DEF Doc
  <2>4. CASE doc' = [doc EXCEPT ![D(w)].chunks = c]
    BY <2>2, <2>3, <2>4
  <2>5. CASE doc' = [doc EXCEPT ![D(w)].pointer = c]
    BY <2>2, <2>3, <2>5
  <2>6. QED
    BY <1>10, <2>4, <2>5
<1>11. CASE CopyChunks(w) \/ CopyPointer(w) \/ InsertChunks(w) \/ Embed(w) \/ SetPointer(w)
  <2>1. PICK s, to \in Statement :
          /\ Step(w, s, to) /\ s # "idle" /\ to # "idle" /\ jobs' = jobs /\ chapters' = chapters
          /\ \/ to \notin Copying \cup {"idle", "copy-toc", "book-ready"}
             \/ s \in Copying /\ to \in Copying
          /\ \E c : doc' = [doc EXCEPT ![D(w)].chunks = c] \/ doc' = [doc EXCEPT ![D(w)].pointer = c]
    <3>1. CASE CopyChunks(w)
      BY <3>1, StatementIs DEF CopyChunks, Copying
    <3>2. CASE CopyPointer(w)
      BY <3>2, StatementIs DEF CopyPointer, Copying
    <3>3. CASE InsertChunks(w)
      BY <3>3, StatementIs DEF InsertChunks, Copying
    <3>4. CASE Embed(w)
      BY <3>4, StatementIs DEF Embed, Copying
    <3>5. CASE SetPointer(w)
      BY <3>5, StatementIs DEF SetPointer, Copying
    <3>6. QED
      BY <1>11, <3>1, <3>2, <3>3, <3>4, <3>5
  <2>2. \A d \in Docs : doc'[d].toc = doc[d].toc
    BY <1>10, <2>1
  <2>3. QED
    BY <1>2, <2>1, <2>2
<1>12. CASE Points(w)
  <2>1. /\ Step(w, "count", "book-ready") /\ Unfinished(D(w)) = {}
        /\ doc' = [doc EXCEPT ![D(w)].pointer = "book"]
        /\ jobs' = jobs /\ chapters' = chapters
        /\ "count" \in Statement /\ "book-ready" \in Statement
    BY <1>12, StatementIs DEF Points
  <2>2. \A d \in Docs : doc'[d].toc = doc[d].toc
    BY <1>10, <2>1
  <2>3. /\ D(w)' = D(w) /\ D(w) \in Docs /\ frame[w].next = "count" /\ frame'[w].next = "book-ready"
    BY <1>1, <2>1
  <2>4. AllListed(D(w))
    <3>1. frame[w].job \in DOMAIN jobs /\ jobs[frame[w].job].kind = "fill_textbook_chapter"
      BY <1>0, <2>3, OwnRow DEF IInv, WorkerKnown, Filling
    <3>2. QED
      BY <3>1 DEF IInv, Known, RowKnown, D
  <2>5. AllReady(D(w))
    BY <1>0, <2>1, <2>3, <2>4 DEF Grown, NoneFailed, AllListed, AllReady, Unfinished, ChapterStatus
  <2>6. Grows
    BY <2>1, <2>2, QuietGrows
  <2>7. QED
    BY <2>3, <2>5, <2>6 DEF WorkerGrown, Copying, Grows
<1>13. CASE CopiesTree(w)
  <2> DEFINE dup == frame[w].dup
  <2>1. /\ Step(w, "copy-tree", "copy-toc") /\ Listed(D(w)) \cap Listed(dup) = {}
        /\ jobs' = jobs /\ doc' = doc
        /\ chapters' = [chapters EXCEPT ![D(w)] = [c \in Chapters |->
                          IF chapters[dup][c] # "none" THEN chapters[dup][c] ELSE chapters[D(w)][c]]]
        /\ "copy-tree" \in Statement /\ "copy-toc" \in Statement
    BY <1>13, StatementIs DEF CopiesTree
  <2>2. /\ D(w)' = D(w) /\ D(w) \in Docs /\ frame[w].next = "copy-tree" /\ frame'[w].next = "copy-toc"
        /\ frame'[w].toc = frame[w].toc
    BY <1>1, <2>1
  <2>3. dup \in Docs /\ (frame[w].toc = "ready" => AllReady(dup))
    BY <1>0, <2>2 DEF WorkerKnown, WorkerGrown, Copying
  <2> HIDE DEF dup
  <2>4. \A d \in Docs, c \in Chapters :
          chapters'[d][c] = IF d = D(w) /\ chapters[dup][c] # "none" THEN chapters[dup][c]
                            ELSE chapters[d][c]
    BY <1>0, <2>1, <2>2, <2>3
  <2>5. NoneFailed'
    BY <2>3, <2>4 DEF Grown, NoneFailed
  <2>6. \A d \in Docs : AllReady(d) => AllReady(d)'
    <3>1. \A c \in Chapters : chapters[D(w)][c] = "ready" => chapters[dup][c] = "none"
      BY <2>1 DEF Listed
    <3>2. QED
      BY <2>4, <3>1 DEF AllReady
  <2>7. frame[w].toc = "ready" => AllReady(D(w))'
    BY <2>2, <2>3, <2>4 DEF AllReady
  <2>8. QED
    BY <2>1, <2>2, <2>5, <2>6, <2>7 DEF Grows, WorkerGrown, Copying
<1>14. QED
  BY <1>3, <1>4, <1>5, <1>6, <1>7, <1>8, <1>9, <1>11, <1>12, <1>13 DEF Moves

LEMMA StepGrows ==
  ASSUME LostChapters = {}, IInv, Grown, [Next]_vars
  PROVE  Grows /\ Grown'
<1>0. /\ doc \in [Docs -> Doc] /\ chapters \in [Docs -> [Chapters -> ChapterStatus]]
      /\ frame \in [Workers -> Frame] /\ GoesOn
  BY StepIInv DEF IInv, Types, Data, Held
<1>1. ASSUME Grows, \A v \in Workers : frame'[v] = frame[v] \/ WorkerGrown(v)'
      PROVE  Grows /\ Grown'
  BY <1>0, <1>1, GrownKept
<1>2. ASSUME chapters' = chapters, \A d \in Docs : doc'[d].toc = doc[d].toc,
             \A v \in Workers : \/ frame'[v] = frame[v]
                                \/ frame'[v].next \notin Copying \cup {"copy-toc", "book-ready"}
      PROVE  Grows /\ Grown'
  <2>1. \A v \in Workers : frame'[v] = frame[v] \/ WorkerGrown(v)'
    BY <1>2 DEF WorkerGrown
  <2>2. QED
    BY <1>1, <1>2, <2>1, QuietGrows
<1>3. CASE UNCHANGED vars
  BY <1>2, <1>3 DEF vars
<1>4. ASSUME NEW d \in Docs, PutRaw(d) \/ InsertDocument(d) \/ InsertJob(d) PROVE Grows /\ Grown'
  <2>1. chapters' = chapters /\ frame' = frame
    BY <1>4 DEF PutRaw, InsertDocument, InsertJob
  <2>2. \A e \in Docs : doc'[e].toc = doc[e].toc
    BY <1>0, <1>4, DocStatus DEF PutRaw, InsertDocument, InsertJob
  <2>3. QED
    BY <1>2, <2>1, <2>2
<1>5. ASSUME NEW n \in 1 .. MaxJobs, Reclaim(n) PROVE Grows /\ Grown'
  BY <1>2, <1>5 DEF Reclaim
<1>6. ASSUME NEW w \in Workers, Work(w) \/ CallFails(w) \/ Crash(w) PROVE Grows /\ Grown'
  <2>1. CASE Moves(w)
    <3>1. MoveKeeps(w) /\ \A v \in Workers : v # w => frame'[v] = frame[v]
      BY <2>1, MovesKeep
    <3>2. Grows /\ WorkerGrown(w)'
      BY <2>1, <3>1, MoveGrows
    <3>3. \A v \in Workers : frame'[v] = frame[v] \/ WorkerGrown(v)'
      BY <3>1, <3>2
    <3>4. QED
      BY <1>1, <3>2, <3>3
  <2>2. ASSUME NEW f, frame' = [frame EXCEPT ![w] = f], chapters' = chapters, doc' = doc,
               f.next \notin Copying \cup {"copy-toc", "book-ready"}
        PROVE  Grows /\ Grown'
    BY <1>0, <1>2, <2>2
  <2>3. CASE Claim(w)
    <3>1. PICK n \in DOMAIN jobs : frame' = [frame EXCEPT ![w] = Claimed(FirstStatement(jobs[n].kind), n)]
      BY <2>3, Zenon DEF Claim, Claimed
    <3>2. doc' = doc /\ chapters' = chapters
      BY <2>3 DEF Claim
    <3>3. jobs[n] \in Job /\ n \in 1 .. MaxJobs
      <4>1. jobs \in Seq(Job) /\ DOMAIN jobs = 1 .. Len(jobs) /\ Len(jobs) \in Nat /\ Len(jobs) <= MaxJobs
        BY LenProperties DEF IInv, Types, Rows
      <4>2. MaxJobs \in Nat
        BY IngestAssumption
      <4>3. QED
        BY <4>1, <4>2, ElementOfSeq
    <3> DEFINE s == FirstStatement(jobs[n].kind)
    <3>4. s \in {"begin", "detect", "fill"} /\ s \in Statement
      BY <3>3, StatementIs DEF FirstStatement, Job
    <3>5. Claimed(s, n).next = s
      BY <3>3, <3>4, ClaimedType
    <3> HIDE DEF s
    <3>6. Claimed(s, n).next \notin Copying \cup {"copy-toc", "book-ready"}
      BY <3>4, <3>5 DEF Copying
    <3>7. frame' = [frame EXCEPT ![w] = Claimed(s, n)]
      BY <3>1 DEF s
    <3>8. QED
      BY <2>2, <3>2, <3>6, <3>7
  <2>4. CASE Frees(w)
    <3>1. frame' = [frame EXCEPT ![w] = Idle] /\ doc' = doc /\ chapters' = chapters
      BY <2>4 DEF Frees, MarkDone, MarkFailed, Abandon
    <3>2. QED
      BY <2>2, <3>1, IdleType DEF Copying
  <2>5. CASE FindDuplicate(w)
    <3>1. doc' = doc /\ chapters' = chapters
      BY <2>5, Zenon DEF FindDuplicate
    <3>2. /\ frame' = [frame EXCEPT ![w] = frame'[w]]
          /\ \/ frame'[w].next = "extract"
             \/ /\ frame'[w].next = "copy-status" /\ frame'[w].dup \in Duplicates(D(w))
                /\ frame'[w].toc = doc[frame'[w].dup].toc
      BY <2>5, FindLeads
    <3>3. frame'[w].toc = "ready" /\ frame'[w].next = "copy-status" => AllReady(frame[w].dup)'
      BY <3>1, <3>2 DEF Grown, Duplicates, AllReady
    <3>4. WorkerGrown(w)'
      BY <3>2, <3>3 DEF WorkerGrown, Copying
    <3>5. \A v \in Workers : frame'[v] = frame[v] \/ WorkerGrown(v)'
      BY <1>0, <3>2, <3>4
    <3>6. QED
      BY <1>1, <3>1, <3>5, QuietGrows
  <2>6. CASE EnqueueDetect(w)
    <3>1. Step(w, "enqueue-detect", "ready") /\ doc' = doc /\ chapters' = chapters
      BY <2>6 DEF EnqueueDetect
    <3>2. frame' = [frame EXCEPT ![w] = frame'[w]] /\ frame'[w].next = "ready"
      BY <3>1, StepIs, StatementIs DEF IInv
    <3>3. QED
      BY <2>2, <3>1, <3>2 DEF Copying
  <2>7. CASE ListsChapters(w)
    <3>1. /\ Listed(D(w)) = {} /\ frame'[w].next = "enqueue-fills"
          /\ frame' = [frame EXCEPT ![w] = frame'[w]] /\ doc' = doc
          /\ \A c \in Chapters : chapters'[D(w)][c] = "pending"
          /\ \A d \in Docs : d # D(w) => chapters'[d] = chapters[d]
      BY <2>7, ListsLeads
    <3>2. AllReady(D(w)) => Chapters = {}
      BY <3>1 DEF AllReady, Listed
    <3>3. Grows
      BY <3>1, <3>2 DEF Grows, Grown, NoneFailed, AllReady
    <3>4. WorkerGrown(w)' /\ \A v \in Workers : v # w => frame'[v] = frame[v]
      BY <1>0, <3>1 DEF WorkerGrown, Copying
    <3>5. QED
      BY <1>1, <3>3, <3>4
  <2>8. CASE EnqueueFill(w)
    <3>1. /\ frame'[w].next \in {"done", "enqueue-fills"} /\ doc' = doc /\ chapters' = chapters
          /\ frame' = [frame EXCEPT ![w] = frame'[w]]
      BY <2>8, FillLeads
    <3>2. QED
      BY <2>2, <3>1 DEF Copying
  <2>9. QED
    BY <1>6, <2>1, <2>3, <2>4, <2>5, <2>6, <2>7, <2>8, WorkCases DEF IInv
<1>7. QED
  BY <1>3, <1>4, <1>5, <1>6 DEF Next

LEMMA InitGrown == Init => Grown
<1> SUFFICES ASSUME Init PROVE Grown
  OBVIOUS
<1>1. \A d \in Docs : doc[d].toc = "not_applicable"
  BY DEF Init, NoDoc
<1>2. NoneFailed
  BY DEF Init, NoneFailed
<1>3. \A w \in Workers : frame[w].next = "idle"
  BY IdleType DEF Init
<1>4. QED
  BY <1>1, <1>2, <1>3 DEF Grown, WorkerGrown, Copying

\* When every chapter's pages can be found, a book is declared ready only when none of its
\* chapters waits or is being filled, by the last fill or from a duplicate, crashes and
\* retries included (chapters.py:200-205).
THEOREM BooksAreFilled == LostChapters = {} => (Spec => BookReadyWhenFilled)
<1> SUFFICES ASSUME LostChapters = {} PROVE Spec => BookReadyWhenFilled
  OBVIOUS
<1> DEFINE Filled == \A d \in Docs : doc'[d].toc = "ready" /\ doc[d].toc # "ready" =>
                       \A c \in Chapters : chapters[d][c] \notin {"pending", "filling"}
<1>1. Init => Grown
  BY InitGrown
<1>2. IInv /\ Grown /\ [Next]_vars => Grown' /\ [Filled]_vars
  <2> SUFFICES ASSUME IInv, Grown, [Next]_vars PROVE Grown' /\ Filled
    OBVIOUS
  <2>1. Grows /\ Grown'
    BY StepGrows
  <2>2. Filled
    BY <2>1 DEF Grows, AllReady
  <2>3. QED
    BY <2>1, <2>2
<1>3. QED
  BY <1>1, <1>2, IngestInvariant, PTL DEF Spec, BookReadyWhenFilled

-----------------------------------------------------------------------------
(* A tree under way has a job.  Without faults, a detection or a fill that stops is
   one that is finished with what it was there for.  A copied tree has no job of its
   own, whatever its toc_status says, and a lost chapter returns before the count. *)

\* The row will be run from its first statement, or is not past the statements S.
LiveAt(n, S) ==
  \/ jobs[n].status = "pending"
  \/ /\ jobs[n].status = "running"
     /\ \A w \in Workers : frame[w].job = n => frame[w].next \in S

DetectingTree == {"detect", "build"}
FillingText   == {"fill", "locate", "write-chapter"}
Counting      == {"write-sections", "count", "book-ready"}

WillDetect(d) ==
  \E n \in DOMAIN jobs :
    jobs[n].doc = d /\ jobs[n].kind = "detect_textbook_toc" /\ LiveAt(n, DetectingTree)

WillFill(d, c) ==
  \E n \in DOMAIN jobs :
    /\ jobs[n].doc = d /\ jobs[n].kind = "fill_textbook_chapter" /\ jobs[n].chapter = c
    /\ LiveAt(n, FillingText)

Busy(d, S) == \E w \in Workers : frame[w].next \in S /\ D(w) = d

WillEnqueue(d, c) ==
  \E w \in Workers : frame[w].next = "enqueue-fills" /\ D(w) = d /\ c \in frame[w].todo

PendingTree(d)  == Busy(d, {"enqueue-detect"}) \/ WillDetect(d)
BuildingTree(d) ==
  \/ Busy(d, {"insert-chapters"}) \/ WillDetect(d)
  \/ AllListed(d) /\ (AllReady(d) => Busy(d, Counting))
OpenChapter(d, c) == WillFill(d, c) \/ WillEnqueue(d, c)

TreeKnown(d) ==
  /\ doc[d].toc = "pending" => PendingTree(d)
  /\ doc[d].toc = "building" => BuildingTree(d)
  /\ \A c \in Chapters : chapters[d][c] \in {"pending", "filling"} => OpenChapter(d, c)

WorkerTree(w) ==
  /\ frame[w].next \notin Copying \cup {"copy-toc", "copied"}
  /\ frame[w].next \in {"detect", "build", "insert-chapters", "enqueue-fills"} =>
       jobs[frame[w].job].kind = "detect_textbook_toc"
  /\ frame[w].next \in {"build", "insert-chapters"} => Chapters # {}

RowTree(n) == jobs[n].kind = "fill_textbook_chapter" => jobs[n].chapter \in Chapters

Trees ==
  /\ \A d \in Docs : TreeKnown(d)
  /\ \A w \in Workers : WorkerTree(w)
  /\ \A n \in DOMAIN jobs : RowTree(n)

\* No two uploads have the same content.
Distinct == \A d, e \in Docs : content[d] = content[e] => d = e

\* What a step without a fault does to one row and the worker that holds it.
RowStep(n) ==
  \/ jobs'[n].status = "pending"
  \/ /\ jobs'[n].status = jobs[n].status
     /\ \A v \in Workers : frame'[v].job = n => frame[v].job = n
  \/ /\ jobs'[n].status = "running"
     /\ \A v \in Workers : frame'[v].job = n => frame'[v].next = FirstStatement(jobs[n].kind)
  \/ \E v \in Workers : frame[v].job = n /\ frame[v].next \in {"done", "permanent", "scan", "chunk"}

\* A worker on d stays within the statements S, and with its row.
StaysFor(d, S) ==
  \A v \in Workers : frame[v].next \in S /\ D(v) = d =>
    frame'[v].next \in S /\ frame'[v].job = frame[v].job

LEMMA LiveKept ==
  ASSUME IInv, NEW n \in DOMAIN jobs, RowStep(n), NEW S, LiveAt(n, S),
         FirstStatement(jobs[n].kind) \in S, S \cap {"idle", "done", "permanent", "scan", "chunk"} = {},
         \A v \in Workers : frame[v].job = n /\ frame'[v].job = n /\ frame[v].next \in S =>
           frame'[v].next \in S
  PROVE  LiveAt(n, S)'
<1>1. CASE \E v \in Workers : frame[v].job = n /\ frame[v].next \in {"done", "permanent", "scan", "chunk"}
  <2>1. PICK v \in Workers : frame[v].job = n /\ frame[v].next \in {"done", "permanent", "scan", "chunk"}
    BY <1>1
  <2>2. jobs[n].status = "running"
    BY <2>1, OwnRow DEF IInv
  <2>3. QED
    BY <2>1, <2>2 DEF LiveAt
<1>2. QED
  BY <1>1 DEF RowStep, LiveAt

LEMMA BusyKept ==
  ASSUME IInv, GoesOn, NEW d, NEW S, "idle" \notin S, StaysFor(d, S), Busy(d, S)
  PROVE  Busy(d, S)'
<1>1. PICK w \in Workers : frame[w].next \in S /\ D(w) = d
  BY DEF Busy
<1>2. frame'[w].next \in S /\ frame'[w].job = frame[w].job /\ frame[w].job \in DOMAIN jobs
  BY <1>1, OwnRow DEF StaysFor, IInv
<1>3. D(w)' = d
  BY <1>1, <1>2 DEF D, GoesOn
<1>4. QED
  BY <1>2, <1>3 DEF Busy

LEMMA WillDetectKept ==
  ASSUME IInv, GoesOn, \A n \in DOMAIN jobs : RowStep(n), NEW d, StaysFor(d, DetectingTree),
         WillDetect(d)
  PROVE  WillDetect(d)'
<1>1. PICK n \in DOMAIN jobs :
        jobs[n].doc = d /\ jobs[n].kind = "detect_textbook_toc" /\ LiveAt(n, DetectingTree)
  BY DEF WillDetect
<1>2. FirstStatement(jobs[n].kind) = "detect"
  BY <1>1 DEF FirstStatement
<1>3. \A v \in Workers : frame[v].job = n /\ frame[v].next \in DetectingTree =>
        frame'[v].next \in DetectingTree
  BY <1>1 DEF StaysFor, D
<1>4. LiveAt(n, DetectingTree)'
  <2>1. "detect" \in DetectingTree /\ DetectingTree \cap {"idle", "done", "permanent", "scan", "chunk"} = {}
    BY DEF DetectingTree
  <2>2. QED
    BY <1>1, <1>2, <1>3, <2>1, LiveKept
<1>5. QED
  BY <1>1, <1>4 DEF WillDetect, GoesOn

LEMMA WillFillKept ==
  ASSUME IInv, GoesOn, \A n \in DOMAIN jobs : RowStep(n), NEW d, NEW c, WillFill(d, c),
         \A v \in Workers : frame[v].next \in FillingText /\ D(v) = d /\ C(v) = c =>
           frame'[v].next \in FillingText /\ frame'[v].job = frame[v].job
  PROVE  WillFill(d, c)'
<1>1. PICK n \in DOMAIN jobs :
        /\ jobs[n].doc = d /\ jobs[n].kind = "fill_textbook_chapter" /\ jobs[n].chapter = c
        /\ LiveAt(n, FillingText)
  BY DEF WillFill
<1>2. FirstStatement(jobs[n].kind) = "fill"
  BY <1>1 DEF FirstStatement
<1>3. \A v \in Workers : frame[v].job = n /\ frame[v].next \in FillingText =>
        frame'[v].next \in FillingText
  BY <1>1 DEF D, C
<1>4. LiveAt(n, FillingText)'
  <2>1. "fill" \in FillingText /\ FillingText \cap {"idle", "done", "permanent", "scan", "chunk"} = {}
    BY DEF FillingText
  <2>2. QED
    BY <1>1, <1>2, <1>3, <2>1, LiveKept
<1>5. QED
  BY <1>1, <1>4 DEF WillFill, GoesOn

LEMMA WillEnqueueKept ==
  ASSUME IInv, GoesOn, NEW d, NEW c, WillEnqueue(d, c),
         \A v \in Workers : frame[v].next = "enqueue-fills" /\ D(v) = d /\ c \in frame[v].todo =>
           /\ frame'[v].next = "enqueue-fills" /\ frame'[v].job = frame[v].job
           /\ c \in frame'[v].todo
  PROVE  WillEnqueue(d, c)'
<1>1. PICK w \in Workers : frame[w].next = "enqueue-fills" /\ D(w) = d /\ c \in frame[w].todo
  BY DEF WillEnqueue
<1>2. /\ frame'[w].next = "enqueue-fills" /\ frame'[w].job = frame[w].job /\ c \in frame'[w].todo
      /\ frame[w].job \in DOMAIN jobs
  BY <1>1, OwnRow DEF IInv
<1>3. D(w)' = d
  BY <1>1, <1>2 DEF D, GoesOn
<1>4. QED
  BY <1>2, <1>3 DEF WillEnqueue

\* No worker changes: everything that keeps a tree going is still there.
LEMMA TreeOfIdle ==
  ASSUME IInv, GoesOn, \A n \in DOMAIN jobs : RowStep(n), frame' = frame,
         NEW d \in Docs, TreeKnown(d), doc'[d].toc = doc[d].toc, chapters' = chapters
  PROVE  TreeKnown(d)'
<1>1. \A S : StaysFor(d, S)
  BY DEF StaysFor
<1>2. /\ Busy(d, {"enqueue-detect"}) => Busy(d, {"enqueue-detect"})'
      /\ Busy(d, {"insert-chapters"}) => Busy(d, {"insert-chapters"})'
      /\ Busy(d, Counting) => Busy(d, Counting)'
  BY <1>1, BusyKept DEF Counting
<1>3. WillDetect(d) => WillDetect(d)'
  BY <1>1, WillDetectKept
<1>4. \A c \in Chapters : OpenChapter(d, c) => OpenChapter(d, c)'
  BY WillFillKept, WillEnqueueKept DEF OpenChapter
<1>5. QED
  BY <1>2, <1>3, <1>4 DEF TreeKnown, PendingTree, BuildingTree, AllListed, AllReady

-----------------------------------------------------------------------------
(* One worker moves. *)

OneMoves(w) == \A v \in Workers : v # w => frame'[v] = frame[v]

\* The worker w was one of those at S for d, and is no longer.
Leaves(w, d, S) ==
  /\ frame[w].next \in S /\ D(w) = d
  /\ ~(frame'[w].next \in S /\ frame'[w].job = frame[w].job)

LEMMA PartsKept ==
  ASSUME IInv, GoesOn, \A n \in DOMAIN jobs : RowStep(n), NEW w \in Workers, OneMoves(w),
         NEW d \in Docs
  PROVE  /\ ~Leaves(w, d, {"enqueue-detect"}) /\ Busy(d, {"enqueue-detect"}) =>
              Busy(d, {"enqueue-detect"})'
         /\ ~Leaves(w, d, {"insert-chapters"}) /\ Busy(d, {"insert-chapters"}) =>
              Busy(d, {"insert-chapters"})'
         /\ ~Leaves(w, d, Counting) /\ Busy(d, Counting) => Busy(d, Counting)'
         /\ ~Leaves(w, d, DetectingTree) /\ WillDetect(d) => WillDetect(d)'
         /\ \A c \in Chapters :
              ~(Leaves(w, d, FillingText) /\ C(w) = c) /\ WillFill(d, c) => WillFill(d, c)'
         /\ \A c \in Chapters :
              ~(frame[w].next = "enqueue-fills" /\ D(w) = d) /\ WillEnqueue(d, c) => WillEnqueue(d, c)'
<1>1. \A S : ~Leaves(w, d, S) => StaysFor(d, S)
  BY DEF OneMoves, Leaves, StaysFor
<1>2. ASSUME NEW S, "idle" \notin S, ~Leaves(w, d, S), Busy(d, S) PROVE Busy(d, S)'
  BY <1>1, <1>2, BusyKept
<1>3. "idle" \notin {"enqueue-detect"} /\ "idle" \notin {"insert-chapters"} /\ "idle" \notin Counting
  BY DEF Counting
<1>4. ASSUME ~Leaves(w, d, DetectingTree), WillDetect(d) PROVE WillDetect(d)'
  BY <1>1, <1>4, WillDetectKept
<1>5. ASSUME NEW c \in Chapters, ~(Leaves(w, d, FillingText) /\ C(w) = c), WillFill(d, c)
      PROVE  WillFill(d, c)'
  <2>1. \A v \in Workers : frame[v].next \in FillingText /\ D(v) = d /\ C(v) = c =>
          frame'[v].next \in FillingText /\ frame'[v].job = frame[v].job
    BY <1>5 DEF OneMoves, Leaves
  <2>2. QED
    BY <1>5, <2>1, WillFillKept
<1>6. ASSUME NEW c \in Chapters, ~(frame[w].next = "enqueue-fills" /\ D(w) = d), WillEnqueue(d, c)
      PROVE  WillEnqueue(d, c)'
  <2>1. \A v \in Workers : frame[v].next = "enqueue-fills" /\ D(v) = d /\ c \in frame[v].todo =>
          /\ frame'[v].next = "enqueue-fills" /\ frame'[v].job = frame[v].job
          /\ c \in frame'[v].todo
    BY <1>6 DEF OneMoves
  <2>2. QED
    BY <1>6, <2>1, WillEnqueueKept
<1>7. QED
  BY <1>2, <1>3, <1>4, <1>5, <1>6

\* The tree of d when the worker leaves nothing of d that matters.
LEMMA TreeKept ==
  ASSUME IInv, GoesOn, \A n \in DOMAIN jobs : RowStep(n), NEW w \in Workers, OneMoves(w),
         NEW d \in Docs, TreeKnown(d), doc'[d].toc = doc[d].toc, chapters'[d] = chapters[d],
         \/ D(w) # d
         \/ /\ frame[w].next # "enqueue-fills"
            /\ \A S \in {{"enqueue-detect"}, {"insert-chapters"}, DetectingTree, FillingText, Counting} :
                 ~Leaves(w, d, S)
  PROVE  TreeKnown(d)'
<1>1. \A S \in {{"enqueue-detect"}, {"insert-chapters"}, DetectingTree, FillingText, Counting} :
        ~Leaves(w, d, S)
  BY DEF Leaves
<1>2. /\ Busy(d, {"enqueue-detect"}) => Busy(d, {"enqueue-detect"})'
      /\ Busy(d, {"insert-chapters"}) => Busy(d, {"insert-chapters"})'
      /\ Busy(d, Counting) => Busy(d, Counting)'
      /\ WillDetect(d) => WillDetect(d)'
      /\ \A c \in Chapters : OpenChapter(d, c) => OpenChapter(d, c)'
  BY <1>1, PartsKept DEF OpenChapter
<1>3. QED
  BY <1>2 DEF TreeKnown, PendingTree, BuildingTree, AllListed, AllReady

LEMMA RowSteps ==
  ASSUME MaxFaults = 0, IInv, [Next]_vars
  PROVE  \A n \in DOMAIN jobs : RowStep(n)
<1>0. /\ frame \in [Workers -> Frame] /\ DOMAIN jobs = 1 .. Len(jobs) /\ Len(jobs) \in Nat
      /\ None \notin DOMAIN jobs /\ None \notin Nat /\ MaxJobs \in Nat /\ Len(jobs) <= MaxJobs
      /\ faults = 0
  <2>1. DOMAIN jobs = 1 .. Len(jobs) /\ Len(jobs) \in Nat
    BY LenProperties DEF IInv, Types, Rows
  <2>2. None \notin Nat /\ MaxJobs \in Nat
    BY IngestAssumption
  <2>3. QED
    BY <2>1, <2>2 DEF IInv, Types, Held, Data, Rows
<1>1. ASSUME \A n \in DOMAIN jobs : jobs'[n] = jobs[n],
             \A v \in Workers : frame'[v].job = frame[v].job \/ frame'[v].job = None
      PROVE  \A n \in DOMAIN jobs : RowStep(n)
  BY <1>0, <1>1 DEF RowStep
<1>2. CASE UNCHANGED vars
  BY <1>1, <1>2 DEF vars
<1>3. ASSUME NEW d \in Docs, PutRaw(d) \/ InsertDocument(d) \/ InsertJob(d)
      PROVE  \A n \in DOMAIN jobs : RowStep(n)
  <2>1. frame' = frame /\ (jobs' = jobs \/ Enqueue("ingest_document", d, None))
    BY <1>3 DEF PutRaw, InsertDocument, InsertJob
  <2>2. \A n \in DOMAIN jobs : jobs'[n] = jobs[n]
    BY <2>1, RowInserted DEF IInv, Types
  <2>3. QED
    BY <1>1, <2>1, <2>2
<1>4. ASSUME NEW m \in 1 .. MaxJobs, Reclaim(m) PROVE \A n \in DOMAIN jobs : RowStep(n)
  <2>1. /\ m \in DOMAIN jobs /\ frame' = frame
        /\ jobs' = [jobs EXCEPT ![m] = [jobs[m] EXCEPT !.status = "pending"]]
    BY <1>4 DEF Reclaim
  <2>2. jobs[m] \in Job
    BY <1>0, <2>1, ElementOfSeq DEF IInv, Types, Rows
  <2>3. jobs'[m].status = "pending" /\ \A n \in DOMAIN jobs : n # m => jobs'[n] = jobs[n]
    BY <2>1, <2>2 DEF Job
  <2>4. QED
    BY <2>1, <2>3 DEF RowStep
<1>5. ASSUME NEW w \in Workers, Work(w) \/ CallFails(w) \/ Crash(w)
      PROVE  \A n \in DOMAIN jobs : RowStep(n)
  <2>1. CASE Moves(w)
    BY <1>1, <2>1, MovesKeep
  <2>2. CASE Claim(w)
    <3>1. PICK m \in DOMAIN jobs :
            /\ jobs[m].status = "pending"
            /\ jobs' = [jobs EXCEPT ![m].status = "running"]
            /\ frame' = [frame EXCEPT ![w] = Claimed(FirstStatement(jobs[m].kind), m)]
      BY <2>2, Zenon DEF Claim, Claimed
    <3>2. jobs[m] \in Job /\ m \in 1 .. MaxJobs
      BY <1>0, ElementOfSeq DEF IInv, Types, Rows
    <3>3. jobs'[m].status = "running" /\ \A n \in DOMAIN jobs : n # m => jobs'[n] = jobs[n]
      BY <3>1, <3>2 DEF Job
    <3> DEFINE s == FirstStatement(jobs[m].kind)
    <3>4. s \in Statement
      BY <3>2, StatementIs DEF FirstStatement, Job
    <3>5. Claimed(s, m).next = s /\ Claimed(s, m).job = m
      BY <3>2, <3>4, ClaimedType
    <3>6. \A v \in Workers : frame'[v] = IF v = w THEN Claimed(s, m) ELSE frame[v]
      BY <1>0, <3>1
    <3>7. \A v \in Workers : frame[v].job # m
      <4>1. ASSUME NEW v \in Workers, frame[v].job = m PROVE FALSE
        <5>1. frame[v].next # "idle"
          BY <1>0, <4>1 DEF IInv, Types, Held
        <5>2. QED
          BY <3>1, <4>1, <5>1, OwnRow DEF IInv
      <4>2. QED
        BY <4>1
    <3>8. RowStep(m)
      BY <3>3, <3>5, <3>6, <3>7 DEF RowStep
    <3>9. \A n \in DOMAIN jobs : n # m => RowStep(n)
      BY <3>3, <3>5, <3>6 DEF RowStep
    <3>10. QED
      BY <3>8, <3>9
  <2>3. CASE Frees(w)
    <3> DEFINE m == frame[w].job
    <3>1. m \in DOMAIN jobs
      BY <2>3, OwnRow DEF Frees, At, IInv
    <3>2. frame' = [frame EXCEPT ![w] = Idle]
      BY <2>3 DEF Frees, MarkDone, MarkFailed, Abandon
    <3>3. \A v \in Workers : frame'[v] = frame[v] \/ frame'[v].job = None
      BY <1>0, <3>2, IdleType
    <3>4. \A n \in DOMAIN jobs : n # m => jobs'[n] = jobs[n]
      <4>1. ASSUME NEW j, jobs' = [jobs EXCEPT ![m] = j]
            PROVE  \A n \in DOMAIN jobs : n # m => jobs'[n] = jobs[n]
        BY <3>1, <4>1
      <4>2. CASE MarkDone(w)
        BY <4>1, <4>2 DEF MarkDone
      <4>3. ASSUME NEW permanent \in BOOLEAN, MarkFailed(w, permanent)
            PROVE  \A n \in DOMAIN jobs : n # m => jobs'[n] = jobs[n]
        <5> DEFINE a == jobs[m].attempts + 1
                   s == IF permanent \/ a >= MaxAttempts THEN "failed" ELSE "pending"
        <5>1. jobs' = [jobs EXCEPT ![m] = Updated(jobs[m], a, s)]
          BY <3>1, <4>3, Zenon DEF MarkFailed, Updated
        <5> HIDE DEF a, s
        <5>2. QED
          BY <4>1, <5>1
      <4>4. CASE Abandon(w)
        BY <4>4 DEF Abandon
      <4>5. QED
        BY <2>3, <4>2, <4>3, <4>4 DEF Frees
    <3>5. RowStep(m)
      <4>1. faults' = faults
        BY <1>0, <2>3 DEF Frees
      <4>2. CASE frame[w].next \in {"done", "permanent", "scan", "chunk"}
        BY <4>2 DEF RowStep
      <4>3. CASE Abandon(w)
        BY <1>0, <3>1, <3>3, <4>3 DEF Abandon, RowStep
      <4>4. QED
        BY <2>3, <4>1, <4>2, <4>3 DEF Frees
    <3>6. \A n \in DOMAIN jobs : n # m => RowStep(n)
      BY <1>0, <3>3, <3>4 DEF RowStep
    <3>7. QED
      BY <3>5, <3>6
  <2>4. CASE FindDuplicate(w)
    <3>1. jobs' = jobs
      BY <2>4, Zenon DEF FindDuplicate
    <3>2. \A v \in Workers : frame'[v].job = frame[v].job
      BY <1>0, <2>4, FindLeads
    <3>3. QED
      BY <1>1, <3>1, <3>2
  <2>5. CASE EnqueueDetect(w)
    <3>1. /\ Step(w, "enqueue-detect", "ready") /\ Enqueue("detect_textbook_toc", D(w), None)
      BY <2>5 DEF EnqueueDetect
    <3>2. frame[w].next = "enqueue-detect" /\ \A v \in Workers : frame'[v].job = frame[v].job
      BY <3>1, StepIs, StatementIs DEF IInv
    <3>3. \A n \in DOMAIN jobs : jobs'[n] = jobs[n]
      BY <3>1, <3>2, OwnRow, RowInserted DEF IInv, Types
    <3>4. QED
      BY <1>1, <3>2, <3>3
  <2>6. CASE ListsChapters(w)
    <3>1. jobs' = jobs /\ frame' = [frame EXCEPT ![w] = frame'[w]] /\ frame'[w].job = frame[w].job
      BY <2>6, ListsLeads
    <3>2. QED
      BY <1>0, <1>1, <3>1
  <2>7. CASE EnqueueFill(w)
    <3>1. PICK c \in Chapters :
            /\ frame' = [frame EXCEPT ![w] = frame'[w]] /\ frame'[w].job = frame[w].job
            /\ D(w) \in Docs /\ Enqueue("fill_textbook_chapter", D(w), c)
      BY <2>7, FillLeads
    <3>2. \A n \in DOMAIN jobs : jobs'[n] = jobs[n]
      BY <3>1, RowInserted DEF IInv, Types
    <3>3. QED
      BY <1>0, <1>1, <3>1, <3>2
  <2>8. QED
    BY <1>5, <2>1, <2>2, <2>3, <2>4, <2>5, <2>6, <2>7, WorkCases DEF IInv
<1>6. QED
  BY <1>2, <1>3, <1>4, <1>5 DEF Next

-----------------------------------------------------------------------------
(* The tree of the worker's own document, by what the worker does. *)

\* The worker w takes a step of its own.
Going(w) ==
  /\ IInv /\ IInv' /\ Grown /\ Grown' /\ Grows /\ Trees /\ GoesOn
  /\ \A n \in DOMAIN jobs : RowStep(n)
  /\ OneMoves(w) /\ frame[w].next # "idle" /\ frame'[w].job = frame[w].job

LEMMA OwnTree ==
  ASSUME NEW w \in Workers, Going(w)
  PROVE  /\ D(w) \in Docs /\ D(w)' = D(w) /\ C(w)' = C(w) /\ TreeKnown(D(w))
         /\ frame[w].job \in DOMAIN jobs /\ frame[w].job \in DOMAIN jobs'
         /\ jobs'[frame[w].job].kind = jobs[frame[w].job].kind
         /\ WorkerTree(w) /\ WorkerKnown(w) /\ frame[w] \in Frame
         /\ chapters[D(w)] \in [Chapters -> ChapterStatus]
<1>1. D(w) \in Docs /\ frame[w].job \in DOMAIN jobs
  BY OwnRow DEF Going, IInv
<1>2. QED
  BY <1>1 DEF Going, Trees, GoesOn, D, C, IInv, Types, Data, Held, Known

\* The worker's own row, at a statement of S.
LEMMA OwnLive ==
  ASSUME NEW w \in Workers, Going(w), NEW n, n = frame[w].job, NEW S, frame'[w].next \in S,
         frame'[w].next # "idle"
  PROVE  LiveAt(n, S)'
<1>1. jobs'[n].status = "running"
  BY DEF Going, IInv, Types, Held
<1>2. \A v \in Workers : frame'[v].job = n => v = w
  <2>1. frame[w].job # None
    BY JobIsNotNone DEF Going, IInv, Types
  <2>2. QED
    BY <2>1 DEF Going, IInv, Types, Held
<1>3. QED
  BY <1>1, <1>2 DEF LiveAt, Going

LEMMA OtherTrees ==
  ASSUME NEW w \in Workers, Going(w), NEW d \in Docs, d # D(w), doc'[d].toc = doc[d].toc,
         chapters'[d] = chapters[d]
  PROVE  TreeKnown(d)'
BY TreeKept DEF Going, Trees

\* What the worker's document keeps in any case, by the statement the worker is at.
LEMMA OwnParts ==
  ASSUME NEW w \in Workers, NEW d \in Docs, d = D(w), Going(w)
  PROVE  /\ frame[w].next \notin {"enqueue-detect"} \cup DetectingTree =>
              (PendingTree(d) => PendingTree(d)')
         /\ frame[w].next \notin DetectingTree => (WillDetect(d) => WillDetect(d)')
         /\ frame[w].next # "insert-chapters" =>
              (Busy(d, {"insert-chapters"}) => Busy(d, {"insert-chapters"})')
         /\ frame[w].next \notin Counting \/ frame'[w].next \in Counting =>
              (Busy(d, Counting) => Busy(d, Counting)')
         /\ \A c \in Chapters :
              (frame[w].next \notin FillingText \/ C(w) # c) /\ frame[w].next # "enqueue-fills" =>
                (OpenChapter(d, c) => OpenChapter(d, c)')
         /\ \A c \in Chapters :
              frame[w].next \notin FillingText => (WillFill(d, c) => WillFill(d, c)')
<1>1. /\ ~Leaves(w, d, {"enqueue-detect"}) /\ Busy(d, {"enqueue-detect"}) =>
              Busy(d, {"enqueue-detect"})'
      /\ ~Leaves(w, d, {"insert-chapters"}) /\ Busy(d, {"insert-chapters"}) =>
              Busy(d, {"insert-chapters"})'
      /\ ~Leaves(w, d, Counting) /\ Busy(d, Counting) => Busy(d, Counting)'
      /\ ~Leaves(w, d, DetectingTree) /\ WillDetect(d) => WillDetect(d)'
      /\ \A c \in Chapters :
              ~(Leaves(w, d, FillingText) /\ C(w) = c) /\ WillFill(d, c) => WillFill(d, c)'
      /\ \A c \in Chapters :
              frame[w].next # "enqueue-fills" /\ WillEnqueue(d, c) => WillEnqueue(d, c)'
  BY PartsKept DEF Going
<1>2. frame'[w].job = frame[w].job
  BY DEF Going
<1>3. QED
  BY <1>1, <1>2 DEF Leaves, PendingTree, OpenChapter

\* Nothing of the tree moves, or the worker stays within one group of statements.
LEMMA SameTree ==
  ASSUME NEW w \in Workers, NEW d \in Docs, d = D(w), Going(w), doc'[d].toc = doc[d].toc,
         chapters'[d] = chapters[d],
         \/ frame[w].next \notin {"enqueue-detect", "insert-chapters", "enqueue-fills"}
                                   \cup DetectingTree \cup FillingText \cup Counting
         \/ frame[w].next \in DetectingTree /\ frame'[w].next \in DetectingTree
         \/ frame[w].next \in FillingText /\ frame'[w].next \in FillingText
         \/ frame[w].next \in Counting /\ frame'[w].next \in Counting
  PROVE  TreeKnown(d)'
<1>1. /\ DetectingTree \cap (FillingText \cup Counting) = {} /\ FillingText \cap Counting = {}
      /\ {"enqueue-detect", "insert-chapters", "enqueue-fills"} \cap
           (DetectingTree \cup FillingText \cup Counting) = {}
  BY DEF DetectingTree, FillingText, Counting
<1>2. \A S \in {{"enqueue-detect"}, {"insert-chapters"}, DetectingTree, FillingText, Counting} :
        ~Leaves(w, d, S)
  BY <1>1 DEF Leaves, Going
<1>3. frame[w].next # "enqueue-fills" /\ TreeKnown(d)
  BY <1>1, OwnTree
<1>4. QED
  BY <1>2, <1>3, TreeKept DEF Going

\* The worker writes toc_status.
LEMMA TocTree ==
  ASSUME NEW w \in Workers, NEW d \in Docs, d = D(w), Going(w),
         NEW s, NEW to, NEW toc, TocMove(s, toc, to), s # "copy-toc",
         frame[w].next = s, frame'[w].next = to, doc'[d].toc = toc,
         chapters'[d] = chapters[d]
  PROVE  TreeKnown(d)'
<1>1. D(w)' = d /\ TreeKnown(d)
  BY OwnTree
<1>2. \A c \in Chapters : OpenChapter(d, c) => OpenChapter(d, c)'
  BY OwnParts DEF TocMove, FillingText
<1>3. CASE s = "toc"
  BY <1>1, <1>2, <1>3 DEF TreeKnown, TocMove, PendingTree, Busy
<1>4. CASE s = "build"
  BY <1>1, <1>2, <1>4 DEF TreeKnown, TocMove, BuildingTree, Busy
<1>5. CASE toc \notin {"pending", "building"}
  BY <1>1, <1>2, <1>5 DEF TreeKnown
<1>6. QED
  BY <1>3, <1>4, <1>5 DEF TocMove

\* The worker enqueues the detection.
LEMMA DetectTree ==
  ASSUME NEW w \in Workers, NEW d \in Docs, d = D(w), Going(w), frame[w].next = "enqueue-detect",
         UNCHANGED <<doc, chapters>>, Enqueue("detect_textbook_toc", d, None)
  PROVE  TreeKnown(d)'
<1>1. TreeKnown(d)
  BY OwnTree
<1>2. WillDetect(d)'
  <2>1. jobs \in Seq(Job) /\ Len(jobs) \in Nat /\ DOMAIN jobs = 1 .. Len(jobs)
    BY LenProperties DEF Going, IInv, Types, Rows
  <2>2. DOMAIN jobs' = 1 .. Len(jobs) + 1 /\ jobs'[Len(jobs) + 1] = Pending("detect_textbook_toc", d, None)
    BY <2>1 DEF Enqueue
  <2>3. Len(jobs) + 1 \in DOMAIN jobs'
    BY <2>1, <2>2
  <2>4. QED
    BY <2>2, <2>3 DEF WillDetect, LiveAt, Pending
<1>3. \A c \in Chapters : OpenChapter(d, c) => OpenChapter(d, c)'
  BY OwnParts DEF FillingText
<1>4. QED
  BY <1>1, <1>2, <1>3 DEF TreeKnown, PendingTree, BuildingTree

\* The worker lists the chapters.
LEMMA ListsTree ==
  ASSUME NEW w \in Workers, NEW d \in Docs, d = D(w), Going(w), frame[w].next = "insert-chapters",
         frame'[w].next = "enqueue-fills", frame'[w].todo = Chapters, doc' = doc,
         \A c \in Chapters : chapters'[d][c] = "pending"
  PROVE  TreeKnown(d)'
<1>1. D(w)' = d /\ TreeKnown(d) /\ Chapters # {}
  BY OwnTree DEF WorkerTree
<1>2. PendingTree(d) => PendingTree(d)'
  BY OwnParts DEF DetectingTree
<1>3. AllListed(d)' /\ ~AllReady(d)'
  BY <1>1 DEF AllListed, AllReady
<1>4. \A c \in Chapters : WillEnqueue(d, c)'
  BY <1>1 DEF WillEnqueue
<1>5. QED
  BY <1>1, <1>2, <1>3, <1>4 DEF TreeKnown, BuildingTree, OpenChapter

\* The worker enqueues a fill.
LEMMA FillTree ==
  ASSUME NEW w \in Workers, NEW d \in Docs, d = D(w), Going(w), NEW c \in Chapters,
         frame[w].next = "enqueue-fills",
         frame'[w].next = "done" => frame[w].todo = {c},
         frame'[w].next \in {"done", "enqueue-fills"}, frame'[w].todo = frame[w].todo \ {c},
         UNCHANGED <<doc, chapters>>, Enqueue("fill_textbook_chapter", d, c)
  PROVE  TreeKnown(d)'
<1>1. D(w)' = d /\ TreeKnown(d)
  BY OwnTree
<1>2. /\ PendingTree(d) => PendingTree(d)'
      /\ BuildingTree(d) => BuildingTree(d)'
  BY OwnParts DEF DetectingTree, Counting, BuildingTree, AllListed, AllReady
<1>3. WillFill(d, c)'
  <2>1. jobs \in Seq(Job) /\ Len(jobs) \in Nat /\ DOMAIN jobs = 1 .. Len(jobs)
    BY LenProperties DEF Going, IInv, Types, Rows
  <2>2. DOMAIN jobs' = 1 .. Len(jobs) + 1 /\ jobs'[Len(jobs) + 1] = Pending("fill_textbook_chapter", d, c)
    BY <2>1 DEF Enqueue
  <2>3. Len(jobs) + 1 \in DOMAIN jobs'
    BY <2>1, <2>2
  <2>4. QED
    BY <2>2, <2>3 DEF WillFill, LiveAt, Pending
<1>4. ASSUME NEW b \in Chapters, b # c, WillEnqueue(d, b) PROVE WillEnqueue(d, b)'
  <2>1. \A v \in Workers : frame[v].next = "enqueue-fills" /\ D(v) = d /\ b \in frame[v].todo =>
          /\ frame'[v].next = "enqueue-fills" /\ frame'[v].job = frame[v].job
          /\ b \in frame'[v].todo
    <3>1. b \in frame[w].todo => frame'[w].next = "enqueue-fills" /\ b \in frame'[w].todo
      BY <1>4
    <3>2. frame'[w].job = frame[w].job /\ \A v \in Workers : v # w => frame'[v] = frame[v]
      BY DEF Going, OneMoves
    <3>3. QED
      BY <3>1, <3>2
  <2>2. QED
    BY <1>4, <2>1, WillEnqueueKept DEF Going
<1>5. \A b \in Chapters : WillFill(d, b) => WillFill(d, b)'
  BY OwnParts DEF FillingText
<1>6. \A b \in Chapters : OpenChapter(d, b) => OpenChapter(d, b)'
  BY <1>3, <1>4, <1>5 DEF OpenChapter
<1>7. QED
  BY <1>1, <1>2, <1>6 DEF TreeKnown

\* The worker is at one chapter: it writes its status, or finds it ready.
LEMMA ChapterTree ==
  ASSUME NEW w \in Workers, NEW d \in Docs, d = D(w), Going(w), NEW c, c = C(w),
         frame[w].next \in FillingText,
         frame'[w].next # "idle", doc' = doc,
         \A b \in Chapters : b # c => chapters'[d][b] = chapters[d][b],
         \/ chapters'[d][c] = "filling" /\ frame'[w].next \in FillingText
         \/ chapters[d][c] = "ready" /\ chapters' = chapters
         \/ chapters'[d][c] = "ready" /\ frame'[w].next \in Counting
  PROVE  TreeKnown(d)'
<1>1. /\ D(w)' = d /\ d \in Docs /\ TreeKnown(d) /\ c \in Chapters
      /\ frame[w].job \in DOMAIN jobs' /\ chapters[d] \in [Chapters -> ChapterStatus]
      /\ jobs'[frame[w].job].kind = "fill_textbook_chapter"
      /\ jobs'[frame[w].job].doc = d /\ jobs'[frame[w].job].chapter = c
  <2>1. frame[w].job \in DOMAIN jobs /\ jobs[frame[w].job].kind = "fill_textbook_chapter"
    BY OwnTree DEF WorkerKnown, Filling, FillingText
  <2>2. c \in Chapters
    BY <2>1 DEF Going, Trees, RowTree, C
  <2>3. QED
    BY <2>1, <2>2, OwnTree, Zenon DEF Going, GoesOn, D, C
<1>2. frame[w].next \notin {"enqueue-detect", "insert-chapters", "enqueue-fills"} \cup DetectingTree
      /\ frame[w].next \notin Counting
  BY DEF FillingText, DetectingTree, Counting
<1>3. PendingTree(d) => PendingTree(d)'
  BY <1>2, OwnParts
<1>4. BuildingTree(d) => BuildingTree(d)'
  <2>1. /\ WillDetect(d) => WillDetect(d)'
        /\ Busy(d, {"insert-chapters"}) => Busy(d, {"insert-chapters"})'
        /\ Busy(d, Counting) => Busy(d, Counting)'
    BY <1>2, OwnParts
  <2>2. AllListed(d) => AllListed(d)'
    BY <1>1 DEF AllListed
  <2>3. CASE chapters'[d][c] = "filling"
    BY <1>1, <2>1, <2>2, <2>3 DEF BuildingTree, AllReady
  <2>4. CASE chapters' = chapters
    BY <2>1, <2>4 DEF BuildingTree, AllListed, AllReady
  <2>5. CASE frame'[w].next \in Counting
    BY <1>1, <2>1, <2>2, <2>5 DEF BuildingTree, Busy
  <2>6. QED
    BY <2>3, <2>4, <2>5
<1>5. \A b \in Chapters : b # c => (OpenChapter(d, b) => OpenChapter(d, b)')
  BY <1>2, OwnParts
<1>6. chapters'[d][c] \in {"pending", "filling"} => OpenChapter(d, c)'
  <2>1. CASE chapters'[d][c] = "filling" /\ frame'[w].next \in FillingText
    <3>1. PICK n \in DOMAIN jobs' : n = frame[w].job
      BY <1>1
    <3>2. LiveAt(n, FillingText)'
      BY <2>1, <3>1, OwnLive
    <3>3. QED
      BY <1>1, <3>1, <3>2 DEF OpenChapter, WillFill
  <2>2. QED
    BY <2>1
<1>7. QED
  BY <1>1, <1>3, <1>4, <1>5, <1>6, Zenon DEF TreeKnown

\* The worker's count finds a chapter that is not ready.
LEMMA CountTree ==
  ASSUME NEW w \in Workers, NEW d \in Docs, d = D(w), Going(w),
         frame[w].next = "count", Unfinished(d) # {},
         UNCHANGED <<doc, chapters>>
  PROVE  TreeKnown(d)'
<1>1. TreeKnown(d) /\ ~AllReady(d)
  BY OwnTree DEF Unfinished, AllReady
<1>2. /\ PendingTree(d) => PendingTree(d)'
      /\ WillDetect(d) => WillDetect(d)'
      /\ Busy(d, {"insert-chapters"}) => Busy(d, {"insert-chapters"})'
      /\ \A c \in Chapters : OpenChapter(d, c) => OpenChapter(d, c)'
  BY OwnParts DEF DetectingTree, FillingText
<1>3. QED
  BY <1>1, <1>2 DEF TreeKnown, BuildingTree, AllListed, AllReady

\* The steps of a worker with a row, for the document it works on.
LEMMA MoveTree ==
  ASSUME LostChapters = {}, NEW w \in Workers, NEW d \in Docs, d = D(w), Going(w), Moves(w)
  PROVE  /\ TreeKnown(d)' /\ WorkerTree(w)'
         /\ \A e \in Docs : e # d => doc'[e].toc = doc[e].toc /\ chapters'[e] = chapters[e]
<1> DEFINE Goal == /\ TreeKnown(d)' /\ WorkerTree(w)'
                   /\ \A e \in Docs : e # d => doc'[e].toc = doc[e].toc /\ chapters'[e] = chapters[e]
<1>0. /\ doc \in [Docs -> Doc] /\ chapters \in [Docs -> [Chapters -> ChapterStatus]]
      /\ D(w)' = d /\ WorkerTree(w) /\ WorkerKnown(w) /\ IInv
      /\ frame[w].job \in DOMAIN jobs
      /\ frame'[w].job = frame[w].job /\ jobs'[frame[w].job].kind = jobs[frame[w].job].kind
  BY OwnTree DEF Going, IInv, Types, Data
<1>1. ASSUME NEW s \in Statement, NEW to \in Statement, Step(w, s, to)
      PROVE  frame[w].next = s /\ frame'[w].next = to
  BY <1>0, <1>1, StepIs DEF IInv
<1>2. ASSUME NEW s \in Statement, NEW to \in Statement, Step(w, s, to),
             to \notin Copying \cup {"copy-toc", "copied", "detect", "enqueue-fills"},
             to \in {"build", "insert-chapters"} =>
               s \in {"detect", "build"} /\ (s = "detect" => Chapters # {})
      PROVE  WorkerTree(w)'
  BY <1>0, <1>1, <1>2 DEF WorkerTree
<1>3. ASSUME NEW s \in Statement, NEW to \in Statement, Step(w, s, to),
             chapters' = chapters, \A e \in Docs : doc'[e].toc = doc[e].toc,
             \/ s \in {"begin", "resume", "scan", "reject", "no-text", "quarantine-copy", "quarantine-delete",
                       "quarantine-status", "safe-copy", "safe-delete", "safe-key", "hash",
                       "extract", "chunk", "index", "embed", "point", "ready"}
                  /\ to \notin Copying \cup {"copy-toc", "copied", "detect", "enqueue-fills",
                                             "build", "insert-chapters"}
             \/ s = "locate" /\ to = "write-chapter"
             \/ s = "write-sections" /\ to = "count"
             \/ s = "count" /\ to = "book-ready"
             \/ s = "detect" /\ to = "build" /\ Chapters # {}
      PROVE  Goal
  <2>1. frame[w].next = s /\ frame'[w].next = to
    BY <1>1, <1>3
  <2>2. WorkerTree(w)'
    BY <1>2, <1>3 DEF Copying
  <2>3. \/ frame[w].next \notin {"enqueue-detect", "insert-chapters", "enqueue-fills"}
                                   \cup DetectingTree \cup FillingText \cup Counting
        \/ frame[w].next \in DetectingTree /\ frame'[w].next \in DetectingTree
        \/ frame[w].next \in FillingText /\ frame'[w].next \in FillingText
        \/ frame[w].next \in Counting /\ frame'[w].next \in Counting
    BY <1>3, <2>1 DEF DetectingTree, FillingText, Counting
  <2>4. TreeKnown(d)'
    BY <1>3, <2>3, SameTree
  <2>5. QED
    BY <1>3, <2>2, <2>4
<1>4. ASSUME NEW s \in Statement, NEW to \in Statement, GoMove(s, to), Goto(w, s, to),
             s = "count" => Unfinished(D(w)) # {}, s = "detect" => Chapters # {},
             s = "fill" => chapters[D(w)][C(w)] = "ready"
      PROVE  Goal
  <2>1. Step(w, s, to) /\ UNCHANGED <<doc, chapters>> /\ frame[w].next = s /\ frame'[w].next = to
    BY <1>1, <1>4 DEF Goto
  <2>2. CASE s = "fill"
    <3>1. TreeKnown(d)'
      <4>1. PICK c : c = C(w)
        OBVIOUS
      <4>2. chapters[d][c] = "ready" /\ frame[w].next \in FillingText /\ to = "done"
        BY <1>4, <2>1, <2>2, <4>1 DEF FillingText, GoMove
      <4>3. QED
        BY <2>1, <4>1, <4>2, ChapterTree
    <3>2. WorkerTree(w)'
      BY <1>2, <1>4, <2>1, <2>2 DEF GoMove, Copying
    <3>3. QED
      BY <2>1, <3>1, <3>2
  <2>3. CASE s = "count"
    <3>1. Unfinished(d) # {}
      BY <1>4, <2>3
    <3>2. TreeKnown(d)'
      BY <2>1, <2>3, <3>1, CountTree
    <3>3. WorkerTree(w)'
      BY <1>2, <1>4, <2>1, <2>3 DEF GoMove, Copying
    <3>4. QED
      BY <2>1, <3>2, <3>3
  <2>4. QED
    BY <1>3, <1>4, <2>1, <2>2, <2>3 DEF GoMove, Copying
<1>5. ASSUME NEW s \in Statement, NEW to \in Statement,
             NEW status \in {"scanning", "extracting", "indexing", "ready", "failed", "quarantined"},
             StatusMove(s, status, to), SetStatus(w, s, status, to)
      PROVE  Goal
  <2>1. /\ Step(w, s, to) /\ chapters' = chapters /\ frame[w].next = s
        /\ doc' = [doc EXCEPT ![d].status = status]
    BY <1>1, <1>5 DEF SetStatus
  <2>2. \A e \in Docs : doc'[e].toc = doc[e].toc
    BY <1>0, <2>1, DocStatus
  <2>3. s \notin {"copy-status", "copied"}
    BY <1>0, <2>1 DEF WorkerTree, Copying
  <2>4. QED
    BY <1>3, <1>5, <2>1, <2>2, <2>3 DEF StatusMove, Copying
<1>6. ASSUME NEW s \in Statement, NEW to \in Statement, NEW toc \in TocStatus,
             TocMove(s, toc, to), SetToc(w, s, toc, to)
      PROVE  Goal
  <2>1. /\ Step(w, s, to) /\ chapters' = chapters /\ frame[w].next = s /\ frame'[w].next = to
        /\ doc' = [doc EXCEPT ![d].toc = toc]
    BY <1>1, <1>6 DEF SetToc
  <2>2. doc'[d].toc = toc /\ \A e \in Docs : e # d => doc'[e] = doc[e]
    BY <1>0, <2>1, DocToc
  <2>3. s # "copy-toc"
    BY <1>0, <2>1 DEF WorkerTree
  <2>4. TreeKnown(d)'
    BY <1>6, <2>1, <2>2, <2>3, TocTree
  <2>5. WorkerTree(w)'
    BY <1>2, <1>6, <2>1, <2>3 DEF TocMove, Copying
  <2>6. QED
    BY <2>1, <2>2, <2>4, <2>5
<1>7. ASSUME NEW s \in Statement, NEW to \in Statement, NEW bucket \in {"safe", "quarantine"},
             CopyMove(s, bucket, to), Copy(w, s, bucket, to)
      PROVE  Goal
  BY <1>3, <1>7 DEF CopyMove, Copy, Copying
<1>8. ASSUME NEW s \in Statement, NEW to \in Statement, DeleteMove(s, to), Delete(w, s, to)
      PROVE  Goal
  BY <1>3, <1>8 DEF DeleteMove, Delete, Copying
<1>9. ASSUME NEW s \in Statement, NEW to \in Statement, NEW status \in ChapterStatus,
             ChapterMove(w, s, status, to), SetChapter(w, s, status, to)
      PROVE  Goal
  <2>1. PICK c : c = C(w)
    OBVIOUS
  <2>2. /\ Step(w, s, to) /\ doc' = doc /\ frame[w].next = s /\ frame'[w].next = to
        /\ chapters' = [chapters EXCEPT ![d][c] = status]
    BY <1>1, <1>9, <2>1 DEF SetChapter
  <2>3. c \in Chapters /\ frame[w].next \in FillingText
    <3>1. s \in {"fill", "locate", "write-chapter"}
      BY <1>9 DEF ChapterMove
    <3>2. jobs[frame[w].job].kind = "fill_textbook_chapter"
      BY <1>0, <2>2, <3>1 DEF WorkerKnown, Filling
    <3>3. QED
      BY <1>0, <2>1, <2>2, <3>1, <3>2 DEF Going, Trees, RowTree, C, FillingText
  <2>4. /\ chapters'[d][c] = status
        /\ \A b \in Chapters : b # c => chapters'[d][b] = chapters[d][b]
        /\ \A e \in Docs : e # d => chapters'[e] = chapters[e]
    BY <1>0, <2>2, <2>3
  <2>5. \/ status = "filling" /\ to \in FillingText
        \/ status = "ready" /\ to \in Counting
    BY <1>9 DEF ChapterMove, FillingText, Counting
  <2>6. TreeKnown(d)'
    <3>1. to # "idle"
      BY <1>9 DEF ChapterMove
    <3>2. QED
      BY <2>1, <2>2, <2>3, <2>4, <2>5, <3>1, ChapterTree
  <2>7. WorkerTree(w)'
    BY <1>2, <1>9, <2>2 DEF ChapterMove, Copying
  <2>8. QED
    BY <2>2, <2>4, <2>6, <2>7
<1>10. CASE SetSafeKey(w) \/ SetHash(w)
  <2>1. PICK s, to \in Statement :
          /\ Step(w, s, to) /\ s \in {"safe-key", "hash"} /\ to \in {"hash", "dedup"}
          /\ chapters' = chapters
          /\ \/ doc' = [doc EXCEPT ![d].safeKey = TRUE]
             \/ doc' = [doc EXCEPT ![d].sha = TRUE]
    BY <1>10, StatementIs DEF SetSafeKey, SetHash
  <2>2. \A e \in Docs : doc'[e].toc = doc[e].toc
    BY <1>0, <2>1, DocKeys
  <2>3. QED
    BY <1>3, <2>1, <2>2 DEF Copying
<1>11. ASSUME NEW c, doc' = [doc EXCEPT ![d].chunks = c] \/ doc' = [doc EXCEPT ![d].pointer = c]
       PROVE  \A e \in Docs : doc'[e].toc = doc[e].toc
  <2>1. ASSUME NEW r, r.toc = doc[d].toc, doc' = [doc EXCEPT ![d] = r]
        PROVE  \A e \in Docs : doc'[e].toc = doc[e].toc
    BY <1>0, <2>1
  <2>2. [doc[d] EXCEPT !.chunks = c].toc = doc[d].toc /\ [doc[d] EXCEPT !.pointer = c].toc = doc[d].toc
    BY <1>0 DEF Doc
  <2>3. CASE doc' = [doc EXCEPT ![d].chunks = c]
    BY <2>1, <2>2, <2>3
  <2>4. CASE doc' = [doc EXCEPT ![d].pointer = c]
    BY <2>1, <2>2, <2>4
  <2>5. QED
    BY <1>11, <2>3, <2>4
<1>12. CASE CopyChunks(w) \/ CopyPointer(w) \/ CopiesTree(w)
  <2>1. frame[w].next \in Copying
    BY <1>1, <1>12, StatementIs DEF CopyChunks, CopyPointer, CopiesTree, Copying
  <2>2. QED
    BY <1>0, <2>1 DEF WorkerTree
<1>13. CASE InsertChunks(w) \/ Embed(w) \/ SetPointer(w) \/ Points(w)
  <2>1. PICK s, to \in Statement :
          /\ Step(w, s, to) /\ chapters' = chapters
          /\ \/ s = "chunk" /\ to \in {"no-text", "index"}
             \/ s = "embed" /\ to = "point"
             \/ s = "point" /\ to \in {"toc", "ready"}
             \/ s = "count" /\ to = "book-ready"
          /\ \E c : doc' = [doc EXCEPT ![d].chunks = c] \/ doc' = [doc EXCEPT ![d].pointer = c]
    <3>1. CASE InsertChunks(w)
      BY <3>1, StatementIs DEF InsertChunks
    <3>2. CASE Embed(w)
      BY <3>2, StatementIs DEF Embed
    <3>3. CASE SetPointer(w)
      BY <3>3, StatementIs DEF SetPointer
    <3>4. CASE Points(w)
      BY <3>4, StatementIs DEF Points
    <3>5. QED
      BY <1>13, <3>1, <3>2, <3>3, <3>4
  <2>2. \A e \in Docs : doc'[e].toc = doc[e].toc
    BY <1>11, <2>1
  <2>3. QED
    BY <1>3, <2>1, <2>2 DEF Copying
<1>14. QED
  BY <1>4, <1>5, <1>6, <1>7, <1>8, <1>9, <1>10, <1>12, <1>13 DEF Moves

-----------------------------------------------------------------------------
(* Every step. *)

\* What the other workers and the older rows are, they stay.
LEMMA TreesKept ==
  ASSUME IInv, Trees, GoesOn, \A d \in Docs : TreeKnown(d)',
         \A v \in Workers : frame'[v] = frame[v] \/ WorkerTree(v)',
         \A n \in DOMAIN jobs' : n \in DOMAIN jobs \/ RowTree(n)'
  PROVE  Trees'
<1>1. ASSUME NEW v \in Workers, frame'[v] = frame[v] PROVE WorkerTree(v)'
  <2>1. CASE frame[v].next = "idle"
    BY <1>1, <2>1 DEF WorkerTree, Copying
  <2>2. CASE frame[v].next # "idle"
    <3>1. WorkerTree(v) /\ frame[v].job \in DOMAIN jobs
      BY <2>2, OwnRow DEF IInv, Trees
    <3>2. QED
      BY <1>1, <3>1 DEF WorkerTree, GoesOn
  <2>3. QED
    BY <2>1, <2>2
<1>2. \A n \in DOMAIN jobs' : RowTree(n)'
  BY DEF Trees, GoesOn, RowTree
<1>3. QED
  BY <1>1, <1>2 DEF Trees

\* A worker claims a row: it starts at the first statement of the row's kind.
LEMMA ClaimTrees ==
  ASSUME IInv, Trees, GoesOn, \A n \in DOMAIN jobs : RowStep(n), NEW w \in Workers, Claim(w)
  PROVE  Trees'
<1>1. PICK m \in DOMAIN jobs :
        /\ jobs' = [jobs EXCEPT ![m].status = "running"]
        /\ frame' = [frame EXCEPT ![w] = Claimed(FirstStatement(jobs[m].kind), m)]
  BY Zenon DEF Claim, Claimed
<1>2. frame[w].next = "idle" /\ UNCHANGED <<doc, chapters>> /\ frame \in [Workers -> Frame]
  BY DEF Claim, At, IInv, Types, Held
<1>3. jobs[m] \in Job /\ m \in 1 .. MaxJobs
  <2>1. DOMAIN jobs = 1 .. Len(jobs) /\ Len(jobs) \in Nat /\ Len(jobs) <= MaxJobs /\ MaxJobs \in Nat
    BY LenProperties, IngestAssumption DEF IInv, Types, Rows
  <2>2. QED
    BY <2>1, ElementOfSeq DEF IInv, Types, Rows
<1> DEFINE s == FirstStatement(jobs[m].kind)
<1>4. s \in {"begin", "detect", "fill"} /\ s \in Statement /\ (s = "detect" => jobs[m].kind = "detect_textbook_toc")
  BY <1>3, StatementIs DEF FirstStatement, Job
<1> HIDE DEF s
<1>5. Claimed(s, m).next = s /\ Claimed(s, m).job = m
  BY <1>3, <1>4, ClaimedType
<1>6. frame'[w].next = s /\ frame'[w].job = m /\ OneMoves(w)
  BY <1>1, <1>2, <1>5 DEF s, OneMoves
<1>7. jobs'[m].kind = jobs[m].kind /\ DOMAIN jobs' = DOMAIN jobs
  BY <1>1, <1>3 DEF GoesOn
<1>8. WorkerTree(w)'
  BY <1>4, <1>6, <1>7 DEF WorkerTree, Copying
<1>9. ASSUME NEW d \in Docs PROVE TreeKnown(d)'
  <2>1. \A S \in {{"enqueue-detect"}, {"insert-chapters"}, DetectingTree, FillingText, Counting} :
          ~Leaves(w, d, S)
    BY <1>2 DEF Leaves, DetectingTree, FillingText, Counting
  <2>2. QED
    BY <1>2, <1>6, <2>1, TreeKept DEF Trees
<1>10. QED
  BY <1>6, <1>7, <1>8, <1>9, TreesKept DEF OneMoves

\* A worker lets its row go: at the end, or at InsertChapters when chapters are listed
\* already, and then the row will be claimed again.
LEMMA FreesTrees ==
  ASSUME MaxFaults = 0, IInv, Trees, GoesOn, \A n \in DOMAIN jobs : RowStep(n),
         NEW w \in Workers, Frees(w)
  PROVE  Trees'
<1>1. /\ frame \in [Workers -> Frame] /\ frame' = [frame EXCEPT ![w] = Idle]
      /\ UNCHANGED <<doc, chapters>> /\ frame[w].next # "idle" /\ faults = 0
      /\ frame[w].job \in DOMAIN jobs /\ DOMAIN jobs' = DOMAIN jobs
  <2>1. /\ frame' = [frame EXCEPT ![w] = Idle] /\ UNCHANGED <<doc, chapters>>
        /\ frame[w].next # "idle"
    BY DEF Frees, MarkDone, MarkFailed, Abandon, At
  <2>2. faults = 0 /\ frame \in [Workers -> Frame]
    BY DEF IInv, Types, Data, Held
  <2>3. frame[w].job \in DOMAIN jobs
    BY <2>1, OwnRow DEF IInv
  <2>4. DOMAIN jobs' = DOMAIN jobs
    BY DEF Frees, MarkDone, MarkFailed, Abandon
  <2>5. QED
    BY <2>1, <2>2, <2>3, <2>4
<1>2. /\ frame'[w].next = "idle" /\ frame'[w].job = None /\ OneMoves(w)
  BY <1>1, IdleType DEF OneMoves
<1>3. \/ frame[w].next \in {"done", "permanent", "scan", "chunk"}
      \/ frame[w].next = "insert-chapters" /\ Abandon(w)
  <2>1. faults' = faults /\ frame[w].next # "copy-tree"
    BY <1>1 DEF Frees, Trees, WorkerTree, Copying
  <2>2. QED
    BY <2>1 DEF Frees
<1>4. WorkerTree(w)'
  BY <1>2 DEF WorkerTree, Copying
<1>5. ASSUME NEW d \in Docs, frame[w].next \in {"done", "permanent", "scan", "chunk"} \/ D(w) # d
      PROVE  TreeKnown(d)'
  <2>1. \/ D(w) # d
        \/ /\ frame[w].next # "enqueue-fills"
           /\ \A S \in {{"enqueue-detect"}, {"insert-chapters"}, DetectingTree, FillingText, Counting} :
                ~Leaves(w, d, S)
    BY <1>5 DEF Leaves, DetectingTree, FillingText, Counting
  <2>2. QED
    BY <1>1, <1>2, <2>1, TreeKept DEF Trees
<1>6. ASSUME NEW d \in Docs, d = D(w), frame[w].next = "insert-chapters", Abandon(w)
      PROVE  TreeKnown(d)'
  <2>1. PICK n \in DOMAIN jobs : n = frame[w].job
    BY <1>1
  <2>2. jobs' = jobs /\ jobs[n].status = "running" /\ jobs[n].kind = "detect_textbook_toc"
        /\ jobs[n].doc = d /\ n # None
    BY <1>1, <1>6, <2>1, OwnRow, JobIsNotNone DEF Abandon, IInv, Types, Trees, WorkerTree, D
  <2>3. \A v \in Workers : frame'[v].job # n
    BY <1>2, <2>1, <2>2 DEF OneMoves, IInv, Types, Held
  <2>4. WillDetect(d)'
    BY <2>2, <2>3 DEF WillDetect, LiveAt
  <2>5. \A c \in Chapters : OpenChapter(d, c) => OpenChapter(d, c)'
    <3>1. frame[w].next \notin FillingText /\ frame[w].next # "enqueue-fills"
      BY <1>6 DEF FillingText
    <3>2. /\ \A c \in Chapters : WillFill(d, c) => WillFill(d, c)'
          /\ \A c \in Chapters : WillEnqueue(d, c) => WillEnqueue(d, c)'
      BY <1>2, <3>1, PartsKept DEF Leaves
    <3>3. QED
      BY <3>2 DEF OpenChapter
  <2>6. TreeKnown(d)
    BY DEF Trees
  <2>7. QED
    BY <1>1, <2>4, <2>5, <2>6 DEF TreeKnown, PendingTree, BuildingTree
<1>7. \A d \in Docs : TreeKnown(d)'
  BY <1>3, <1>5, <1>6
<1>8. QED
  BY <1>1, <1>2, <1>4, <1>7, TreesKept DEF OneMoves

LEMMA StepTrees ==
  ASSUME MaxFaults = 0, LostChapters = {}, Distinct, IInv, Grown, Trees, [Next]_vars
  PROVE  Trees'
<1>0. /\ IInv' /\ GoesOn /\ Grown' /\ Grows /\ \A n \in DOMAIN jobs : RowStep(n)
      /\ frame \in [Workers -> Frame] /\ doc \in [Docs -> Doc]
  BY StepIInv, StepGrows, RowSteps DEF IInv, Types, Held, Data
<1>1. ASSUME frame' = frame, chapters' = chapters, \A d \in Docs : doc'[d].toc = doc[d].toc,
             \A n \in DOMAIN jobs' : n \in DOMAIN jobs \/ RowTree(n)'
      PROVE  Trees'
  <2>1. \A d \in Docs : TreeKnown(d)'
    BY <1>0, <1>1, TreeOfIdle DEF Trees
  <2>2. QED
    BY <1>0, <1>1, <2>1, TreesKept
<1>2. CASE UNCHANGED vars
  BY <1>1, <1>2 DEF vars
<1>3. ASSUME NEW d \in Docs, PutRaw(d) \/ InsertDocument(d) \/ InsertJob(d) PROVE Trees'
  <2>1. chapters' = chapters /\ frame' = frame
    BY <1>3 DEF PutRaw, InsertDocument, InsertJob
  <2>2. \A e \in Docs : doc'[e].toc = doc[e].toc
    BY <1>0, <1>3, DocStatus DEF PutRaw, InsertDocument, InsertJob
  <2>3. jobs' = jobs \/ Enqueue("ingest_document", d, None)
    BY <1>3 DEF PutRaw, InsertDocument, InsertJob
  <2>4. \A n \in DOMAIN jobs' : n \in DOMAIN jobs \/ RowTree(n)'
    <3>1. CASE jobs' = jobs
      BY <3>1
    <3>2. CASE Enqueue("ingest_document", d, None)
      BY <3>2, RowInserted DEF IInv, Types, RowTree
    <3>3. QED
      BY <2>3, <3>1, <3>2
  <2>5. QED
    BY <1>1, <2>1, <2>2, <2>4
<1>4. ASSUME NEW n \in 1 .. MaxJobs, Reclaim(n) PROVE Trees'
  <2>1. UNCHANGED <<frame, chapters, doc>> /\ DOMAIN jobs' = DOMAIN jobs
    BY <1>4 DEF Reclaim
  <2>2. QED
    BY <1>1, <2>1
<1>5. ASSUME NEW w \in Workers, Work(w) \/ CallFails(w) \/ Crash(w) PROVE Trees'
  <2>1. CASE Claim(w)
    BY <1>0, <2>1, ClaimTrees
  <2>2. CASE Frees(w)
    BY <1>0, <2>2, FreesTrees
  \* It goes on with its row.
  <2>3. ASSUME NEW d \in Docs, d = D(w), TreeKnown(d)', WorkerTree(w)', Going(w),
               \A e \in Docs : e # d => doc'[e].toc = doc[e].toc /\ chapters'[e] = chapters[e],
               \A n \in DOMAIN jobs' : n \in DOMAIN jobs \/ RowTree(n)'
        PROVE  Trees'
    <3>1. \A e \in Docs : TreeKnown(e)'
      BY <2>3, OtherTrees
    <3>2. \A v \in Workers : frame'[v] = frame[v] \/ WorkerTree(v)'
      BY <2>3 DEF Going, OneMoves
    <3>3. QED
      BY <1>0, <2>3, <3>1, <3>2, TreesKept
  <2>4. ASSUME NEW d \in Docs, d = D(w), Going(w), WorkerTree(w)', doc' = doc, chapters' = chapters,
               jobs' = jobs, frame[w].next = "dedup"
        PROVE  Trees'
    <3>1. TreeKnown(d)'
      BY <2>4, SameTree DEF DetectingTree, FillingText, Counting
    <3>2. QED
      BY <2>3, <2>4, <3>1
  <2>5. CASE Moves(w)
    <3>1. /\ jobs' = jobs /\ frame'[w].job = frame[w].job
          /\ \A v \in Workers : v # w => frame'[v] = frame[v]
      BY <2>5, MovesKeep, Zenon
    <3>2. frame[w].next # "idle"
      BY <2>5, StatementIs DEF Moves, Goto, SetStatus, SetToc, Copy, Delete, SetChapter, SetSafeKey,
         SetHash, CopyChunks, CopyPointer, InsertChunks, Embed, SetPointer, Points, CopiesTree,
         GoMove, StatusMove, TocMove, CopyMove, DeleteMove, ChapterMove, Step, At
    <3>3. Going(w)
      BY <1>0, <3>1, <3>2 DEF Going, OneMoves
    <3>4. PICK d \in Docs : d = D(w)
      BY <3>3, OwnTree
    <3>5. /\ TreeKnown(d)' /\ WorkerTree(w)'
          /\ \A e \in Docs : e # d => doc'[e].toc = doc[e].toc /\ chapters'[e] = chapters[e]
      BY <2>5, <3>3, <3>4, MoveTree
    <3>6. QED
      BY <2>3, <3>1, <3>3, <3>4, <3>5
  <2>6. ASSUME frame'[w].job = frame[w].job, frame[w].next # "idle",
               frame' = [frame EXCEPT ![w] = frame'[w]]
        PROVE  Going(w) /\ \E d \in Docs : d = D(w)
    <3>1. Going(w)
      BY <1>0, <2>6 DEF Going, OneMoves
    <3>2. QED
      BY <3>1, OwnTree
  <2>7. CASE FindDuplicate(w)
    <3>1. UNCHANGED <<doc, chapters, jobs>>
      BY <2>7, Zenon DEF FindDuplicate
    <3>2. frame[w].next = "dedup" /\ frame'[w].next = "extract" /\ Going(w)
      BY <2>6, <2>7, FindLeads DEF Duplicates, Distinct
    <3>3. WorkerTree(w)'
      BY <3>2 DEF WorkerTree, Copying
    <3>4. QED
      BY <2>4, <3>1, <3>2, <3>3, OwnTree
  <2>8. CASE EnqueueDetect(w)
    <3>1. /\ Step(w, "enqueue-detect", "ready") /\ UNCHANGED <<doc, chapters>>
          /\ Enqueue("detect_textbook_toc", D(w), None)
      BY <2>8 DEF EnqueueDetect
    <3>2. /\ frame[w].next = "enqueue-detect" /\ frame'[w].next = "ready"
          /\ frame'[w].job = frame[w].job /\ frame' = [frame EXCEPT ![w] = frame'[w]]
      BY <3>1, StepIs, StatementIs DEF IInv
    <3>3. PICK d \in Docs : d = D(w)
      BY <2>6, <3>2
    <3>4. Going(w)
      BY <2>6, <3>2
    <3>5. TreeKnown(d)'
      BY <3>1, <3>2, <3>3, <3>4, DetectTree
    <3>6. \A n \in DOMAIN jobs' : n \in DOMAIN jobs \/ RowTree(n)'
      BY <3>1, <3>3, RowInserted DEF IInv, Types, RowTree
    <3>7. WorkerTree(w)'
      BY <3>2 DEF WorkerTree, Copying
    <3>8. QED
      BY <2>3, <3>1, <3>3, <3>4, <3>5, <3>6, <3>7
  <2>9. CASE ListsChapters(w)
    <3>1. /\ frame[w].next = "insert-chapters" /\ frame'[w].next = "enqueue-fills"
          /\ frame'[w].job = frame[w].job /\ frame'[w].todo = Chapters
          /\ frame' = [frame EXCEPT ![w] = frame'[w]]
          /\ \A c \in Chapters : chapters'[D(w)][c] = "pending"
          /\ \A e \in Docs : e # D(w) => chapters'[e] = chapters[e]
          /\ UNCHANGED <<doc, jobs>>
      BY <2>9, ListsLeads
    <3>2. PICK d \in Docs : d = D(w)
      BY <2>6, <3>1
    <3>3. Going(w)
      BY <2>6, <3>1
    <3>4. TreeKnown(d)'
      BY <3>1, <3>2, <3>3, ListsTree
    <3>5. WorkerTree(w)'
      BY <3>1, <3>3, OwnTree DEF WorkerTree, Copying
    <3>6. QED
      BY <2>3, <3>1, <3>2, <3>3, <3>4, <3>5
  <2>10. CASE EnqueueFill(w)
    <3>1. PICK c \in Chapters :
            /\ frame[w].next = "enqueue-fills" /\ frame'[w].next \in {"done", "enqueue-fills"}
            /\ frame'[w].job = frame[w].job /\ (frame'[w].next = "done" => frame[w].todo = {c})
            /\ frame'[w].todo = frame[w].todo \ {c}
            /\ frame' = [frame EXCEPT ![w] = frame'[w]]
            /\ Enqueue("fill_textbook_chapter", D(w), c) /\ UNCHANGED <<doc, chapters>>
      BY <2>10, FillLeads
    <3>2. PICK d \in Docs : d = D(w)
      BY <2>6, <3>1
    <3>3. Going(w)
      BY <2>6, <3>1
    <3>4. TreeKnown(d)'
      BY <3>1, <3>2, <3>3, FillTree
    <3>5. \A n \in DOMAIN jobs' : n \in DOMAIN jobs \/ RowTree(n)'
      BY <3>1, <3>2, RowInserted DEF IInv, Types, RowTree
    <3>6. WorkerTree(w)'
      BY <3>1, <3>3, OwnTree DEF WorkerTree, Copying
    <3>7. QED
      BY <2>3, <3>1, <3>2, <3>3, <3>4, <3>5, <3>6
  <2>11. QED
    BY <1>5, <2>1, <2>2, <2>5, <2>7, <2>8, <2>9, <2>10, WorkCases DEF IInv
<1>6. QED
  BY <1>2, <1>3, <1>4, <1>5 DEF Next

LEMMA InitTrees == Init => Trees
<1> SUFFICES ASSUME Init PROVE Trees
  OBVIOUS
<1>1. \A d \in Docs : TreeKnown(d)
  BY DEF Init, NoDoc, TreeKnown
<1>2. \A w \in Workers : WorkerTree(w)
  BY IdleType DEF Init, WorkerTree, Copying
<1>3. QED
  BY <1>1, <1>2 DEF Init, Trees

LEMMA ContentStays == [Next]_vars => content' = content
<1> SUFFICES ASSUME [Next]_vars PROVE content' = content
  OBVIOUS
<1>1. ASSUME NEW d \in Docs, PutRaw(d) \/ InsertDocument(d) \/ InsertJob(d) PROVE content' = content
  BY <1>1 DEF PutRaw, InsertDocument, InsertJob
<1>2. ASSUME NEW n \in 1 .. MaxJobs, Reclaim(n) PROVE content' = content
  BY <1>2 DEF Reclaim
<1>3. ASSUME NEW w \in Workers, Work(w) \/ CallFails(w) \/ Crash(w) PROVE content' = content
  <2>1. CASE Claim(w) \/ MarkDone(w) \/ FailForGood(w) \/ ScanNotFound(w) \/ ExtractFails(w) \/ CallFails(w) \/ Crash(w)
    BY <2>1, Zenon DEF Claim, MarkDone, FailForGood, ScanNotFound, ExtractFails, MarkFailed, CallFails, Crash, Abandon
  <2>2. CASE Begin(w) \/ Resume(w) \/ Scan(w) \/ Reject(w) \/ Quarantine(w)
    BY <2>2, Zenon DEF Begin, Resume, Scan, Reject, Quarantine, Goto, SetStatus, Copy, Delete
  <2>3. CASE MoveToSafe(w) \/ SetSafeKey(w) \/ SetHash(w) \/ FindDuplicate(w) \/ Index(w)
    BY <2>3, Zenon DEF MoveToSafe, SetSafeKey, SetHash, FindDuplicate, Index, InsertChunks, Embed,
       SetPointer, EnqueueDetect, SetStatus, SetToc, Copy, Delete
  <2>4. CASE Deduplicate(w)
    BY <2>4, Zenon DEF Deduplicate, CopyChunks, CopyPointer, CopyTree, Abandon, SetStatus, SetToc
  <2>5. CASE DetectToc(w)
    BY <2>5, Zenon DEF DetectToc, InsertChapters, EnqueueFill, Goto, SetToc, Abandon
  <2>6. CASE FillChapter(w)
    BY <2>6, Zenon DEF FillChapter, SetContent, SetChapter, CountAndPoint, Goto, SetToc
  <2>7. QED
    BY <1>3, <2>1, <2>2, <2>3, <2>4, <2>5, <2>6, Zenon DEF Work
<1>4. QED
  BY <1>1, <1>2, <1>3 DEF Next, vars

\* Workers that neither die nor lose a call, chapters whose pages can be found and uploads
\* that differ: a ready textbook whose tree is unfinished has a job that will finish it,
\* whatever the order in which the workers detect, list, fill and count.
THEOREM TreesHaveJobs ==
  MaxFaults = 0 /\ LostChapters = {} => (Spec /\ Distinct => []TreeHasAJob)
<1> SUFFICES ASSUME MaxFaults = 0, LostChapters = {} PROVE Spec /\ Distinct => []TreeHasAJob
  OBVIOUS
<1>1. Init => Grown
  BY InitGrown
<1>2. Init => Trees
  BY InitTrees
<1>3. IInv /\ Grown /\ [Next]_vars => Grown'
  BY StepGrows
<1>4. Distinct /\ IInv /\ Grown /\ Trees /\ [Next]_vars => Trees' /\ Distinct'
  BY StepTrees, ContentStays DEF Distinct
<1>5. IInv /\ Grown /\ Trees => TreeHasAJob
  <2> SUFFICES ASSUME IInv, Grown, Trees, NEW d \in Docs, doc[d].toc \in {"pending", "building"}
               PROVE  \E n \in DOMAIN jobs : jobs[n].doc = d /\ jobs[n].status \in {"pending", "running"}
    BY DEF TreeHasAJob
  <2>1. ASSUME NEW S, "idle" \notin S, Busy(d, S)
        PROVE  \E n \in DOMAIN jobs : jobs[n].doc = d /\ jobs[n].status \in {"pending", "running"}
    BY <2>1, OwnRow DEF Busy, D, IInv
  <2>2. WillDetect(d) => \E n \in DOMAIN jobs : jobs[n].doc = d /\ jobs[n].status \in {"pending", "running"}
    BY DEF WillDetect, LiveAt
  <2>3. ASSUME NEW c \in Chapters, OpenChapter(d, c)
        PROVE  \E n \in DOMAIN jobs : jobs[n].doc = d /\ jobs[n].status \in {"pending", "running"}
    <3>1. CASE WillFill(d, c)
      BY <3>1 DEF WillFill, LiveAt
    <3>2. CASE WillEnqueue(d, c)
      BY <3>2, OwnRow DEF WillEnqueue, D, IInv
    <3>3. QED
      BY <2>3, <3>1, <3>2 DEF OpenChapter
  <2>4. AllListed(d) /\ ~AllReady(d) => \E c \in Chapters : OpenChapter(d, c)
    <3>1. chapters[d] \in [Chapters -> ChapterStatus]
      BY DEF IInv, Types, Data
    <3>2. QED
      BY <3>1 DEF AllListed, AllReady, Trees, TreeKnown, Grown, NoneFailed, ChapterStatus
  <2>5. PendingTree(d) \/ BuildingTree(d)
    BY DEF Trees, TreeKnown
  <2>6. QED
    BY <2>1, <2>2, <2>3, <2>4, <2>5 DEF PendingTree, BuildingTree, Counting
<1>6. QED
  BY <1>1, <1>2, <1>3, <1>4, <1>5, IngestInvariant, PTL DEF Spec

-----------------------------------------------------------------------------
(* The quota.  A scan that lets an upload pass has counted every other upload that
   passed before it, because each of those stays counted from then on.  The
   exception is an upload without text: it is failed with its bytes in the bucket,
   no longer counted, and its row may run again after a crash; it never becomes ready.
   No lock is needed, because an upload counts before it is scanned. *)

Deciding == {"scan", "reject", "quarantine-copy", "quarantine-delete", "quarantine-status"}
Moving   == {"safe-copy", "safe-delete", "safe-key"}
Textual  == {"copy-status", "copy-chunks", "copy-pointer", "copy-tree", "copy-toc", "copied",
             "index", "embed", "point", "toc", "enqueue-detect", "ready"}
Stored   == {"resume", "hash", "dedup", "extract", "chunk", "no-text"} \cup Textual
Ingesting == {"begin"} \cup Deciding \cup Moving \cup Stored

Rejected == {"absent", "failed", "quarantined"}

\* The uploads a scan let pass.
Passed == {d \in Docs : ~Blank(d) /\ (doc[d].safeKey \/ Busy(d, Moving))}

DocPaid(d) ==
  /\ doc[d].status = "ready" => doc[d].safeKey /\ ~Blank(d)
  /\ doc[d].safeKey /\ ~Blank(d) => doc[d].status \notin Rejected

WorkerPaid(w) ==
  /\ frame[w].next \in Ingesting => jobs[frame[w].job].kind = "ingest_document"
  /\ frame[w].next \in Deciding \cup Moving => ~doc[D(w)].safeKey /\ doc[D(w)].status = "scanning"
  /\ frame[w].next \in Stored => doc[D(w)].safeKey
  /\ frame[w].next = "no-text" => Blank(D(w))
  /\ frame[w].next \in Textual => ~Blank(D(w))

\* InsertJob alone enqueues it, and only for an upload without a row.
OneIngest ==
  \A m, n \in DOMAIN jobs :
    /\ jobs[m].kind = "ingest_document" /\ jobs[n].kind = "ingest_document"
    /\ jobs[m].doc = jobs[n].doc
    => m = n

\* A table has finitely many rows.
FewRows == IsFiniteSet({d \in Docs : doc[d].status # "absent"})

Paid ==
  /\ \A d \in Docs : DocPaid(d)
  /\ \A w \in Workers : WorkerPaid(w)
  /\ OneIngest /\ FewRows /\ Used(Passed) <= Quota

\* The sum of a finite set of uploads.
LEMMA SizeIs == \A d : Size(d) \in Nat /\ 1 .. Size(d) \subseteq 1 .. Quota + 1
<1>1. Quota \in Nat
  BY IngestAssumption
<1>2. QED
  BY <1>1 DEF Size

LEMMA UsedIs ==
  ASSUME NEW S, IsFiniteSet(S)
  PROVE  IsFiniteSet(Bytes(S)) /\ Used(S) \in Nat
<1>1. 1 \in Int /\ Quota + 1 \in Int
  BY IngestAssumption
<1>2. IsFiniteSet(S \X (1 .. Quota + 1))
  BY <1>1, FS_Interval, FS_Product
<1>3. Bytes(S) \subseteq S \X (1 .. Quota + 1)
  BY SizeIs DEF Bytes
<1>4. IsFiniteSet(Bytes(S))
  BY <1>2, <1>3, FS_Subset
<1>5. QED
  BY <1>4, FS_CardinalityType DEF Used

LEMMA UsedGrows ==
  ASSUME NEW S, NEW T, IsFiniteSet(T), S \subseteq T
  PROVE  IsFiniteSet(S) /\ Used(S) <= Used(T)
<1>1. IsFiniteSet(S)
  BY FS_Subset
<1>2. Bytes(S) \subseteq Bytes(T)
  BY DEF Bytes
<1>3. IsFiniteSet(Bytes(T))
  BY UsedIs
<1>4. Cardinality(Bytes(S)) <= Cardinality(Bytes(T))
  BY <1>2, <1>3, FS_Subset
<1>5. QED
  BY <1>1, <1>4 DEF Used

LEMMA UsedAdds ==
  ASSUME NEW S, IsFiniteSet(S), NEW d
  PROVE  Used(S \cup {d}) <= Used(S) + Size(d)
<1> DEFINE A == Bytes(S)
           B == {d} \X (1 .. Size(d))
<1>1. PICK n \in Nat : n = Size(d)
  BY SizeIs
<1>2. IsFiniteSet({d}) /\ Cardinality({d}) = 1
  BY FS_Singleton
<1>3. IsFiniteSet(1 .. n) /\ Cardinality(1 .. n) = n
  <2>1. 1 \in Int /\ n \in Int
    OBVIOUS
  <2>2. IsFiniteSet(1 .. n) /\ Cardinality(1 .. n) = IF 1 > n THEN 0 ELSE n - 1 + 1
    BY <2>1, FS_Interval
  <2>3. QED
    BY <2>2
<1>4. IsFiniteSet(B) /\ Cardinality(B) = n
  <2>1. /\ IsFiniteSet({d} \X (1 .. n))
        /\ Cardinality({d} \X (1 .. n)) = Cardinality({d}) * Cardinality(1 .. n)
    BY <1>2, <1>3, FS_Product
  <2>2. Cardinality({d} \X (1 .. n)) = 1 * n
    BY <1>2, <1>3, <2>1, Zenon
  <2>3. 1 * n = n
    OBVIOUS
  <2>4. QED
    BY <1>1, <2>1, <2>2, <2>3
<1>5. IsFiniteSet(A) /\ Cardinality(A) \in Nat
  BY UsedIs DEF Used
<1>6. Bytes(S \cup {d}) = A \cup B
  BY DEF Bytes
<1> HIDE DEF A, B
<1>7. Cardinality(A \cup B) = Cardinality(A) + Cardinality(B) - Cardinality(A \cap B)
  BY <1>4, <1>5, FS_Union
<1>8. Cardinality(A \cap B) \in Nat
  <2>1. IsFiniteSet(A \cap B)
    BY <1>5, FS_Subset
  <2>2. QED
    BY <2>1, FS_CardinalityType
<1>9. Cardinality(A \cup B) <= Cardinality(A) + n
  BY <1>4, <1>5, <1>7, <1>8
<1>10. QED
  BY <1>1, <1>6, <1>9 DEF Used, A

\* Uploads a step leaves alone as far as the quota is concerned, and those no other
\* worker ingests.
SameDoc(d) == doc'[d].status = doc[d].status /\ doc'[d].safeKey = doc[d].safeKey

AloneAt(d) ==
  \A v \in Workers : frame'[v] = frame[v] /\ frame[v].next \in Ingesting => D(v) # d

LEMMA PassedIsFinite ==
  ASSUME IInv, Paid
  PROVE  IsFiniteSet(Passed) /\ \A d \in Passed : d \in Docs /\ doc[d].status \notin Rejected
<1>1. ASSUME NEW d \in Passed PROVE d \in Docs /\ doc[d].status \notin Rejected
  <2>1. CASE doc[d].safeKey
    BY <2>1 DEF Passed, Paid, DocPaid
  <2>2. CASE Busy(d, Moving)
    <3>1. doc[d].status = "scanning"
      BY <2>2 DEF Busy, Paid, WorkerPaid
    <3>2. QED
      BY <3>1 DEF Passed, Rejected
  <2>3. QED
    BY <2>1, <2>2 DEF Passed
<1>2. Passed \subseteq {d \in Docs : doc[d].status # "absent"}
  BY <1>1 DEF Rejected
<1>3. IsFiniteSet(Passed)
  BY <1>2, FS_Subset DEF Paid, FewRows
<1>4. QED
  BY <1>1, <1>3

\* No upload passes in the step.
LEMMA NoneAdmitted ==
  ASSUME IInv, Paid, content' = content,
         \A d \in Docs : doc'[d].safeKey => doc[d].safeKey \/ Busy(d, Moving),
         \A v \in Workers : frame'[v].next \in Moving => frame[v].next \in Moving /\ D(v)' = D(v)
  PROVE  Used(Passed)' <= Quota
<1>1. Passed' \subseteq Passed
  BY DEF Passed, Busy, Blank
<1>2. Used(Passed') <= Used(Passed)
  BY <1>1, PassedIsFinite, UsedGrows
<1>3. Used(Passed)' = Used(Passed')
  BY DEF Used, Bytes, Size
<1>4. IsFiniteSet(Passed) /\ IsFiniteSet(Passed')
  BY <1>1, PassedIsFinite, UsedGrows
<1>5. Used(Passed) \in Nat /\ Used(Passed') \in Nat /\ Quota \in Nat /\ Used(Passed) <= Quota
  BY <1>4, UsedIs, IngestAssumption DEF Paid
<1>6. QED
  BY <1>2, <1>3, <1>5

LEMMA PaidKept ==
  ASSUME IInv, Paid, GoesOn, content' = content, OneIngest', FewRows', Used(Passed)' <= Quota,
         \A v \in Workers : frame'[v] = frame[v] \/ WorkerPaid(v)',
         \A d \in Docs : SameDoc(d) \/ (DocPaid(d)' /\ AloneAt(d))
  PROVE  Paid'
<1>1. ASSUME NEW d \in Docs, SameDoc(d) PROVE DocPaid(d)'
  BY <1>1 DEF Paid, DocPaid, SameDoc, Blank
<1>2. ASSUME NEW v \in Workers, frame'[v] = frame[v] PROVE WorkerPaid(v)'
  <2>1. CASE frame[v].next \in Ingesting
    <3>1. frame[v].next # "idle"
      BY <2>1 DEF Ingesting, Deciding, Moving, Stored, Textual
    <3>2. frame[v].job \in DOMAIN jobs /\ D(v) \in Docs
      BY <3>1, OwnRow DEF IInv
    <3>3. D(v)' = D(v) /\ jobs'[frame[v].job].kind = jobs[frame[v].job].kind
      BY <1>2, <3>2 DEF D, GoesOn
    <3>4. SameDoc(D(v))
      BY <1>2, <2>1, <3>2 DEF AloneAt
    <3>5. WorkerPaid(v)
      BY DEF Paid
    <3>6. QED
      BY <1>2, <3>3, <3>4, <3>5 DEF WorkerPaid, SameDoc, Blank
  <2>2. CASE frame[v].next \notin Ingesting
    BY <1>2, <2>2 DEF WorkerPaid, Ingesting, Stored
  <2>3. QED
    BY <2>1, <2>2
<1>3. QED
  BY <1>1, <1>2 DEF Paid

\* The queue gets no further row of an upload.
LEMMA OneIngestKept ==
  ASSUME IInv, Paid, GoesOn,
         \A n \in DOMAIN jobs' : n \in DOMAIN jobs \/ jobs'[n].kind # "ingest_document"
  PROVE  OneIngest'
BY DEF Paid, OneIngest, GoesOn

LEMMA FewRowsKept ==
  ASSUME Paid, \A d \in Docs : doc'[d].status # "absent" => doc[d].status # "absent"
  PROVE  FewRows'
<1>1. {d \in Docs : doc'[d].status # "absent"} \subseteq {d \in Docs : doc[d].status # "absent"}
  OBVIOUS
<1>2. QED
  BY <1>1, FS_Subset DEF Paid, FewRows

\* Two workers do not ingest one upload.
LEMMA IngestsAlone ==
  ASSUME IInv, Paid, NEW w \in Workers, NEW v \in Workers,
         frame[w].next \in Ingesting, frame[v].next \in Ingesting, D(v) = D(w)
  PROVE  v = w
<1>1. "idle" \notin Ingesting
  BY DEF Ingesting, Deciding, Moving, Stored, Textual
<1>2. /\ frame[w].job \in DOMAIN jobs /\ frame[w].job # None
      /\ frame[v].job \in DOMAIN jobs /\ frame[v].job # None
  BY <1>1, JobIsNotNone DEF IInv, Types
<1>3. frame[v].job = frame[w].job
  BY <1>2 DEF Paid, WorkerPaid, OneIngest, D
<1>4. QED
  BY <1>2, <1>3 DEF IInv, Types, Held

\* A step that writes no status and no key.
LEMMA QuietPaid ==
  ASSUME IInv, Paid, GoesOn, content' = content, \A d \in Docs : SameDoc(d),
         \A n \in DOMAIN jobs' : n \in DOMAIN jobs \/ jobs'[n].kind # "ingest_document",
         \A v \in Workers : frame'[v] = frame[v] \/
             (WorkerPaid(v)' /\ (frame'[v].next \in Moving => frame[v].next \in Moving /\ D(v)' = D(v)))
  PROVE  Paid'
<1>1. OneIngest'
  BY OneIngestKept
<1>2. FewRows'
  BY FewRowsKept DEF SameDoc
<1>3. ASSUME NEW v \in Workers, frame'[v] = frame[v], frame[v].next \in Moving PROVE D(v)' = D(v)
  <2>1. frame[v].next # "idle"
    BY <1>3 DEF Moving
  <2>2. frame[v].job \in DOMAIN jobs
    BY <2>1, OwnRow DEF IInv
  <2>3. QED
    BY <1>3, <2>2 DEF D, GoesOn
<1>4. Used(Passed)' <= Quota
  BY <1>3, NoneAdmitted DEF SameDoc
<1>5. QED
  BY <1>1, <1>2, <1>4, PaidKept

\* The scan that lets an upload pass: what passed before it is counted.
LEMMA ScanAdmits ==
  ASSUME IInv, Paid, content' = content, NEW d \in Docs, ~RejectedByPolicy(d),
         Passed' \subseteq Passed \cup {d}
  PROVE  Used(Passed)' <= Quota
<1>1. IsFiniteSet(Counted(d))
  <2>1. Counted(d) \subseteq {e \in Docs : doc[e].status # "absent"}
    BY DEF Counted
  <2>2. QED
    BY <2>1, FS_Subset DEF Paid, FewRows
<1>2. IsFiniteSet(Counted(d) \cup {d})
  BY <1>1, FS_AddElement
<1>3. Passed' \subseteq Counted(d) \cup {d}
  BY PassedIsFinite DEF Counted, Rejected
<1>4. IsFiniteSet(Passed') /\ Used(Passed') <= Used(Counted(d) \cup {d})
  BY <1>2, <1>3, UsedGrows
<1>5. Used(Counted(d) \cup {d}) <= Used(Counted(d)) + Size(d)
  BY <1>1, UsedAdds
<1>6. /\ Used(Passed') \in Nat /\ Used(Counted(d)) \in Nat /\ Used(Counted(d) \cup {d}) \in Nat
      /\ Size(d) \in Nat /\ Quota \in Nat
  BY <1>1, <1>2, <1>4, UsedIs, SizeIs, IngestAssumption
<1>7. ~(Used(Counted(d)) + Size(d) > Quota)
  BY DEF RejectedByPolicy
<1>8. Used(Passed)' = Used(Passed')
  BY DEF Used, Bytes, Size
<1>9. QED
  BY <1>4, <1>5, <1>6, <1>7, <1>8

LEMMA MovePaid ==
  ASSUME IInv, Paid, NEW w \in Workers, Moves(w), GoesOn, jobs' = jobs, content' = content,
         OneMoves(w)
  PROVE  Paid'
<1>0. doc \in [Docs -> Doc] /\ frame[w] \in Frame /\ WorkerPaid(w)
  BY DEF IInv, Types, Data, Held, Paid
<1>1. ASSUME NEW s \in Statement, NEW to \in Statement, Step(w, s, to), s # "idle", to # "idle"
      PROVE  /\ D(w)' = D(w) /\ D(w) \in Docs /\ frame[w].next = s /\ frame'[w].next = to
             /\ frame'[w].job = frame[w].job
  BY <1>1, MoveHeld, StepIs DEF IInv
<1>2. OneIngest'
  BY OneIngestKept
\* A move from one statement to another that writes no status and no key.
<1> DEFINE Follows(s, to) ==
      /\ to \in Ingesting => s \in Ingesting
      /\ to \in Deciding => s \in Deciding
      /\ to \in Moving => s \in Moving
      /\ to \in Stored => s \in Stored \/ doc[D(w)].safeKey
      /\ to = "no-text" => Blank(D(w))
      /\ to \in Textual => s \in Textual \/ ~Blank(D(w))
<1>3. ASSUME NEW s \in Statement, NEW to \in Statement, Step(w, s, to), s # "idle", to # "idle",
             \A d \in Docs : SameDoc(d), Follows(s, to)
      PROVE  Paid'
  <2>1. /\ D(w)' = D(w) /\ D(w) \in Docs /\ frame[w].next = s /\ frame'[w].next = to
        /\ frame'[w].job = frame[w].job
    BY <1>1, <1>3
  <2>2. WorkerPaid(w)'
    BY <1>0, <1>3, <2>1 DEF WorkerPaid, SameDoc, Blank
  <2>3. \A v \in Workers : frame'[v] = frame[v] \/
          (WorkerPaid(v)' /\ (frame'[v].next \in Moving => frame[v].next \in Moving /\ D(v)' = D(v)))
    BY <1>3, <2>1, <2>2 DEF OneMoves
  <2>4. QED
    BY <1>3, <2>3, QuietPaid
\* One that writes the upload it ingests.
<1>4. ASSUME NEW s \in Statement, NEW to \in Statement, Step(w, s, to), s \in Ingesting,
             to # "idle", to # s, to \notin Moving, WorkerPaid(w)', DocPaid(D(w))',
             \A d \in Docs : d # D(w) => SameDoc(d),
             doc[D(w)].status # "absent",
             doc'[D(w)].safeKey => doc[D(w)].safeKey \/ s \in Moving
      PROVE  Paid'
  <2>1. s # "idle"
    BY <1>4 DEF Ingesting, Deciding, Moving, Stored, Textual
  <2>2. /\ D(w)' = D(w) /\ D(w) \in Docs /\ frame[w].next = s /\ frame'[w].next = to
    BY <1>1, <1>4, <2>1
  <2>3. FewRows'
    BY <1>4, FewRowsKept DEF SameDoc
  <2>4. AloneAt(D(w))
    BY <1>4, <2>2, IngestsAlone DEF AloneAt
  <2>5. \A v \in Workers : frame'[v].next \in Moving => frame[v].next \in Moving /\ D(v)' = D(v)
    <3>1. ASSUME NEW v \in Workers, v # w, frame'[v].next \in Moving
          PROVE  frame[v].next \in Moving /\ D(v)' = D(v)
      BY <3>1 DEF OneMoves, D
    <3>2. QED
      BY <1>4, <2>2, <3>1
  <2>6. \A d \in Docs : doc'[d].safeKey => doc[d].safeKey \/ Busy(d, Moving)
    BY <1>4, <2>2 DEF SameDoc, Busy
  <2>7. Used(Passed)' <= Quota
    BY <2>5, <2>6, NoneAdmitted
  <2>8. ASSUME NEW d \in Docs PROVE SameDoc(d) \/ (DocPaid(d)' /\ AloneAt(d))
    <3>1. CASE d = D(w)
      BY <1>4, <2>2, <2>4, <3>1 DEF DocPaid, Blank
    <3>2. CASE d # D(w)
      BY <1>4, <3>2
    <3>3. QED
      BY <3>1, <3>2
  <2>9. \A v \in Workers : frame'[v] = frame[v] \/ WorkerPaid(v)'
    BY <1>4 DEF OneMoves
  <2>10. QED
    BY <1>2, <2>3, <2>7, <2>8, <2>9, PaidKept
<1>5. ASSUME doc' = doc PROVE \A d \in Docs : SameDoc(d)
  BY <1>5 DEF SameDoc
<1>6. ASSUME NEW s \in Statement, NEW to \in Statement, GoMove(s, to), Goto(w, s, to),
             s = "begin" => doc[D(w)].safeKey, to = "safe-copy" => ~RejectedByPolicy(D(w))
      PROVE  Paid'
  <2>1. Step(w, s, to) /\ s # "idle" /\ to # "idle" /\ doc' = doc
    BY <1>6 DEF Goto, GoMove
  <2>2. /\ D(w)' = D(w) /\ D(w) \in Docs /\ frame[w].next = s /\ frame'[w].next = to
        /\ frame'[w].job = frame[w].job
    BY <1>1, <2>1
  <2>3. CASE to = "safe-copy"
    <3>1. s = "scan"
      BY <1>6, <2>3 DEF GoMove
    <3>2. WorkerPaid(w)'
      BY <1>0, <2>1, <2>2, <2>3, <3>1
      DEF WorkerPaid, Ingesting, Deciding, Moving, Stored, Textual, Blank
    <3>3. Passed' \subseteq Passed \cup {D(w)}
      <4>1. ASSUME NEW d \in Passed', d # D(w) PROVE d \in Passed
        <5>1. d \in Docs /\ ~Blank(d)
          BY <4>1 DEF Passed, Blank
        <5>2. CASE doc'[d].safeKey
          BY <2>1, <5>1, <5>2 DEF Passed
        <5>3. CASE Busy(d, Moving)'
          <6>1. PICK v \in Workers : frame'[v].next \in Moving /\ D(v)' = d
            BY <5>3 DEF Busy
          <6>2. v # w
            BY <2>2, <4>1, <6>1
          <6>3. frame[v].next \in Moving /\ D(v) = d
            BY <6>1, <6>2 DEF OneMoves, D
          <6>4. QED
            BY <5>1, <6>3 DEF Passed, Busy
        <5>4. QED
          BY <4>1, <5>2, <5>3 DEF Passed
      <4>2. QED
        BY <4>1
    <3>4. Used(Passed)' <= Quota
      BY <1>6, <2>2, <2>3, <3>3, ScanAdmits
    <3>5. FewRows'
      BY <2>1, FewRowsKept
    <3>6. \A v \in Workers : frame'[v] = frame[v] \/ WorkerPaid(v)'
      BY <3>2 DEF OneMoves
    <3>7. QED
      BY <1>2, <1>5, <2>1, <3>4, <3>5, <3>6, PaidKept
  <2>4. CASE to # "safe-copy"
    <3>1. Follows(s, to)
      BY <1>6, <2>4 DEF GoMove, Ingesting, Deciding, Moving, Stored, Textual
    <3>2. QED
      BY <1>3, <1>5, <2>1, <3>1
  <2>5. QED
    BY <2>3, <2>4
<1>7. ASSUME NEW s \in Statement, NEW to \in Statement,
             NEW status \in {"scanning", "extracting", "indexing", "ready", "failed", "quarantined"},
             StatusMove(s, status, to), SetStatus(w, s, status, to),
             s = "begin" => ~doc[D(w)].safeKey
      PROVE  Paid'
  <2>1. /\ Step(w, s, to) /\ s # "idle" /\ to # "idle" /\ to # s
        /\ doc' = [doc EXCEPT ![D(w)].status = status]
    BY <1>7 DEF StatusMove, SetStatus
  <2>2. /\ D(w)' = D(w) /\ D(w) \in Docs /\ frame[w].next = s /\ frame'[w].next = to
        /\ frame'[w].job = frame[w].job
    BY <1>1, <2>1
  <2>3. /\ doc'[D(w)].status = status /\ \A e \in Docs : e # D(w) => doc'[e] = doc[e]
        /\ doc'[D(w)].safeKey = doc[D(w)].safeKey
    BY <1>0, <2>1, <2>2, DocStatus
  <2>4. s \in Ingesting /\ to \notin Moving
    BY <1>7 DEF StatusMove, Ingesting, Deciding, Moving, Stored, Textual
  <2>5. DocPaid(D(w))'
    BY <1>0, <1>7, <2>2, <2>3
    DEF StatusMove, WorkerPaid, DocPaid, Rejected, Deciding, Stored, Textual, Blank
  <2>6. WorkerPaid(w)'
    BY <1>0, <1>7, <2>2, <2>3
    DEF StatusMove, WorkerPaid, Ingesting, Deciding, Moving, Stored, Textual, Blank
  <2>7. doc[D(w)].status # "absent"
    BY <2>1, <2>2, OwnRow DEF IInv, Known, RowKnown, D
  <2>8. QED
    BY <1>4, <2>1, <2>3, <2>4, <2>5, <2>6, <2>7 DEF SameDoc
<1>8. ASSUME NEW s \in Statement, NEW to \in Statement, NEW toc \in TocStatus,
             TocMove(s, toc, to), SetToc(w, s, toc, to)
      PROVE  Paid'
  <2>1. /\ Step(w, s, to) /\ s # "idle" /\ to # "idle"
        /\ doc' = [doc EXCEPT ![D(w)].toc = toc]
    BY <1>8 DEF TocMove, SetToc
  <2>2. \A d \in Docs : SameDoc(d)
    BY <1>0, <1>1, <2>1, DocToc DEF SameDoc
  <2>3. Follows(s, to)
    BY <1>8 DEF TocMove, Ingesting, Deciding, Moving, Stored, Textual
  <2>4. QED
    BY <1>3, <2>1, <2>2, <2>3
<1>9. ASSUME NEW s \in Statement, NEW to \in Statement, NEW bucket \in {"safe", "quarantine"},
             \/ CopyMove(s, bucket, to) /\ Copy(w, s, bucket, to)
             \/ DeleteMove(s, to) /\ Delete(w, s, to)
      PROVE  Paid'
  <2>1. Step(w, s, to) /\ s # "idle" /\ to # "idle" /\ doc' = doc
    BY <1>9 DEF CopyMove, Copy, DeleteMove, Delete
  <2>2. Follows(s, to)
    BY <1>9 DEF CopyMove, DeleteMove, Ingesting, Deciding, Moving, Stored, Textual
  <2>3. QED
    BY <1>3, <1>5, <2>1, <2>2
<1>10. ASSUME NEW s \in Statement, NEW to \in Statement, NEW status \in ChapterStatus,
              ChapterMove(w, s, status, to), SetChapter(w, s, status, to)
       PROVE  Paid'
  <2>1. Step(w, s, to) /\ s # "idle" /\ to # "idle" /\ doc' = doc
    BY <1>10 DEF ChapterMove, SetChapter
  <2>2. Follows(s, to)
    BY <1>10 DEF ChapterMove, Ingesting, Deciding, Moving, Stored, Textual
  <2>3. QED
    BY <1>3, <1>5, <2>1, <2>2
\* What an UPDATE of a further column leaves.
<1>11. ASSUME NEW s \in Statement, NEW to \in Statement, Step(w, s, to), s # "idle", to # "idle", NEW c,
              \/ doc' = [doc EXCEPT ![D(w)].chunks = c] \/ doc' = [doc EXCEPT ![D(w)].pointer = c]
              \/ doc' = [doc EXCEPT ![D(w)].sha = c]
       PROVE  \A d \in Docs : SameDoc(d)
  <2>1. D(w) \in Docs
    BY <1>1, <1>11
  <2>2. ASSUME NEW r, r.status = doc[D(w)].status, r.safeKey = doc[D(w)].safeKey,
               doc' = [doc EXCEPT ![D(w)] = r]
        PROVE  \A d \in Docs : SameDoc(d)
    BY <1>0, <2>1, <2>2 DEF SameDoc
  <2>3. /\ [doc[D(w)] EXCEPT !.chunks = c].status = doc[D(w)].status
        /\ [doc[D(w)] EXCEPT !.chunks = c].safeKey = doc[D(w)].safeKey
        /\ [doc[D(w)] EXCEPT !.pointer = c].status = doc[D(w)].status
        /\ [doc[D(w)] EXCEPT !.pointer = c].safeKey = doc[D(w)].safeKey
        /\ [doc[D(w)] EXCEPT !.sha = c].status = doc[D(w)].status
        /\ [doc[D(w)] EXCEPT !.sha = c].safeKey = doc[D(w)].safeKey
    BY <1>0, <2>1 DEF Doc
  <2>4. CASE doc' = [doc EXCEPT ![D(w)].chunks = c]
    BY <2>2, <2>3, <2>4
  <2>5. CASE doc' = [doc EXCEPT ![D(w)].pointer = c]
    BY <2>2, <2>3, <2>5
  <2>6. CASE doc' = [doc EXCEPT ![D(w)].sha = c]
    BY <2>2, <2>3, <2>6
  <2>7. QED
    BY <1>11, <2>4, <2>5, <2>6
<1>12. CASE SetHash(w) \/ CopyChunks(w) \/ CopyPointer(w) \/ InsertChunks(w) \/ Embed(w)
            \/ SetPointer(w) \/ Points(w)
  <2>1. PICK s, to \in Statement :
          /\ Step(w, s, to) /\ s # "idle" /\ to # "idle" /\ Follows(s, to)
          /\ \E c : \/ doc' = [doc EXCEPT ![D(w)].chunks = c] \/ doc' = [doc EXCEPT ![D(w)].pointer = c]
                    \/ doc' = [doc EXCEPT ![D(w)].sha = c]
    <3>1. CASE SetHash(w)
      BY <3>1, StatementIs DEF SetHash, Ingesting, Deciding, Moving, Stored, Textual
    <3>2. CASE CopyChunks(w)
      BY <3>2, StatementIs DEF CopyChunks, Ingesting, Deciding, Moving, Stored, Textual
    <3>3. CASE CopyPointer(w)
      BY <3>3, StatementIs DEF CopyPointer, Ingesting, Deciding, Moving, Stored, Textual
    <3>4. CASE InsertChunks(w)
      BY <3>4, StatementIs DEF InsertChunks, Ingesting, Deciding, Moving, Stored, Textual
    <3>5. CASE Embed(w)
      BY <3>5, StatementIs DEF Embed, Ingesting, Deciding, Moving, Stored, Textual
    <3>6. CASE SetPointer(w)
      BY <3>6, StatementIs DEF SetPointer, Ingesting, Deciding, Moving, Stored, Textual
    <3>7. CASE Points(w)
      BY <3>7, StatementIs DEF Points, Ingesting, Deciding, Moving, Stored, Textual
    <3>8. QED
      BY <1>12, <3>1, <3>2, <3>3, <3>4, <3>5, <3>6, <3>7
  <2>2. \A d \in Docs : SameDoc(d)
    BY <1>11, <2>1
  <2>3. QED
    BY <1>3, <2>1, <2>2
<1>13. CASE CopiesTree(w)
  <2>1. /\ Step(w, "copy-tree", "copy-toc") /\ doc' = doc
        /\ "copy-tree" \in Statement /\ "copy-toc" \in Statement
    BY <1>13, StatementIs DEF CopiesTree
  <2>2. Follows("copy-tree", "copy-toc")
    BY DEF Ingesting, Deciding, Moving, Stored, Textual
  <2>3. QED
    BY <1>3, <1>5, <2>1, <2>2
<1>14. CASE SetSafeKey(w)
  <2>1. /\ Step(w, "safe-key", "hash") /\ "safe-key" \in Statement /\ "hash" \in Statement
        /\ doc' = [doc EXCEPT ![D(w)] = [doc[D(w)] EXCEPT !.safeKey = TRUE]]
    BY <1>14, StatementIs DEF SetSafeKey
  <2>2. /\ D(w)' = D(w) /\ D(w) \in Docs /\ frame[w].next = "safe-key" /\ frame'[w].next = "hash"
        /\ frame'[w].job = frame[w].job
    BY <1>1, <2>1
  <2>3. /\ doc'[D(w)].status = doc[D(w)].status /\ doc'[D(w)].safeKey
        /\ \A e \in Docs : e # D(w) => doc'[e] = doc[e]
    <3>1. doc[D(w)] \in Doc
      BY <1>0, <2>2
    <3>2. /\ [doc[D(w)] EXCEPT !.safeKey = TRUE].status = doc[D(w)].status
          /\ [doc[D(w)] EXCEPT !.safeKey = TRUE].safeKey = TRUE
      BY <3>1 DEF Doc
    <3>3. QED
      BY <1>0, <2>1, <2>2, <3>2
  <2>4. doc[D(w)].status = "scanning"
    BY <1>0, <2>2 DEF WorkerPaid, Moving
  <2>5. DocPaid(D(w))'
    BY <2>2, <2>3, <2>4 DEF DocPaid, Rejected
  <2>6. WorkerPaid(w)'
    BY <1>0, <2>2, <2>3 DEF WorkerPaid, Ingesting, Deciding, Moving, Stored, Textual
  <2>7. "safe-key" \in Ingesting /\ "safe-key" \in Moving /\ "hash" \notin Moving
    BY DEF Ingesting, Moving
  <2>8. QED
    BY <1>4, <2>1, <2>3, <2>4, <2>5, <2>6, <2>7 DEF SameDoc
<1>15. QED
  BY <1>6, <1>7, <1>8, <1>9, <1>10, <1>12, <1>13, <1>14 DEF Moves

LEMMA StepPaid == IInv /\ Paid /\ [Next]_vars => Paid'
<1> SUFFICES ASSUME IInv, Paid, [Next]_vars PROVE Paid'
  OBVIOUS
<1>0. /\ doc \in [Docs -> Doc] /\ frame \in [Workers -> Frame]
      /\ GoesOn /\ content' = content
  BY StepIInv, ContentStays DEF IInv, Types, Data, Held
\* A step that writes no documents row.
<1>1. ASSUME doc' = doc,
             \A n \in DOMAIN jobs' : n \in DOMAIN jobs \/ jobs'[n].kind # "ingest_document",
             \A v \in Workers : frame'[v] = frame[v] \/ (WorkerPaid(v)' /\ frame'[v].next \notin Moving)
      PROVE  Paid'
  BY <1>0, <1>1, QuietPaid DEF SameDoc
<1>2. CASE UNCHANGED vars
  BY <1>1, <1>2 DEF vars
<1>3. ASSUME NEW d \in Docs, PutRaw(d) PROVE Paid'
  BY <1>1, <1>3 DEF PutRaw
<1>4. ASSUME NEW d \in Docs, InsertDocument(d) PROVE Paid'
  <2>1. /\ doc[d].status = "absent" /\ doc' = [doc EXCEPT ![d].status = "scanning"]
        /\ jobs' = jobs /\ frame' = frame
    <3>1. d >= d
      BY IngestAssumption
    <3>2. QED
      BY <1>4, <3>1 DEF InsertDocument
  <2>2. /\ doc'[d].status = "scanning" /\ doc'[d].safeKey = doc[d].safeKey
        /\ \A e \in Docs : e # d => doc'[e] = doc[e]
        /\ \A e \in Docs : doc'[e].safeKey = doc[e].safeKey
    BY <1>0, <2>1, DocStatus
  <2>3. OneIngest'
    BY <1>0, <2>1, OneIngestKept
  <2>4. FewRows'
    <3>1. {e \in Docs : doc'[e].status # "absent"} \subseteq {e \in Docs : doc[e].status # "absent"} \cup {d}
      BY <2>2
    <3>2. IsFiniteSet({e \in Docs : doc[e].status # "absent"} \cup {d})
      BY FS_AddElement DEF Paid, FewRows
    <3>3. QED
      BY <3>1, <3>2, FS_Subset DEF FewRows
  <2>5. \A v \in Workers : D(v)' = D(v)
    BY <2>1 DEF D
  <2>6. Used(Passed)' <= Quota
    BY <1>0, <2>1, <2>2, <2>5, NoneAdmitted
  <2>7. DocPaid(d)'
    BY <2>2 DEF DocPaid, Rejected
  <2>8. AloneAt(d)
    <3>1. ASSUME NEW v \in Workers, frame[v].next \in Ingesting PROVE D(v) # d
      <4>1. frame[v].next # "idle"
        BY <3>1 DEF Ingesting, Deciding, Moving, Stored, Textual
      <4>2. doc[D(v)].status # "absent"
        BY <4>1, OwnRow DEF IInv, Known, RowKnown, D
      <4>3. QED
        BY <2>1, <4>2
    <3>2. QED
      BY <3>1 DEF AloneAt
  <2>9. \A e \in Docs : SameDoc(e) \/ (DocPaid(e)' /\ AloneAt(e))
    BY <2>2, <2>7, <2>8 DEF SameDoc
  <2>10. QED
    BY <1>0, <2>1, <2>3, <2>4, <2>6, <2>9, PaidKept
<1>5. ASSUME NEW d \in Docs, InsertJob(d) PROVE Paid'
  <2>1. /\ ~HasJob(d) /\ Enqueue("ingest_document", d, None)
        /\ doc' = doc /\ frame' = frame
    BY <1>5 DEF InsertJob
  <2>2. /\ \A m \in DOMAIN jobs : jobs'[m] = jobs[m]
        /\ DOMAIN jobs \subseteq DOMAIN jobs'
        /\ \E k : \A m \in DOMAIN jobs' : m \in DOMAIN jobs \/ (m = k /\ jobs'[m].doc = d)
    <3>1. jobs \in Seq(Job) /\ DOMAIN jobs = 1 .. Len(jobs) /\ Len(jobs) \in Nat
      BY LenProperties DEF IInv, Types, Rows
    <3>2. Pending("ingest_document", d, None) \in Job /\ Pending("ingest_document", d, None).doc = d
      BY IngestAssumption DEF Pending, Job
    <3>3. jobs' = Append(jobs, Pending("ingest_document", d, None))
      BY <2>1 DEF Enqueue
    <3>4. /\ jobs' \in Seq(Job) /\ Len(jobs') = Len(jobs) + 1
          /\ \A m \in 1 .. Len(jobs) : jobs'[m] = jobs[m]
          /\ jobs'[Len(jobs) + 1] = Pending("ingest_document", d, None)
      BY <3>1, <3>2, <3>3, AppendProperties
    <3>5. DOMAIN jobs' = 1 .. Len(jobs) + 1
      <4>1. DOMAIN jobs' = 1 .. Len(jobs')
        BY <3>4, LenProperties
      <4>2. QED
        BY <3>4, <4>1
    <3>6. QED
      BY <3>1, <3>2, <3>4, <3>5
  <2>3. OneIngest'
    BY <2>1, <2>2 DEF OneIngest, Paid, HasJob
  <2>4. FewRows'
    BY <2>1, FewRowsKept
  <2>5. \A v \in Workers : frame[v].next \in Moving => D(v)' = D(v)
    <3>1. ASSUME NEW v \in Workers, frame[v].next \in Moving PROVE D(v)' = D(v)
      <4>1. frame[v].next # "idle"
        BY <3>1 DEF Moving
      <4>2. frame[v].job \in DOMAIN jobs
        BY <4>1, OwnRow DEF IInv
      <4>3. QED
        BY <2>1, <2>2, <4>2 DEF D
    <3>2. QED
      BY <3>1
  <2>6. Used(Passed)' <= Quota
    BY <1>0, <2>1, <2>5, NoneAdmitted
  <2>7. QED
    BY <1>0, <2>1, <2>3, <2>4, <2>6, PaidKept DEF SameDoc
<1>6. ASSUME NEW n \in 1 .. MaxJobs, Reclaim(n) PROVE Paid'
  <2>1. doc' = doc /\ frame' = frame /\ DOMAIN jobs' = DOMAIN jobs
    BY <1>6 DEF Reclaim, IInv, Types, Rows
  <2>2. QED
    BY <1>1, <2>1
<1>7. ASSUME NEW w \in Workers, Work(w) \/ CallFails(w) \/ Crash(w) PROVE Paid'
  <2>1. CASE Moves(w)
    <3>1. jobs' = jobs /\ OneMoves(w)
      BY <2>1, MovesKeep DEF OneMoves
    <3>2. QED
      BY <1>0, <2>1, <3>1, MovePaid
  <2>2. ASSUME NEW f, frame' = [frame EXCEPT ![w] = f], doc' = doc, f.next \notin Moving, WorkerPaid(w)',
               \A n \in DOMAIN jobs' : n \in DOMAIN jobs \/ jobs'[n].kind # "ingest_document"
        PROVE  Paid'
    BY <1>0, <1>1, <2>2
  <2>3. ASSUME NEW f, frame' = [frame EXCEPT ![w] = f], doc' = doc, f.next \notin Ingesting,
               \A n \in DOMAIN jobs' : n \in DOMAIN jobs \/ jobs'[n].kind # "ingest_document"
        PROVE  Paid'
    <3>1. frame'[w] = f
      BY <1>0, <2>3
    <3>2. WorkerPaid(w)' /\ f.next \notin Moving
      BY <2>3, <3>1 DEF WorkerPaid, Ingesting, Stored
    <3>3. QED
      BY <2>2, <2>3, <3>2
  <2>4. CASE Claim(w)
    <3>1. PICK n \in DOMAIN jobs :
            /\ frame' = [frame EXCEPT ![w] = Claimed(FirstStatement(jobs[n].kind), n)]
            /\ jobs' = [jobs EXCEPT ![n].status = "running"]
      BY <2>4, Zenon DEF Claim, Claimed
    <3>2. doc' = doc /\ DOMAIN jobs' = DOMAIN jobs
      BY <2>4, <3>1 DEF Claim
    <3>3. jobs[n] \in Job /\ n \in 1 .. MaxJobs
      <4>1. jobs \in Seq(Job) /\ DOMAIN jobs = 1 .. Len(jobs) /\ Len(jobs) \in Nat /\ Len(jobs) <= MaxJobs
        BY LenProperties DEF IInv, Types, Rows
      <4>2. MaxJobs \in Nat
        BY IngestAssumption
      <4>3. QED
        BY <4>1, <4>2, ElementOfSeq
    <3> DEFINE s == FirstStatement(jobs[n].kind)
               f == Claimed(s, n)
    <3>4. /\ s \in {"begin", "detect", "fill"} /\ s \in Statement
          /\ s = "begin" => jobs[n].kind = "ingest_document"
      BY <3>3, StatementIs DEF FirstStatement, Job
    <3>5. f.next = s /\ f.job = n
      BY <3>3, <3>4, ClaimedType
    <3> HIDE DEF f, s
    <3>6. frame' = [frame EXCEPT ![w] = f]
      BY <3>1 DEF f, s
    <3>7. frame'[w] = f /\ jobs'[n].kind = jobs[n].kind
      BY <1>0, <3>6 DEF GoesOn
    <3>8. WorkerPaid(w)' /\ f.next \notin Moving
      BY <3>4, <3>5, <3>7 DEF WorkerPaid, Ingesting, Deciding, Moving, Stored, Textual
    <3>9. QED
      BY <2>2, <3>2, <3>6, <3>8
  <2>5. CASE Frees(w)
    <3>1. frame' = [frame EXCEPT ![w] = Idle] /\ doc' = doc /\ DOMAIN jobs' = DOMAIN jobs
      BY <2>5 DEF Frees, MarkDone, MarkFailed, Abandon
    <3>2. Idle.next \notin Ingesting
      BY IdleType DEF Ingesting, Deciding, Moving, Stored, Textual
    <3>3. QED
      BY <2>3, <3>1, <3>2
  <2>6. CASE FindDuplicate(w)
    <3>1. doc' = doc /\ jobs' = jobs
      BY <2>6, Zenon DEF FindDuplicate
    <3>2. /\ frame[w].next = "dedup" /\ frame'[w].job = frame[w].job
          /\ frame' = [frame EXCEPT ![w] = frame'[w]]
          /\ \/ frame'[w].next = "extract"
             \/ frame'[w].next = "copy-status" /\ frame'[w].dup \in Duplicates(D(w))
      BY <2>6, FindLeads
    <3>3. WorkerPaid(w) /\ D(w)' = D(w)
      BY <3>1, <3>2 DEF Paid, D
    <3>4. frame'[w].next = "copy-status" => ~Blank(D(w))
      BY <3>2 DEF Duplicates, Blank, Paid, DocPaid
    <3>5. WorkerPaid(w)' /\ frame'[w].next \notin Moving
      BY <1>0, <3>1, <3>2, <3>3, <3>4 DEF WorkerPaid, Ingesting, Deciding, Moving, Stored, Textual, Blank
    <3>6. QED
      BY <2>2, <3>1, <3>2, <3>5
  <2>7. CASE EnqueueDetect(w)
    <3>1. Step(w, "enqueue-detect", "ready") /\ doc' = doc /\ Enqueue("detect_textbook_toc", D(w), None)
      BY <2>7 DEF EnqueueDetect
    <3>2. /\ frame[w].next = "enqueue-detect" /\ frame'[w].next = "ready"
          /\ frame'[w].job = frame[w].job /\ frame' = [frame EXCEPT ![w] = frame'[w]]
      BY <3>1, StepIs, StatementIs DEF IInv
    <3>3. frame[w].job \in DOMAIN jobs /\ D(w) \in Docs
      BY <3>2, OwnRow DEF IInv
    <3>4. \A n \in DOMAIN jobs' : n \in DOMAIN jobs \/ jobs'[n].kind # "ingest_document"
      BY <3>1, <3>3, RowInserted DEF IInv, Types
    <3>5. WorkerPaid(w) /\ D(w)' = D(w) /\ jobs'[frame[w].job].kind = jobs[frame[w].job].kind
      BY <1>0, <3>2, <3>3 DEF Paid, D, GoesOn
    <3>6. WorkerPaid(w)' /\ frame'[w].next \notin Moving
      BY <1>0, <3>1, <3>2, <3>5 DEF WorkerPaid, Ingesting, Deciding, Moving, Stored, Textual, Blank
    <3>7. QED
      BY <2>2, <3>1, <3>2, <3>4, <3>6
  <2>8. CASE ListsChapters(w)
    <3>1. /\ frame'[w].next = "enqueue-fills" /\ frame' = [frame EXCEPT ![w] = frame'[w]] /\ doc' = doc
      BY <2>8, ListsLeads
    <3>2. jobs' = jobs
      BY <2>8 DEF ListsChapters
    <3>3. QED
      BY <2>3, <3>1, <3>2 DEF Ingesting, Deciding, Moving, Stored, Textual
  <2>9. CASE EnqueueFill(w)
    <3>1. /\ frame'[w].next \in {"done", "enqueue-fills"} /\ doc' = doc
          /\ frame' = [frame EXCEPT ![w] = frame'[w]]
      BY <2>9, FillLeads
    <3>2. \A n \in DOMAIN jobs' : n \in DOMAIN jobs \/ jobs'[n].kind # "ingest_document"
      <4>1. PICK c \in frame[w].todo : Enqueue("fill_textbook_chapter", D(w), c) /\ At(w, "enqueue-fills")
        BY <2>9, Zenon DEF EnqueueFill
      <4>2. D(w) \in Docs /\ c \in Chapters
        <5>1. frame[w] \in Frame /\ frame[w].next # "idle"
          BY <1>0, <4>1 DEF At
        <5>2. QED
          BY <4>1, <5>1, OwnRow DEF Frame, IInv
      <4>3. QED
        BY <4>1, <4>2, RowInserted DEF IInv, Types
    <3>3. QED
      BY <2>3, <3>1, <3>2 DEF Ingesting, Deciding, Moving, Stored, Textual
  <2>10. QED
    BY <1>7, <2>1, <2>4, <2>5, <2>6, <2>7, <2>8, <2>9, WorkCases DEF IInv
<1>8. QED
  BY <1>2, <1>3, <1>4, <1>5, <1>6, <1>7 DEF Next

LEMMA InitPaid == Init => Paid
<1> SUFFICES ASSUME Init PROVE Paid
  OBVIOUS
<1>1. \A d \in Docs : doc[d].status = "absent" /\ ~doc[d].safeKey
  BY DEF Init, NoDoc
<1>2. \A w \in Workers : frame[w].next = "idle"
  BY IdleType DEF Init
<1>3. \A d \in Docs : DocPaid(d)
  BY <1>1 DEF DocPaid
<1>4. \A w \in Workers : WorkerPaid(w)
  BY <1>2 DEF WorkerPaid, Ingesting, Deciding, Moving, Stored, Textual
<1>5. OneIngest
  BY DEF Init, OneIngest
<1>6. FewRows
  <2>1. {d \in Docs : doc[d].status # "absent"} = {}
    BY <1>1
  <2>2. QED
    BY <2>1, FS_EmptySet DEF FewRows
<1>7. Used(Passed) <= Quota
  <2>1. Bytes(Passed) = {}
    BY <1>1, <1>2 DEF Passed, Busy, Moving, Bytes
  <2>2. Used(Passed) = 0
    BY <2>1, FS_EmptySet DEF Used
  <2>3. QED
    BY <2>2, IngestAssumption
<1>8. QED
  BY <1>3, <1>4, <1>5, <1>6, <1>7 DEF Paid

\* Uploads checked at the same time never slip under the quota together, for any number of
\* uploads and workers and whatever dies or is retried (policy.py:45-50).
THEOREM QuotaIsKept == Spec => []QuotaHolds
<1>1. IInv /\ Paid => QuotaHolds
  <2> SUFFICES ASSUME IInv, Paid PROVE QuotaHolds
    OBVIOUS
  <2> DEFINE R == {d \in Docs : doc[d].status = "ready"}
  <2>1. R \subseteq Passed
    BY DEF Paid, DocPaid, Passed
  <2>2. IsFiniteSet(Passed) /\ IsFiniteSet(R) /\ Used(R) <= Used(Passed)
    BY <2>1, PassedIsFinite, UsedGrows
  <2> HIDE DEF R
  <2>3. Used(R) \in Nat /\ Used(Passed) \in Nat /\ Quota \in Nat /\ Used(Passed) <= Quota
    BY <2>2, UsedIs, IngestAssumption DEF Paid
  <2>4. Used(R) <= Quota
    BY <2>2, <2>3
  <2>5. QED
    BY <2>4 DEF QuotaHolds, R
<1>2. QED
  BY <1>1, InitPaid, StepPaid, IngestInvariant, PTL DEF Spec
=============================================================================
