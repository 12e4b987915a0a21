------------------------- MODULE DocumentPipeline -------------------------
(***************************************************************************)
(* The processing pipeline of one document: the API handler that starts    *)
(* it, the Celery tasks documents.process_document and                     *)
(* analysis.run_analysis, and the at-least-once broker between them.       *)
(*                                                                         *)
(* An action is one database transaction, or one step outside of any       *)
(* transaction (parsing a file, publishing a message).  run_analysis holds *)
(* the row lock of the document from its SELECT ... FOR UPDATE to its      *)
(* commit, so its transaction is two steps, with pc "analyze" in between;  *)
(* process_document holds row locks on the blocks it has deleted while its *)
(* pc is "replace".  Tasks write through ORM objects that they loaded      *)
(* earlier (expire_on_commit=False), and a flush writes only the columns   *)
(* whose value differs from the loaded one.                                *)
(***************************************************************************)
EXTENDS Integers, Sequences

CONSTANTS
    Requests,      \* POST .../process requests, each handled once
    Workers,       \* Celery worker slots
    Contents,      \* what the stored file may turn out to be
    MaxRetries,    \* max_retries of process_document (3 in the code)
    MaxFaults      \* bound on redeliveries, crashes and lost messages

\* "blocks": parses into blocks;  "scanned": a PDF that needs OCR;
\* "malformed": the parser raises PdfParseError, HwpxParseError or
\* UnsupportedParserError;  "invalid": it raises anything else, such as the
\* ValueError of ParseResult for an HWPX spine that repeats a section.
ContentKinds == {"blocks", "scanned", "malformed", "invalid"}

ASSUME ConstantsAssumption ==
    /\ Contents \subseteq ContentKinds
    /\ MaxRetries \in Nat
    /\ MaxFaults \in Nat

VARIABLES
    content,   \* the kind of file, fixed at upload: parsing is deterministic
    state,     \* documents.state, "DELETED" once the row is gone
    error,     \* documents.error_code
    blocks,    \* the parse whose rows are in document_blocks, 0 for none
    parses,    \* how many parses have been stored so far
    jobs,      \* analysis_jobs in commit order, with their requirements' evidence
    ready,     \* how many copies of each message wait in the broker
    pc,        \* what each worker is doing
    held,      \* the message each busy worker has not acknowledged yet
    seen,      \* the parse whose blocks a worker's transaction has read or deleted
    request,   \* where the handler of each request is
    loaded,    \* error_code of the document object each request holds
    faults,    \* faults so far
    lost       \* history: a message was lost for good

docVars == <<state, error, blocks, parses, jobs>>
workerVars == <<pc, held, seen>>
requestVars == <<request, loaded>>
faultVars == <<faults, lost>>
vars == <<content, docVars, ready, workerVars, requestVars, faultVars>>

ActiveStates == {"PARSING", "ANALYZING"}
ReviewableStates == {"REVIEW_REQUIRED", "PARTIAL"}
DocumentStates ==
    {"UPLOADED", "OCR_REQUIRED", "FAILED"} \cup ActiveStates \cup ReviewableStates

ParseErrors == {"storage_unavailable", "parse_error"}
ErrorCodes == {"none", "ocr_required", "analysis_failed", "analysis_partial"} \cup ParseErrors

Process(n) == [task |-> "process_document", retries |-> n]
Analyze == [task |-> "run_analysis", retries |-> 0]
ProcessMessages == {Process(n) : n \in 0..MaxRetries}
Messages == ProcessMessages \cup {Analyze}
NoMessage == [task |-> "none", retries |-> 0]

\* A job row with what became of the requirements it inserted: "none" inserted,
\* inserted and "cited" by evidence rows, or left "uncited" when a later parse
\* deleted the blocks, which cascades to the evidence.
Jobs == [state : {"SUCCEEDED", "PARTIAL", "FAILED"}, evidence : {"none", "cited", "uncited"}]

Init ==
    /\ content \in Contents
    /\ state = "UPLOADED" /\ error = "none"
    /\ blocks = 0 /\ parses = 0 /\ jobs = <<>>
    /\ ready = [m \in Messages |-> 0]
    /\ pc = [w \in Workers |-> "idle"]
    /\ held = [w \in Workers |-> NoMessage]
    /\ seen = [w \in Workers |-> 0]
    /\ request = [r \in Requests |-> "new"]
    /\ loaded = [r \in Requests |-> "none"]
    /\ faults = 0 /\ lost = FALSE

----------------------------------------------------------------------------
(* The row lock, the broker and the acknowledgement.                       *)

\* Nobody holds the document row: the condition under which an UPDATE, a
\* DELETE or a SELECT ... FOR UPDATE of it goes through.
RowUnlocked == \A w \in Workers : pc[w] # "analyze"

Publish(m) == ready' = [ready EXCEPT ![m] = @ + 1]
Take(m) == ready[m] > 0 /\ ready' = [ready EXCEPT ![m] = @ - 1]

\* acks_late: the message is acknowledged when the task is over, however it ended.
ReleaseKeepsMessage(w) ==
    /\ pc' = [pc EXCEPT ![w] = "idle"]
    /\ seen' = [seen EXCEPT ![w] = 0]
    /\ UNCHANGED held
Release(w) ==
    /\ pc' = [pc EXCEPT ![w] = "idle"]
    /\ held' = [held EXCEPT ![w] = NoMessage]
    /\ seen' = [seen EXCEPT ![w] = 0]

Goto(w, label) == pc' = [pc EXCEPT ![w] = label]

Begin(w, m, label, parse) ==
    /\ pc[w] = "idle"
    /\ Take(m)
    /\ pc' = [pc EXCEPT ![w] = label]
    /\ held' = [held EXCEPT ![w] = m]
    /\ seen' = [seen EXCEPT ![w] = parse]

----------------------------------------------------------------------------
(* The API: start_processing and delete_document.                          *)

\* get_owned_document reads the row without a lock, and the check for an
\* active document is made on that copy.
LoadDocument(r) ==
    /\ request[r] = "new"
    /\ request' = [request EXCEPT ![r] =
           IF state \in ActiveStates \cup {"DELETED"} THEN "rejected" ELSE "checked"]
    /\ loaded' = [loaded EXCEPT ![r] = error]
    /\ UNCHANGED <<content, docVars, ready, workerVars, faultVars>>

\* The commit of mark_document_for_processing: error_code is among the columns
\* written only if the loaded copy had one.
MarkForProcessing(r) ==
    /\ request[r] = "checked"
    /\ RowUnlocked
    /\ IF state = "DELETED"
       THEN /\ request' = [request EXCEPT ![r] = "rejected"]
            /\ UNCHANGED docVars
       ELSE /\ request' = [request EXCEPT ![r] = "marked"]
            /\ state' = "PARSING"
            /\ error' = IF loaded[r] = "none" THEN error ELSE "none"
            /\ UNCHANGED <<blocks, parses, jobs>>
    /\ UNCHANGED <<content, ready, workerVars, loaded, faultVars>>

EnqueueProcessing(r) ==
    /\ request[r] = "marked"
    /\ request' = [request EXCEPT ![r] = "accepted"]
    /\ Publish(Process(0))
    /\ UNCHANGED <<content, docVars, workerVars, loaded, faultVars>>

\* The row and, by ON DELETE CASCADE, its blocks, jobs, requirements and evidence.
DeleteDocument ==
    /\ state # "DELETED"
    /\ RowUnlocked
    /\ state' = "DELETED" /\ error' = "none"
    /\ blocks' = 0 /\ jobs' = <<>>
    /\ UNCHANGED <<content, parses, ready, workerVars, requestVars, faultVars>>

----------------------------------------------------------------------------
(* documents.process_document.                                             *)

\* The SELECT ... FOR UPDATE loads the row afresh; the lock goes with the
\* commit that publishes PARSING, before the file is opened.
StartProcess(w, m) ==
    /\ m \in ProcessMessages
    /\ RowUnlocked
    /\ state # "DELETED"
    /\ Begin(w, m, "parse", 0)
    /\ state' = "PARSING" /\ error' = "none"
    /\ UNCHANGED <<content, blocks, parses, jobs, requestVars, faultVars>>

\* "not_found", for either task.
DropMessage(w, m) ==
    /\ pc[w] = "idle"
    /\ state = "DELETED"
    /\ Take(m)
    /\ UNCHANGED <<content, docVars, workerVars, requestVars, faultVars>>

\* An UPDATE of the document through the task's own copy, and the end of the
\* task.  When the row is gone the flush raises StaleDataError instead.
WriteOutcome(w, s, e) ==
    /\ RowUnlocked
    /\ IF state = "DELETED"
       THEN UNCHANGED <<state, error>>
       ELSE state' = s /\ error' = e
    /\ Release(w)

HasRetriesLeft(m) == m.retries < MaxRetries

\* OSError while the file is opened or read: self.retry publishes the message
\* again with one more retry on its count, and its own exception ends the task.
RetryParse(w) ==
    /\ pc[w] = "parse"
    /\ HasRetriesLeft(held[w])
    /\ Publish(Process(held[w].retries + 1))
    /\ Release(w)
    /\ UNCHANGED <<content, docVars, requestVars, faultVars>>

\* MaxRetriesExceededError.
GiveUpParse(w) ==
    /\ pc[w] = "parse"
    /\ ~HasRetriesLeft(held[w])
    /\ WriteOutcome(w, "FAILED", "storage_unavailable")
    /\ UNCHANGED <<content, blocks, parses, jobs, ready, requestVars, faultVars>>

RejectFile(w) ==
    /\ pc[w] = "parse"
    /\ content = "malformed"
    /\ WriteOutcome(w, "FAILED", "parse_error")
    /\ UNCHANGED <<content, blocks, parses, jobs, ready, requestVars, faultVars>>

\* Any other exception of the parser ends the task with no write at all.
ParserRaises(w) ==
    /\ pc[w] = "parse"
    /\ content = "invalid"
    /\ Release(w)
    /\ UNCHANGED <<content, docVars, ready, requestVars, faultVars>>

\* The DELETE of the old blocks, whose row locks are kept until the commit.
DeleteOldBlocks(w) ==
    /\ pc[w] = "parse"
    /\ content \in {"blocks", "scanned"}
    /\ Goto(w, "replace")
    /\ seen' = [seen EXCEPT ![w] = blocks]
    /\ UNCHANGED <<content, docVars, ready, held, requestVars, faultVars>>

\* The deletion of the blocks cascades to the evidence of every earlier job.
LoseEvidence(history) ==
    [i \in DOMAIN history |->
        IF history[i].evidence = "cited"
        THEN [history[i] EXCEPT !.evidence = "uncited"]
        ELSE history[i]]

\* The flush can go through: the row exists, and the blocks that the DELETE saw
\* are still the stored ones (uq_document_blocks_block_id: another parse stored
\* since then has the same block ids).
CanStoreUnlocked(w) == state # "DELETED" /\ blocks = seen[w]
CanStoreDeleted(w) == RowUnlocked /\ blocks = seen[w]
CanStore(w) == RowUnlocked /\ state # "DELETED" /\ blocks = seen[w]

StoreOcrRequired(w) ==
    /\ pc[w] = "replace"
    /\ content = "scanned"
    /\ CanStore(w)
    /\ state' = "OCR_REQUIRED" /\ error' = "ocr_required"
    /\ blocks' = 0
    /\ jobs' = LoseEvidence(jobs)
    /\ Release(w)
    /\ UNCHANGED <<content, parses, ready, requestVars, faultVars>>

\* error_code is not written here: it is None in the task's copy already.
StoreBlocks(w) ==
    /\ pc[w] = "replace"
    /\ content = "blocks"
    /\ CanStore(w)
    /\ state' = "ANALYZING"
    /\ parses' = parses + 1
    /\ blocks' = parses + 1
    /\ jobs' = LoseEvidence(jobs)
    /\ Goto(w, "dispatch")
    /\ UNCHANGED <<content, error, ready, held, seen, requestVars, faultVars>>

\* StaleDataError or IntegrityError: the transaction rolls back, the task ends.
StoreAborts(w) ==
    /\ pc[w] = "replace"
    /\ state = "DELETED" \/ blocks # seen[w]
    /\ Release(w)
    /\ UNCHANGED <<content, docVars, ready, requestVars, faultVars>>

DispatchNothing(w) ==
    /\ pc[w] = "dispatch"
    /\ Release(w)
    /\ UNCHANGED <<content, docVars, ready, requestVars, faultVars>>
DispatchAnalysis(w) ==
    /\ pc[w] = "dispatch"
    /\ Publish(Analyze)
    /\ Release(w)
    /\ UNCHANGED <<content, docVars, requestVars, faultVars>>

----------------------------------------------------------------------------
(* analysis.run_analysis.                                                  *)

\* Locks the row, whatever its state, and reads the blocks.  The job it adds
\* is not visible before the commit.
StartAnalysis(w) ==
    /\ RowUnlocked
    /\ state # "DELETED"
    /\ Begin(w, Analyze, "analyze", blocks)
    /\ UNCHANGED <<content, docVars, requestVars, faultVars>>

\* Tasks whose open transaction has deleted the blocks that w cites.
Replacing(w) == {v \in Workers : pc[v] = "replace" /\ seen[v] = seen[w] /\ seen[w] # 0}

FailedAnalysisJobOnly(w) ==
    /\ jobs' = Append(jobs, [state |-> "FAILED", evidence |-> "none"])
    /\ Release(w)
    /\ UNCHANGED <<state, error>>
FailedAnalysis(w) ==
    /\ state' = "FAILED" /\ error' = "analysis_failed"
    /\ jobs' = Append(jobs, [state |-> "FAILED", evidence |-> "none"])
    /\ Release(w)

\* The provider raises, there is no chunk, or every chunk failed.
AnalysisFails(w) ==
    /\ pc[w] = "analyze"
    /\ FailedAnalysis(w)
    /\ UNCHANGED <<content, blocks, parses, ready, requestVars, faultVars>>

\* Some chunks succeeded: the requirements found are inserted with their
\* evidence, and the document is released for review.
ErrorIfPartialOnly(partial) == IF partial THEN "analysis_partial" ELSE error
ErrorOfReview(partial) == IF partial THEN "analysis_partial" ELSE "none"

AnalysisSucceeds(w, partial, found) ==
    /\ pc[w] = "analyze"
    /\ seen[w] # 0
    /\ found => Replacing(w) = {}
    /\ state' = IF partial THEN "PARTIAL" ELSE "REVIEW_REQUIRED"
    /\ error' = ErrorOfReview(partial)
    /\ jobs' = Append(jobs, [state |-> IF partial THEN "PARTIAL" ELSE "SUCCEEDED",
                             evidence |-> IF found THEN "cited" ELSE "none"])
    /\ Goto(w, "summarise")
    /\ UNCHANGED <<content, blocks, parses, ready, held, seen, requestVars, faultVars>>

\* The foreign key of a new evidence row waits for the deleter of its block, who
\* waits for the document row: PostgreSQL aborts one of the two.
DeadlockAbortsAnalysis(w) ==
    /\ pc[w] = "analyze"
    /\ Replacing(w) # {}
    /\ Release(w)
    /\ UNCHANGED <<content, docVars, ready, requestVars, faultVars>>

DeadlockAbortsProcessing(w, v) ==
    /\ pc[w] = "analyze"
    /\ v \in Replacing(w)
    /\ Release(v)
    /\ UNCHANGED <<content, docVars, ready, requestVars, faultVars>>

\* The rest of the task schedules the project summary, in tables this module
\* leaves out; the message is still unacknowledged meanwhile.
FinishSummary(w) ==
    /\ pc[w] = "summarise"
    /\ Release(w)
    /\ UNCHANGED <<content, docVars, ready, requestVars, faultVars>>

----------------------------------------------------------------------------
(* Faults.                                                                 *)

Fault(losing) ==
    /\ faults < MaxFaults
    /\ faults' = faults + 1
    /\ lost' = (lost \/ losing)

\* The visibility timeout of the Redis transport: a message still being worked
\* on is delivered once more.
Redeliver(w) ==
    /\ Fault(FALSE)
    /\ pc[w] # "idle"
    /\ Publish(held[w])
    /\ UNCHANGED <<content, docVars, workerVars, requestVars>>

\* The worker dies and its transaction rolls back; acks_late keeps the message.
CrashAcksEarly(w) ==
    /\ Fault(FALSE)
    /\ pc[w] # "idle"
    /\ Release(w)
    /\ UNCHANGED <<content, docVars, ready, requestVars>>
CrashWorker(w) ==
    /\ Fault(FALSE)
    /\ pc[w] # "idle"
    /\ Publish(held[w])
    /\ Release(w)
    /\ UNCHANGED <<content, docVars, requestVars>>

\* Only the pool process dies: Celery acknowledges the message all the same
\* (task_reject_on_worker_lost is not set).  A failing publication at the end of
\* a task, self.retry's or run_analysis.delay's, comes to the same.
KillTask(w) ==
    /\ Fault(TRUE)
    /\ pc[w] # "idle"
    /\ Release(w)
    /\ UNCHANGED <<content, docVars, ready, requestVars>>

\* The API process dies after its commit, or the broker refuses the message.
EnqueueFails(r) ==
    /\ Fault(TRUE)
    /\ request[r] = "marked"
    /\ request' = [request EXCEPT ![r] = "failed"]
    /\ UNCHANGED <<content, docVars, ready, workerVars, loaded>>

----------------------------------------------------------------------------
Handle(r) == LoadDocument(r) \/ MarkForProcessing(r) \/ EnqueueProcessing(r)

Parse(w) ==
    \/ \E m \in ProcessMessages : StartProcess(w, m)
    \/ RetryParse(w)
    \/ GiveUpParse(w)
    \/ RejectFile(w)
    \/ ParserRaises(w)
    \/ DeleteOldBlocks(w)
    \/ StoreOcrRequired(w)
    \/ StoreBlocks(w)
    \/ StoreAborts(w)
    \/ DispatchAnalysis(w)

Analysis(w) ==
    \/ StartAnalysis(w)
    \/ AnalysisFails(w)
    \/ \E partial, found \in BOOLEAN : AnalysisSucceeds(w, partial, found)
    \/ DeadlockAbortsAnalysis(w)
    \/ \E v \in Workers : DeadlockAbortsProcessing(w, v)
    \/ FinishSummary(w)

Work(w) == Parse(w) \/ Analysis(w) \/ \E m \in Messages : DropMessage(w, m)

Faulty ==
    \/ \E w \in Workers : Redeliver(w) \/ CrashWorker(w) \/ KillTask(w)
    \/ \E r \in Requests : EnqueueFails(r)

Next ==
    \/ \E r \in Requests : Handle(r)
    \/ DeleteDocument
    \/ \E w \in Workers : Work(w)
    \/ Faulty

Spec == Init /\ [][Next]_vars

\* A handler that has begun goes on, and so does a worker that has anything it
\* can do; nobody is obliged to post a request, to delete or to fail.
Fairness ==
    /\ \A r \in Requests : WF_vars(MarkForProcessing(r) \/ EnqueueProcessing(r))
    /\ \A w \in Workers : WF_vars(Work(w))

FairSpec == Spec /\ Fairness

----------------------------------------------------------------------------
(* Properties.                                                             *)

\* Every variable has its type; a worker holds a message exactly while it is
\* busy, and the stored blocks are those of a parse that has happened.
TypeOK ==
    /\ content \in Contents
    /\ state \in DocumentStates \cup {"DELETED"}
    /\ error \in ErrorCodes
    /\ parses \in Nat
    /\ blocks \in 0..parses
    /\ jobs \in Seq(Jobs)
    /\ ready \in [Messages -> Nat]
    /\ pc \in [Workers -> {"idle", "parse", "replace", "dispatch", "analyze", "summarise"}]
    /\ held \in [Workers -> Messages \cup {NoMessage}]
    /\ \A w \in Workers : pc[w] = "idle" <=> held[w] = NoMessage
    /\ seen \in [Workers -> 0..parses]
    /\ request \in [Requests -> {"new", "checked", "marked", "accepted", "rejected", "failed"}]
    /\ loaded \in [Requests -> ErrorCodes]
    /\ faults \in 0..MaxFaults
    /\ lost \in BOOLEAN

\* Somebody is still going to move the document on: a handler about to publish,
\* a message, or a task that cannot end without writing an outcome or handing over.
Owned ==
    \/ \E r \in Requests : request[r] = "marked"
    \/ \E m \in Messages : ready[m] > 0
    \/ \E w \in Workers : pc[w] \in {"parse", "dispatch", "analyze"}
    \/ \E w \in Workers : pc[w] = "replace" /\ seen[w] = blocks

\* A document in PARSING or ANALYZING, which start_processing answers with 409
\* from then on, is never abandoned: redelivered and interrupted tasks, retries,
\* unique violations and deadlocks all leave someone who will move it on, unless
\* a message was lost for good or the parser raised what nobody catches.
ActiveIsOwned ==
    ~lost /\ content # "invalid" /\ state \in ActiveStates => Owned

\* The row lock of the document covers its blocks too: while run_analysis waits
\* for the model, the blocks it read are still the stored ones, so the evidence
\* it then inserts refers to rows that exist.
AnalysisReadsCurrentBlocks ==
    \A w \in Workers : pc[w] = "analyze" => seen[w] = blocks

\* The error code shown with a settled document explains its state: a reviewable
\* or new document shows no leftover error, a failed one says why, although
\* stale writers of error_code overlap.
ErrorMatchesState ==
    /\ state \in {"UPLOADED", "REVIEW_REQUIRED"} => error = "none"
    /\ state = "PARTIAL" => error = "analysis_partial"
    /\ state = "OCR_REQUIRED" => error = "ocr_required"
    /\ state = "FAILED" => error \in ParseErrors \cup {"analysis_failed"}

\* A reviewable document was brought there by its latest job, whose requirements
\* have not lost their evidence to a later parse, and its blocks are stored.
ReviewableIsBacked ==
    state \in ReviewableStates =>
        /\ blocks # 0
        /\ jobs # <<>>
        /\ jobs[Len(jobs)].state = IF state = "PARTIAL" THEN "PARTIAL" ELSE "SUCCEEDED"
        /\ jobs[Len(jobs)].evidence # "uncited"

\* What still runs when the document is deleted brings back neither its row nor
\* any row that hung on it.
DeletionIsFinal ==
    [][state = "DELETED" => state' = "DELETED" /\ UNCHANGED <<blocks, jobs>>]_vars

\* A document being processed comes to rest, whatever is retried, redelivered or
\* aborted, unless a message is lost for good or the parser raises unexpectedly.
ProcessingSettles ==
    (state \in ActiveStates /\ content # "invalid") ~> (state \notin ActiveStates \/ lost)

Traceable == jobs = <<>> \/ jobs[Len(jobs)].evidence # "uncited"

Lifecycle == INSTANCE DocumentLifecycle
    WITH text <- blocks # 0, outcomes <- Len(jobs), traceable <- Traceable

\* Tasks, messages, locks and retries amount to the lifecycle of DocumentLifecycle:
\* nothing settles a document that was never started, a reviewable outcome is of
\* the text that is stored when it is recorded, state, error and job change in one
\* step, and lost evidence is never taken for evidence again.
ImplementsLifecycle == Lifecycle!Spec

----------------------------------------------------------------------------
(* Claims of the documentation that the code does not keep.                *)

\* docs/architecture.md: a parse error leads from PARSING to FAILED.
EveryParseSettles == state \in ActiveStates ~> state \notin ActiveStates

\* The implementation plan: a second active processing request is rejected.
ActiveDocumentIsNotRestarted ==
    [][\A r \in Requests :
           request[r] = "checked" /\ request'[r] = "marked" => state \notin ActiveStates]_vars

\* The design: exact locators and quotes for every extracted requirement.
RequirementsKeepEvidence == \A i \in DOMAIN jobs : jobs[i].evidence # "uncited"
===========================================================================
