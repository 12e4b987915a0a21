# RFP Lens in TLA+

Specifications, model-checking configurations and proofs for RFP Lens, the
service that takes Korean R&D announcements (PDF or HWPX), extracts
requirements with a language model, lets people review them and keeps a
compliance matrix and a summary. Everything is translated from the code under
`src/`; paths below are relative to `src/backend/app/` unless they say
otherwise.

| module | what it is |
| --- | --- |
| `DocumentLifecycle` | the abstract specification: what a client may rely on about one document |
| `DocumentPipeline` | the processing of one document: handlers, Celery tasks, row locks, broker, faults; implements `DocumentLifecycle` |
| `DocumentPipelineProofs` | seven theorems about it, for all values of the constants, the refinement among them |
| `RequirementReview` | review of requirements and the compliance matrix, against stale sessions and the pipeline |
| `RequirementReviewProofs` | ten theorems about it and about `ReviewCards`, for all values of the constants |
| `ReviewCards` | the review page composed with `RequirementReview`: cards, dialog and requests over copies that change |
| `SummaryCache` | the cached summary: scheduling, generation, storage through stale objects |
| `SummaryCacheProofs` | four theorems about it, for all values of the constants |
| `DocumentParsing` | the HWPX and PDF parsers: from a file to blocks, or to an error |
| `DocumentParsingProofs` | six theorems about it, for all files |
| `RequirementExtraction` | chunking, attempts, verification of quotes, merging, and what is kept |
| `RequirementExtractionProofs` | seven theorems about it, for all documents, limits and answers |
| `FileStorage` | rows and files under upload, document deletion and project deletion |
| `FileStorageProofs` | five theorems about it, for all values of the constants |
| `AnalysisSettings` | the settings row: creation, concurrent saves, the three merge rules |
| `AnalysisSettingsProofs` | five theorems about it, for all values of the constants |
| `BrowserSession` | accounts, tokens and the session of a tab, with late and lost answers |
| `BrowserSessionProofs` | four theorems about it, for all values of the constants |
| `MC...` | the instance of each of these for TLC |

## 1. The system

### Components

**Document pipeline** (`documents/service.py`, `documents/router.py`,
`documents/tasks.py`, `analysis/tasks.py`, `core/celery_app.py`). State: the row
of `documents` (state, error code), its `document_blocks`, its `analysis_jobs`
with requirements and evidence, and the messages in Redis. Operations: upload,
`POST .../process`, `DELETE`, the tasks `documents.process_document` and
`analysis.run_analysis`. The API commits PARSING and then publishes a message;
the first task locks the row only to write PARSING again, parses outside of any
lock, replaces the blocks, commits ANALYZING and publishes the second; the
second keeps the row locked while it waits for the model. Hard: overlapping
requests, tasks run twice (`acks_late` and the visibility timeout), writes
through ORM objects loaded long before, commit-then-publish, a lock order that
can deadlock, deletion in the middle, retries. Correct when: an active document
always has somebody to move it on; what is reviewable was produced by a job and
still has its blocks and evidence; the error code fits the state; a deleted
document stays deleted.

**Requirement review and compliance matrix** (`compliance/`). State:
`requirements.text`, `.review_state`, `.updated_at`, `compliance_items`, and the
copies that browser sessions hold. Operations: `PATCH requirements/{id}`, `PATCH
compliance/{id}`, both under the row lock and with `updated_at` as optimistic
token. Hard: sessions with copies of different age, sequences of decisions, the
pipeline deleting evidence and documents meanwhile. Correct when: the matrix
follows the review, nothing unseen is overwritten, nothing unverified gets in
without consent.

**Overview summary** (`overview/`, and the tail of `run_analysis`). State: one
row of `analysis_summaries` for each project and scope (state, source
fingerprint, highlights and the fingerprint they were made for). Operations:
`GET analysis-overview`, which schedules a generation when the row is missing or
of another fingerprint; `overview.generate_summary`. Hard: the requirements
change at any time, the late result of an older generation, two handlers
creating the row, an ORM object that a later `SELECT ... FOR UPDATE` does not
refresh. Correct when: what is pending or running has somebody behind it, a
result belongs to the fingerprint it is labelled with, and a stale one is
replaced.

**Parsers** (`parsing/`). A file becomes a sequence of blocks with headings and
locators. State: that of the loops only. Hard: elements that contain each other,
indices that count what yields no block, a heading carried on, two sections of one
name, the OCR threshold, and exceptions that the pipeline does not catch. Correct
when: each text is in exactly one block, a locator finds it, and what is raised is
what the pipeline expects.

**Requirement extraction** (`analysis/service.py`, `chunking.py`,
`validator.py`, `provider.py`, the three providers). Blocks to overlapping
chunks, attempts for each chunk, verification of quotes, merging of duplicates.
Hard: target, hard maximum and overlap meet; some chunks fail; overlapping chunks
find the same source. Correct when: every block is in exactly one chunk besides
overlap, no chunk exceeds the hard maximum, a verified quote is in its block,
merging loses no evidence, and the outcome says truly what the model has seen.

**Projects and file storage** (`projects/`, `documents/storage.py`,
`documents/service.py`). State: rows, files, temporary files and directories. Hard:
a file step and a row step are never atomic, directories are removed while others
are made, each step may fail. Correct when: a document that was accepted has its file,
and no file stays without a row for ever.

**Analysis settings** (`settings/`). State: one row that overrides the
environment. Hard: creation by two first requests, concurrent saves, three rules
that merge the row with a request and the environment, other saves between the test of
a connection and its save. Correct when: what is stored starts an analysis, a save
leaves in force what was tested before it, and saves of different fields do not undo
each other.

**Accounts and browser session** (`auth/`, `src/frontend/src/features/auth/`,
`src/frontend/src/app/`). State: accounts; in a tab the token, the header of its
requests, the user shown and whether the page is loading. Hard: React's effects
run after renders, answers come late, in any order or not at all, tokens expire.
Correct when: the header follows the token, the loading page ends, and a tab with a
token shows its user or gives the token up.

**Export**, **schema and migrations**: see section 7.

### How they interact

The browser calls the API; API and workers share PostgreSQL (READ COMMITTED) and
Redis. `process_document` calls `run_analysis` by message; its deletion of
blocks cascades into the evidence of the review component; `run_analysis` adds
requirements and, in its tail, schedules the summary; a review changes the
fingerprint of the summary, which the next read of the page notices. Every
session is created with `autoflush=False, expire_on_commit=False`
(`core/db.py`), so objects keep the values they were loaded with, and a flush
writes only the columns whose value differs from the loaded one. Much of what
the modules say rests on that.

## 2. The models

### DocumentPipeline

One document; documents share no row that this component writes. An action is
one database transaction or one step between transactions:

| action | code |
| --- | --- |
| `LoadDocument`, `MarkForProcessing`, `EnqueueProcessing` | `get_owned_document` and the check on that copy; the commit of `mark_document_for_processing`; `process_document.delay` |
| `DeleteDocument` | `delete_owned_document`, with the cascade |
| `StartProcess` | `process_document` to its first commit |
| `RetryParse`, `GiveUpParse`, `RejectFile`, `ParserRaises` | the ways parsing ends badly |
| `DeleteOldBlocks`, `StoreOcrRequired`, `StoreBlocks`, `StoreAborts`, `DispatchAnalysis` | the second transaction in two steps, its failure, and the message after it |
| `StartAnalysis`, `AnalysisFails`, `AnalysisSucceeds`, `FinishSummary` | `run_analysis` to its reads, its commits, its tail |
| `DeadlockAbortsAnalysis`, `DeadlockAbortsProcessing` | PostgreSQL aborting one of two transactions that wait for each other |
| `DropMessage` | either task for a document that is gone |
| `Redeliver`, `CrashWorker`, `KillTask`, `EnqueueFails` | faults |

`pc` is the position of a worker. A worker in `analyze` holds the document row
(`RowUnlocked`), one in `replace` holds the blocks it has deleted. `held` is the
unacknowledged message, `seen` the version of the blocks the transaction has
read or deleted, `loaded` the error code in the copy of a request. Blocks are a
version number because every parse replaces them as a whole, and a parse of one
file always produces the same block ids (so a second insertion over blocks that
the DELETE did not see violates `uq_document_blocks_block_id`). A job remembers
whether its requirements still have evidence. What the file contains is chosen
at upload and never changes.

`Lifecycle` is the refinement mapping to `DocumentLifecycle`: its `text` says
whether blocks are stored, `outcomes` counts the jobs that are finished, and `traceable`
whether the last of them still has its evidence. Steps of workers and messages map to
stutters, so that the abstract specification says what any interleaving of tasks,
retries and faults may do to what a client sees: text is replaced only together with
the state that announces it, an analysis is recorded together with its outcome and
against stored text, and a document that is gone stays so.

The summary tail of `run_analysis` is one step here (`FinishSummary`) and spelled
out in `SummaryCache`.

### RequirementReview

`row` and `item` are the tables, `card` and `draft` what each session has on its
screen. Tokens come from a counter: `updated_at` is the wall clock in
microseconds, and two updates of one row within a microsecond are not
considered. `PatchRequirement` is the whole handler: freshness, the changed text
that overrides the requested state, consent, the written columns, the matrix
row. Requests that are answered 404 or 409 are no steps. `Extract`,
`ReplaceBlocks` and `DeleteDocument` are the pipeline's effects on these tables.
`quoted` and `consented` are history variables. The four fields of a matrix row
are one note, since the handler treats them alike.

### SummaryCache

`source` stands for the requirements in scope and for their fingerprint at once:
the fingerprint covers id, `updated_at` and review state of each, so equal
fingerprints mean equal texts. It may return to an earlier value (confirm a
second requirement, reject it again). `copy` is the ORM object each handler and
task holds; `Flush(loaded, new)` is the flush: the columns in which `new` differs
from `loaded` go over the row as it is now. The project lock of a handler spans
`LockAndLoad`/`LockProject` to the commit of `EnsureSummaryCache` or the end of
the request. A task locks the summary row for its first transaction only; in its
last it compares the fingerprint of the object it already has. The model may
answer differently each time (`Takes`).

### ReviewCards

`ReviewCards` extends `RequirementReview` by `page`, what the card of a requirement
holds in a browser besides the copy in the query cache: the text being edited,
whether the copy is unverified, the request that waits for consent, and the one
under way.

| action | code (`src/frontend/src/features/requirements/`) |
| --- | --- |
| `Mount`, `Refetch` | `useState(requirement.text)` when the card appears; every later fetch changes the copy and not the text |
| `ClickEdit`, `Type`, `CancelEdit`, `SaveEdit` | the edit form and `saveEdit` |
| `Decide`, `Consent` | the buttons; the dialog for unverified evidence |
| `Accepted`, `NotAccepted` | `update_requirement` with the token that was sent; its refusal or loss |

`opened`, `own` and `from` are history: the text the edit began on, and the last text
the session itself got accepted.

### DocumentParsing

The recursion of `walk` over the tree of a section is a cursor in document order:
each element has the number of elements below it, `AfterElement` skips them (the
`return` of the code) and `AfterCursor` enters them. `OpenPackage` is the manifest and
the spine, `OpenSection` the reading of a section, `WalkTable`, `WalkParagraph` and
`WalkChildren` the three cases of `walk`, each with the block that the caller makes of
the item, `EndPackage` the result. What no `try` covers ends in `raised`: reading a
manifest or a section may come to "unreadable" (`Contents`: `ZipFile` and the XML parser
raise more than `BadZipFile` and `ParseError`), a reference in the manifest may be no URL
for `urlparse` (`ManifestRaises`), and `RaiseInSection` is a recursion deeper than
`MaxNesting` or a `block_id` of more than 160 characters, whose length `IdLength` adds up
from the stem's and the index's. For PDF files `TakeTable` and `TakeText` are a round
of the loop over the texts and tables of a page, for the topmost candidate that is not
`taken`; they also sum up `characters`, which `EndPage` compares to count the pages with
little text, and `EndPdf` is the OCR rule; `RaiseInPage` is an exception of PyMuPDF on one
of the `broken` pages, and `OpenPdf` one of those on opening that the code does not
expect. `Validate` is the validator of `ParseResult`, whose error
leads to `raised` too: that is what `ParserRaises` in `DocumentPipeline` does to a document.
A text is a name, and of its characters only this is kept: whether it is blank, looks
like a title, or is too long for one. The text of a block is the set of the texts
it is made of, by their place in the tree or their height on the page: their order, and
the repetition of the texts of a table in a table's cell, are left out. `BlockId` makes
the id of a block from its section or page, its letter and its index. That a section is a
tree is an assumption on `Packages` (`IsTree`). The limits of an archive are one Boolean, and the length of a name is a number of its own.

### RequirementExtraction

The loops of `chunk_blocks` (`TakeBlock`, `RefuseBlock`, `EndCut`; then `Overlap`,
`TrimContext`, `EndTrim` for the context), of `analyze` (`Extract`, `ExtractFails` for
each attempt) and of `merge_duplicates` (`Merge`, a round for the requirement at
`position`) are steps. A chunk is an interval of blocks; a block is where its text ends,
counted from the first block on, and the quotes that occur in it, so that the length of
several blocks is a difference of two ends. `Extract` has one disjunct for each provider:
OpenAI's answer is a batch or nothing, the local model's is looked for in content or
reasoning, the fake one (`FakeAnswers`) finds one requirement in each block that contains
a phrase. `merged` gives the evidence collected for each merge key; the order of the
merged requirements is left out. `Store` is the insertion by `run_analysis`, which drops
evidence that is not in the document and requirements without any other, and `Outcome`
the state of the job.

### FileStorage

Directories are modelled one by one, because `mkdir(parents=True, exist_ok=True)` is a
sequence of calls that fails when a concurrent pruning removes a parent:
`MakeDirectory`, or `MissParent`, `MakeParent` and the second try; then
`CreateTemporary`, `ReplaceTarget`, `AcceptFormat`, `CommitRow` for an upload;
`LoadDocument` or `LoadProject`, `CommitDeletion`, `UnlinkStored` for each key and
`FinishDeletion` for a deletion; `RemoveDirectory` for each level of the pruning. Each
step of an upload can fail, and what the code takes back then differs:

| failure | leaves |
| --- | --- |
| `FailDirectory` | what `mkdir` has made: the `try` of `save` begins after it |
| `FailTemporary`, `AbandonTemporary` | nothing: the parents are visited |
| `RefuseFormat`, `RefuseRow` | nothing: the file is deleted and the parents are visited |
| `RaiseInFormat` | the file: `archive.read("mimetype")` raises what neither the format check nor the handler catches |
| `LoseCommit` | the row without its file: the commit is made, its answer lost |
| `Die` | everything: nothing in the code cleans up after the death of a handler |

### AnalysisSettings

A request holds `copy`, the record object of its session, and `Flush` writes the columns
that it changes. NULL (`None`) and the empty string (`Empty`) are apart: the merge takes
both for not filled, but a column loaded as NULL and merged to "" has changed and is
written, over whatever it holds by then. That happens to the local model of a record that
nobody had filled. A session may `Test` before it saves, which remembers the row that the
test has found (`seen`); the row may have been committed by a read before. `Merged`,
`Effective` and `Resolve` are the three rules: what a save validates and stores, what the
connection test uses, and what a task resolves. `Insert` of the row that already exists
fails, as the code does not handle it.

### BrowserSession

`Render` and `RunEffect` are React's two steps after a change of the token; between
them the header is the old one. `calls` are requests under way, each with the token it
was sent with; `Answer` is the server's decision, `Deliver` the moment the tab hears of
it, as success, as a 401, or as a network error. `Submit`, `CheckEmail`, `InsertUser`,
`LoggedIn`, `WrongPassword` and `FormLost` are a form from its submission to its end,
with the query and the insert of a registration apart. `SetUser` is the end of the
effect of `AuthProvider`, its `finally` included, which stops the loading. `Reload`
starts the page again with the token of the sessionStorage.

## 3. Checks

| run | bounds | shows that these hold |
| --- | --- | --- |
| `pipeline` | 2 requests, 2 workers, 1 retry, 2 faults, all kinds of file | `TypeOK`, `ActiveIsOwned`, `AnalysisReadsCurrentBlocks`, `ErrorMatchesState`, `ReviewableIsBacked`, `DeletionIsFinal`, `ProcessingSettles`, `ImplementsLifecycle` |
| `review` | 2 sessions, 1 requirement, 2 texts, 6 tokens | `TypeOK`, `ItemFollowsReview`, `UnverifiedNeedsConsent`, `NoDecisionLost`, `NoNoteLost` |
| `summary` | 1 reader, 1 tail, 2 workers, 2 fingerprints, 2 edits, 1 fault | `TypeOK`, `UnsettledIsOwned`, `SucceededHasHighlights`, `CreatorIsAlone`, `SummarySettles` |
| `storage` | 2 projects, 2 uploads, 2 deletions, 1 death | `TypeOK`, `RowsHaveFiles`, `FilesAreAccounted`, `EmptyDirectoriesAreVisited`, `OrphansVanish` |
| `extraction` | up to 3 blocks of 3 lengths, 2 attempts, 2 requirements in all, 1 quote, 2 merge keys, every provider | `ChunksPartitionBlocks`, `ChunksFit`, `OutcomeIsHonest`, `MergeKeepsSources`, `VerifiedIsQuoted`, `AnalysisEnds` |
| `settings` | 3 sessions, 3 environments, requests of up to two fields and one of three | `SavedSettingsAreUsable`, `SavesLeaveWhatWasTested`, `UnnamedFieldsAreKept` |
| `session` | 2 forms, 1 remembered token, 1 email, 1 page request or reload | `HeaderFollowsToken`, `LoadingHasCause`, `LoadingEnds`, `SessionSettles` |
| `parsing` | sections of up to 5 elements of every shape, captions included, and a table in a table; 2 sections under every manifest and spine, malformed and unreadable ones; nesting up to and over a limit of 4, names at and over the length a `block_id` allows; PDF files of up to 3 pages, broken ones among them | `HeadingIsTheLast`, `EachTextInOneBlock`, `LocatorCountsElements`, `RaisedHasCause` |

The modules without `TypeOK` in their run define it all the same; it holds on the
same instance when it is added to the `INVARIANTS` of the configuration.

Four runs look for a violation of one sentence of the documentation each, and
find it:

| run | property | what happens |
| --- | --- | --- |
| `pipeline_abandoned` | `EveryParseSettles` | the parser raises what nobody catches: PARSING for ever |
| `pipeline_evidence` | `RequirementsKeepEvidence` | processing again deletes the evidence of earlier requirements |
| `summary_stale` | `StaleIsBeingRefreshed` | a late task marks the row SUCCEEDED for the wrong fingerprint: stale for ever |
| `review_draft` | `EditStartsFromStored` | a list fetched during an edit gives the save a fresh token: another session's edit is overwritten unseen |

Further configurations are kept for readers who want to see a trace of what the
passing properties had to leave out. TLC finds each of these violated:

| configuration | module | property | what happens |
| --- | --- | --- | --- |
| `MCPipelineDoubleStart.cfg` | `MCDocumentPipeline` | `ActiveDocumentIsNotRestarted` | two overlapping requests are both accepted |
| `MCMatrixIsOfConfirmed.cfg` | `MCRequirementReview` | `MatrixIsOfConfirmed` | a requirement set back to PENDING stays in the matrix |
| `MCQuotedUnverifiedNeedsConsent.cfg` | `MCRequirementReview` | `QuotedUnverifiedNeedsConsent` | unverified, evidence lost, confirmed without consent |
| `MCSummaryTorn.cfg` | `MCSummaryCache` | `ResultIsStoredWhole` | a late task writes its highlights but not their label |
| `MCStorageOrphan.cfg` | `MCFileStorage` | `DeletedProjectLeavesNoFiles` | a row committed after the keys were listed leaves its file |
| `MCExtractionQuoted.cfg` | `MCRequirementExtraction` | `QuotedIsVerified` | a quote from a block outside of the chunk stays unverified |
| `MCSettingsApply.cfg` | `MCAnalysisSettings` | `SavedProviderApplies` | a save of the provider it loaded does not undo a concurrent one |
| `MCSettingsUnusable.cfg` | `MCAnalysisSettings` | `StoredIsUsable` | two first saves meet, and "" goes over the local model that the other has stored |
| `MCSettingsFirstReads.cfg` | `MCAnalysisSettings` | `ReadsSucceed` | two first reads insert the row, and one fails |
| `MCSessionGhost.cfg` | `MCBrowserSession` | `UserHasToken` | a late `me()` shows its user after a 401 |
| `MCParsingTables.cfg` | `MCDocumentParsing` | `EachTableIsOneBlock` | a table inside a paragraph becomes part of the paragraph's block |

`MCReviewCards.cfg` with `MCReviewCards` checks the composition with 2 sessions and 3
tokens: `AskedBeforeRefused`, that no request of a card is refused for want of consent,
and `ReplacedIsShown`, that what an accepted request replaces is what its session's copy
shows. The second is the part of the optimistic lock that the page keeps; `review_draft`
is the part it gives away, since the text being edited is older than the copy.

Deadlock checking is off everywhere: requests, edits and faults are bounded, and
the system may rest.

**Why the bounds are enough.** Pipeline: every conflict in this code is between
two transactions over one document, so two workers and two requests reach it, and
a redelivered message is a third party; one retry distinguishes "retries left"
from "no retries left"; two faults allow a crash of a redelivered task. Review:
requirements meet only in the deletion of their document; six tokens allow
extraction, confirmation, rejection, confirmation again (a new matrix row with a
new id) and two patches of notes. Summary: two tasks and two fingerprints make
every overlap of an old generation and a new one, two edits let a fingerprint
come back. Storage: handlers meet in the directories of a project and of the owner, so
two uploads and two deletions reach every pair of makers and removers of one
directory, in one project or in two. Extraction: with target 4, hard maximum 5 and
overlap 2, blocks of 1, 4 and 6 characters make every relation of a block, its chunk and its
context to the limits (under, exactly at, one over, and a block that is too long
alone), and two requirements suffice for a pair to merge, from one chunk or two.
Settings: two concurrent saves and a third request, a provider with and without what
it needs; two first saves that meet cost the local provider its model only if a third
session still chooses it from a copy that has it, which the request of three fields
makes possible. Session: two forms and a remembered token make three tokens, which is one
more than an effect and a form can confuse. Parsing: five elements are a table with a
cell, a paragraph and a text beside another text, or a table in a paragraph; the
fixed trees add the table in a cell, one element nested deeper than the limit, and
eleven paragraphs, whose last index has a second digit: the longest
name that a `block_id` of one digit allows is too long for two, and the next one is too
long at once. The recursion limit is 4
instead of Python's, since the walk only compares it.

**Fairness.** `FairSpec` of the pipeline assumes that a handler that has begun
goes on and that a worker with anything to do does something: Celery workers
consume as long as they live, and a crash is an action of its own, followed by
redelivery. `WF` on the whole of a worker's actions means that the choice between
retry and success stays open; retries are bounded by the code itself. Nobody is
obliged to post, delete, edit or fail. `SummaryCache` and `FileStorage` assume the same of
their handlers and workers, and `RequirementExtraction` of its one loop. `BrowserSession`
assumes that React renders and runs its effects and that every request ends, if only
by a network error, which browsers guarantee; not that anybody clicks or submits.

**What the properties except.** `ProcessingSettles` and `ActiveIsOwned`
except lost messages (`lost`) and the uncaught exception. `UnsettledIsOwned` and
`SummarySettles` except lost messages, a task that returned as obsolete
(`abandoned`: the row then stays RUNNING, and if the requirements change back no
read schedules it again), and a refused publication in the tail of
`run_analysis`: the tail then selects the row again without the project lock, and
TLC finds interleavings in which its flush writes the fingerprint and not the
state. `RowsHaveFiles` is about uploads that were answered with success: a commit whose answer
is lost leaves a row and makes the handler take its file back. `FilesAreAccounted` and
`OrphansVanish` except the death of a handler, the deletion of the whole project, and
an exception of the format check that the handler does not catch (the upload is then at
"raised", and its file stays). `EmptyDirectoriesAreVisited` excepts the death of a
handler, and the owner's directory when an upload has just made it and could not make its
project's. `SavedSettingsAreUsable` excepts the local provider after two saves that both
started from the record nobody had filled (`FirstSavesMeet`), and
`SavesLeaveWhatWasTested` the fields in which others have overtaken the save: they
stored something else since the test, or since the copy was loaded while the save names
the value that it had loaded. `UnnamedFieldsAreKept` is about fields that the
session found filled: a default that a save stores does go over a concurrent value.

## 4. Proofs

`DocumentPipelineProofs` proves, for every number of requests, workers, retries
and faults:

| theorem | states |
| --- | --- |
| `TypeCorrect` | `Spec => []TypeOK` |
| `AnalysisReadsCurrent` | `Spec => []AnalysisReadsCurrentBlocks` |
| `ErrorsMatchStates` | `Spec => []ErrorMatchesState` |
| `ReviewablesAreBacked` | `Spec => []ReviewableIsBacked` |
| `ActiveDocumentsAreOwned` | `Spec => []ActiveIsOwned` |
| `DeletionsAreFinal` | `Spec => DeletionIsFinal` |
| `PipelineImplementsLifecycle` | `Spec => ImplementsLifecycle` |

Assumption: `ConstantsAssumption` (the retry and fault bounds are naturals, the
contents are among the known kinds), which TLC evaluates on every run.

Each proof has one step for each action. `TypeOK` holds more than types: a worker
holds a message exactly when it is busy, which redelivery and crashes rely on.
`AnalysisReadsCurrentBlocks` is inductive given `TypeOK` because whoever writes
`blocks` also writes the document row, which a worker in `analyze` has locked.
`ErrorMatchesState` needs a strengthening, that an active document has no error:
`StoreBlocks` goes to ANALYZING without writing the error, and the analysis that
follows leaves whatever it finds unless it writes one; `MarkForProcessing` writes
the error only if its copy had one. `ReviewableIsBacked` needs
`AnalysisReadsCurrentBlocks`: the evidence that a job inserts is that of the
stored blocks. `ActiveIsOwned` is proved by naming, for each action that takes an
owner away, the one that follows it; the case of two replacing tasks, one of which
must still see the current blocks, is why `Owned` looks at `seen`.
`PipelineImplementsLifecycle` maps each action to a step of `DocumentLifecycle` or to a
stutter. It needs that a busy worker has no UPLOADED document (`UploadedIsUntouched`),
that the row an analysis has locked exists (`LockedRowExists`), and
`AnalysisReadsCurrentBlocks`, which makes the outcome of an analysis one of stored text.

`RequirementReviewProofs` proves, for every number of sessions, documents,
requirements and texts, and every bound on the clock:

| theorem | states |
| --- | --- |
| `TypeCorrect` | `Spec => []TypeOK` |
| `MatrixFollowsReview` | `Spec => []ItemFollowsReview` |
| `UnverifiedIsConsented` | `Spec => []UnverifiedNeedsConsent` |
| `DecisionsAreSeen` | `Spec => NoDecisionLost` |
| `NotesAreSeen` | `Spec => NoNoteLost` |

Assumptions: `ConstantsAssumption` (the clock bound is a natural) and
`NoneAssumption` (the value for an absent row is not itself a row), both evaluated
by TLC. `ItemFollowsReview` and `UnverifiedNeedsConsent` are inductive given
`TypeOK`. The two action properties are not: they rest on `CardsAreSnapshots` and
`DraftsAreSnapshots`, which say that a copy with the token of the stored row has
its contents too. These are invariants because every writer of a row draws a new
token, and `TypeOK` says that no token anywhere is younger than the clock, so no
copy shows a new token yet. A request that passes the comparison of tokens hence
comes from a session that shows what it overwrites. A matrix row that was removed
and created again is told from the old one by its id, under which the handler
looks it up.

Of the composition `ReviewCards`, whose requests lie between a card and the handler, it
proves:

| theorem | states |
| --- | --- |
| `CardsInvariant` | `SpecCards => []CardsInv`, the inductive invariant |
| `RefusalsAreAsked` | `SpecCards => []AskedBeforeRefused` |
| `ReplacedWasShown` | `SpecCards => ReplacedIsShown` |
| `CardsKeepMatrix` | `SpecCards => []ItemFollowsReview` |
| `CardsAskForUnverified` | `SpecCards => []UnverifiedNeedsConsent` |

`Accepted` is not a `PatchRequirement` (the copy in the query cache stays as it is until
the next fetch), so these do not follow from the theorems above; `CardSteps` reduces every
other step of the page to one of `RequirementReview` or to one that touches no table. For
`AskedBeforeRefused`, `RequestsWereAsked` says that a card knows its requirement to be
unverified if it is, because evidence gets lost and never worse, and ids are not used
again (`RowsWereExtracted`). For `ReplacedIsShown`, `CopiesAreOlder` orders the tokens:
request, copy, row. A request with the token of the row is therefore one of a copy with
that token, and `CardsAreSnapshots`, proved again for these steps, gives its contents.

`SummaryCacheProofs` proves, for every number of readers, tails, workers,
fingerprints and answers, and every bound on edits and faults:

| theorem | states |
| --- | --- |
| `TypeCorrect` | `Spec => []TypeOK` |
| `CreatorsAreAlone` | `Spec => []CreatorIsAlone` |
| `SuccessesHaveHighlights` | `Spec => []SucceededHasHighlights` |
| `UnsettledAreOwned` | `Spec => []UnsettledIsOwned` |

Assumptions: `ConstantsAssumption` (readers, tails and workers are distinct, the
bounds are naturals) and `NoneAssumption`. Here not even the types are inductive
alone: a flush of an object over a row it was not loaded from would mix a row with
no row. `LocksInv` therefore carries, with `TypeOK`, that at most one handler is
between taking the project lock and its commit (`OneScheduler`), that an object
held is one of a row that exists and that every writer holds one
(`CopiesAreOfRows`), and `CreatorIsAlone`. `FlushType` says, column by column, what
a flush leaves. `SucceededHasHighlights` needs that no held object has highlights
where the row has none (`HighlightsKept`): highlights are replaced and never
dropped. `UnsettledIsOwned` needs that whoever stops owning the row settles it
(`WritersFit`: the object is PENDING or RUNNING as loaded, so that the flush does
write the new state) and that the fingerprint a scheduler has read is still stored
when it writes (`ReadersAreCurrent`). The refused tail breaks `ReadersAreCurrent`,
which is why `lost` covers it.

`FileStorageProofs` proves, for every number of projects, uploads, deletions and deaths:

| theorem | states |
| --- | --- |
| `TypeCorrect` | `Spec => []TypeOK` |
| `StorageInvariant` | `Spec => []StorageInv`, the inductive invariant |
| `RowsKeepTheirFiles` | `Spec => []RowsHaveFiles` |
| `NoFileIsForgotten` | `Spec => []FilesAreAccounted` |
| `NoDirectoryIsForgotten` | `Spec => []EmptyDirectoriesAreVisited` |

Assumptions: `StorageAssumption` (uploads, deletions and the owner's directory are told
apart, the number of deaths is a natural) and `NoneAssumption`. `RowsHaveFiles` needs
that nobody unlinks the file of a row: a deletion unlinks after its commit, by the keys
it has listed, so `UnlinkedHasNoRow` says that what is being unlinked has no row,
`KeysAreOfTarget` that the keys are those of the rows that the commit removes, and
`UploadsAreUnlisted` that an upload that has not committed is in nobody's list, and
has its file from `validate` on. The other two follow each handler from step to step:
whoever stops accounting for a file or a directory passes it on, or is at one of the
labels (`raised`, `unmade`) that the properties name.

`AnalysisSettingsProofs` proves, for every number of sessions and any set of requests,
environments and values:

| theorem | states |
| --- | --- |
| `TypeCorrect` | `Spec => []TypeOK` |
| `SettingsInvariant` | `Spec => []SettingsInv`, the inductive invariant |
| `SavedAreUsable` | `Spec => []SavedSettingsAreUsable` |
| `TestedIsSaved` | `Spec => SavesLeaveWhatWasTested` |
| `UnnamedAreKept` | `Spec => UnnamedFieldsAreKept` |

Assumption: `SettingsAssumption` (NULL, the empty string and the values differ, requests
are never the empty string, the environment has its defaults). A save validates the merge
of its request with the copy of its session, but what is stored afterwards mixes the
columns it writes with those others have written since. The mixture is usable because
a field that the copy had filled is still filled in the row, if with another value
(`FilledStaysFilled`): a save writes the empty string only over a local model that its
copy did not have, so that another session has one to lose only if somebody else saved
from the blank record too (`FirstSavesMeet`). That the first save was one of a blank
record, and that who has tested a saved record has loaded a saved one, is
`SavesComeInOrder`; that a record is blank, or has been saved and has no NULL but for the
key, is `RecordsAreWhole`. `TestedIsSaved` compares what
`Flush` leaves, resolved with the environment, with `Effective` of the row that the test
found, field by field; a field that nobody has overtaken is the request's, the copy's or
the environment's in both.

`BrowserSessionProofs` proves, for every number of forms, emails and uses:

| theorem | states |
| --- | --- |
| `TypeCorrect` | `Spec => []TypeOK` |
| `SessionInvariant` | `Spec => []SessionInv`, the inductive invariant |
| `HeaderIsOfToken` | `Spec => []HeaderFollowsToken` |
| `LoadingIsCaused` | `Spec => []LoadingHasCause` |

Assumption: `SessionAssumption`. The types are not inductive alone: the email that a
confirmed request brings is one because the server confirms none without a token
(`ConfirmedHaveToken`). `LoadingHasCause` needs `LoadingIsPursued`, that on the
loading page an effect with a token is due or its request is under way.

`RequirementExtractionProofs` proves, for every document, all limits with
`HardMaxChars >= TargetChars`, any number of attempts and any answers of the model:

| theorem | states |
| --- | --- |
| `TypeCorrect` | `Spec => []TypeOK` |
| `ExtractionInvariant` | `Spec => []ExtractionInv`, the inductive invariant |
| `ChunksPartition` | `Spec => []ChunksPartitionBlocks` |
| `SentChunksFit` | `Spec => []ChunksFit` |
| `SourcesAreKept` | `Spec => []MergeKeepsSources` |
| `VerifiedAreQuoted` | `Spec => []VerifiedIsQuoted` |
| `OutcomeHonest` | `Spec => []OutcomeIsHonest` |

Assumption: `ExtractionAssumption`. `ExtractionInv` has a part for each loop. `CutInv`
and `ChunksAreOrdered` say where cutting is and that every block before it is in one
chunk; `ChunksAreSized` that a chunk has at most the target or a single block, and could
not have taken in another. `ContextIsTrimmed` says that all the context that was
cut did not fit, from which `ChunksFit` follows: lengths grow with the interval, so the
first start that fits is the least. `ChunksAreCounted` gives the outcome: the
chunks that are not answered are as many as `failed`. `AnswersAreSound` and
`MergedSoFar`, that what is merged is what was cited up to `position`, give the last two.

`DocumentParsingProofs` proves, for all HWPX packages whose sections are trees and all
PDF files:

| theorem | states |
| --- | --- |
| `TypeCorrect` | `Spec => []TypeOK` |
| `ParsingInvariant` | `Spec => []ParsingInv`, the inductive invariant |
| `HeadingsAreLast` | `Spec => []HeadingIsTheLast` |
| `TextsAreInOneBlock` | `Spec => []EachTextInOneBlock` |
| `LocatorsCount` | `Spec => []LocatorCountsElements` |
| `RaisesAreCaused` | `Spec => []RaisedHasCause` |

Assumptions: `PackagesAssumption`, `PdfsAssumption` and `LimitsAssumption`. The
invariant of the walk is `CursorInv`: its cursor is never inside a paragraph or a table,
and its two indices are the numbers of paragraphs and tables before the cursor that are
in no other. The lemmas about trees behind it say what lies below what. Hence each block
is made of the element that its locator counts (`BlocksAreLocated`), its texts are before
the cursor (`TextsArePast`) and in no other block (`TextsAreApart`), and all that
was passed and should be read was read (`PassedIsRead`). `NamesDiffer`, by the counters
of the current section or page, says that two blocks share an id only when their
sections share a stem; with `PdfInv` (as long as there is no block, all pages were
pages of little text) it gives that a result is refused for no other reason. The other
causes of `RaisedHasCause` are at hand where the parser raises, but that of an id too
long: `CursorInv` bounds its index by the number of elements. The proof handles all the steps that
add a block as two kinds, `ElementStep` and `PieceStep`.

The assumptions on constants are evaluated by TLC on the runs of their modules, and
the inductive invariants hold on the instances of these runs.

**Only model-checked.** All the safety invariants and action properties of the passing
runs are theorems. What TLC alone checks is liveness under fairness
(`ProcessingSettles`, `SummarySettles`, `OrphansVanish`, `AnalysisEnds`, `LoadingEnds`,
`SessionSettles`), which is out of the prover's reach. What folds and recursive functions
compute for every input is too: the models that are proved about sum up, count and merge
in steps of their own, where the prover has only one step to follow. The four violations
of section 3, and those of the further configurations, are traces of small instances,
which is all that a refutation needs.

## 5. Plan

The modules of section 2 are written, checked and proved about. What remains:

1. An abstract specification of what a deletion promises for rows and files together, to
   be implemented by `FileStorage` as `DocumentLifecycle` is by `DocumentPipeline`.
2. An abstract specification of the cached summary, in which a result is current or
   stale, implemented by `SummaryCache` as long as nothing is lost.
3. The same for `RequirementExtraction`: a job that keeps, in one step, what a set of
   answered chunks cites.

## 6. Running

In this directory: `tlc -config X.cfg M` for the pairs in `PROJECT.json`, `tlapm
M.tla` for the modules of proofs. `PROJECT.json` also maps every
definition to the lines it translates and names, for each property of a passing
run, a mutation of the code that breaks it; the mutated operators stand before
the ones they replace (`CanStoreUnlocked` before `CanStore`) and are used nowhere
else.

## 7. Not modelled, and why

- Archive limits (one Boolean of a package), and the characters of texts and names, of
  which only the length is kept, in `DocumentParsing`: sums and regular expressions over
  bytes, which unit tests reach. PyMuPDF's layout analysis is
  external: a page is the texts and tables it reports. The caption of a table, which is
  in no cell, is read by the model's parser as by the code: not at all.
- Sums of usage figures, prompts and schemas of the model calls: data that no decision
  depends on. The summary's providers are answers or failures of `SummaryCache`.
- Statistics of the overview, the choice of its scope and the validation of
  highlights: functions of one query result. Deletion of a whole project, for
  `SummaryCache`: the row and its messages go, and every later task returns at once.
- Creating, renaming and listing projects: single statements.
- The network call of the settings' connection test: it changes no state.
- Passwords and the signature of tokens: a login is right or wrong, a token expired or
  not. Two logins of one account within a second get the same token; left out.
- Export of the matrix: formatting of rows that `RequirementReview` describes.
- Schema migrations: generated code. The constraints and cascades that matter are in
  the modules.
- Evaluation scripts (`src/backend/evals/`): they are not part of the running system.
- The pages for projects, uploads, the matrix and the overview, and their query
  caches. The matrix page resets all its drafts after every fetch
  (`src/frontend/src/features/compliance/ComplianceTable.tsx`, line 19), which is listed as
  a hazard without a property.
- Two handlers of one process share nothing but the database, so API processes
  and threads are not distinguished.
