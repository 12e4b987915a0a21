---------------------- MODULE DocumentPipelineProofs ----------------------
(***************************************************************************)
(* Safety of the document pipeline for any number of requests, workers,    *)
(* retries and faults.                                                     *)
(***************************************************************************)
EXTENDS DocumentPipeline, SequenceTheorems, TLAPS

\* Jobs that lose their evidence are still jobs.
LEMMA LoseEvidenceType ==
  ASSUME NEW history \in Seq(Jobs)
  PROVE  LoseEvidence(history) \in Seq(Jobs) /\ Len(LoseEvidence(history)) = Len(history)
<1>1. ASSUME NEW job \in Jobs, job.evidence = "cited"
      PROVE  [job EXCEPT !.evidence = "uncited"] \in Jobs
  BY <1>1 DEF Jobs
<1>2. \A i \in DOMAIN history : history[i] \in Jobs
  OBVIOUS
<1>3. /\ DOMAIN LoseEvidence(history) = 1..Len(history)
      /\ \A i \in 1..Len(history) : LoseEvidence(history)[i] \in Jobs
  BY <1>1, <1>2 DEF LoseEvidence
<1>4. LoseEvidence(history) \in [1..Len(history) -> Jobs]
  BY <1>3 DEF LoseEvidence
<1>5. QED
  BY <1>4

\* A list of jobs with a new job at its end is a list of jobs.
LEMMA JobHistoryTypes ==
  /\ <<>> \in Seq(Jobs)
  /\ \A history \in Seq(Jobs), job \in Jobs :
        /\ Append(history, job) \in Seq(Jobs)
        /\ Len(Append(history, job)) = Len(history) + 1
        /\ Append(history, job)[Len(history) + 1] = job
OBVIOUS

\* The messages that handlers and tasks publish are messages.
LEMMA MessageTypes ==
  /\ Analyze \in Messages
  /\ ProcessMessages \subseteq Messages
  /\ NoMessage \notin Messages
  /\ Process(0) \in Messages
  /\ \A m \in Messages : HasRetriesLeft(m) => Process(m.retries + 1) \in Messages
<1>1. \A m \in ProcessMessages : HasRetriesLeft(m) => Process(m.retries + 1) \in ProcessMessages
  <2> SUFFICES ASSUME NEW n \in 0..MaxRetries, HasRetriesLeft(Process(n))
               PROVE  Process(Process(n).retries + 1) \in ProcessMessages
    BY DEF ProcessMessages
  <2>1. Process(n).retries = n
    BY DEF Process
  <2>2. n + 1 \in 0..MaxRetries
    BY <2>1, ConstantsAssumption DEF HasRetriesLeft
  <2>3. QED
    BY <2>1, <2>2 DEF ProcessMessages
<1>2. NoMessage \notin Messages
  BY DEF Analyze, Messages, ProcessMessages, NoMessage, Process
<1>3. Process(0) \in ProcessMessages
  BY ConstantsAssumption DEF ProcessMessages
<1>4. HasRetriesLeft(Analyze) => Process(Analyze.retries + 1) \in ProcessMessages
  BY ConstantsAssumption DEF HasRetriesLeft, Analyze, ProcessMessages
<1>5. QED
  BY <1>1, <1>2, <1>3, <1>4 DEF Messages

\* The variables keep their types; a worker holds a message exactly while busy.
THEOREM TypeCorrect == Spec => []TypeOK
<1> USE ConstantsAssumption DEF TypeOK
<1>1. Init => TypeOK
  <2> SUFFICES ASSUME Init PROVE TypeOK
    OBVIOUS
  <2>1. jobs \in Seq(Jobs)
    BY JobHistoryTypes DEF Init
  <2>2. content \in Contents /\ state \in DocumentStates /\ error \in ErrorCodes
    BY DEF Init, DocumentStates, ErrorCodes
  <2>3. /\ ready \in [Messages -> Nat]
        /\ held \in [Workers -> Messages \cup {NoMessage}]
        /\ \A w \in Workers : pc[w] = "idle" <=> held[w] = NoMessage
    BY DEF Init
  <2>4. parses \in Nat /\ blocks \in 0..parses /\ seen \in [Workers -> 0..parses]
    BY DEF Init
  <2>5. /\ pc \in [Workers -> {"idle", "parse", "replace", "dispatch", "analyze", "summarise"}]
        /\ request \in [Requests -> {"new", "checked", "marked", "accepted", "rejected", "failed"}]
        /\ loaded \in [Requests -> ErrorCodes]
    BY DEF Init, ErrorCodes
  <2>6. faults \in 0..MaxFaults
    BY DEF Init
  <2>7. lost \in BOOLEAN
    BY DEF Init
  <2>8. QED
    BY <2>1, <2>2, <2>3, <2>4, <2>5, <2>6, <2>7
<1>2. TypeOK /\ [Next]_vars => TypeOK'
  <2> SUFFICES ASSUME TypeOK, [Next]_vars PROVE TypeOK'
    OBVIOUS
  <2>1. ASSUME NEW r \in Requests, LoadDocument(r)
       PROVE  TypeOK'
    BY <2>1, MessageTypes DEF DocumentStates, ActiveStates, ReviewableStates,
      ErrorCodes, ParseErrors, LoadDocument, docVars, workerVars, faultVars
  <2>2. ASSUME NEW r \in Requests, MarkForProcessing(r)
       PROVE  TypeOK'
    BY <2>2, MessageTypes DEF DocumentStates, ActiveStates, ReviewableStates,
      ErrorCodes, ParseErrors, MarkForProcessing, docVars, workerVars, faultVars
  <2>3. ASSUME NEW r \in Requests, EnqueueProcessing(r)
       PROVE  TypeOK'
    BY <2>3, MessageTypes DEF DocumentStates, ActiveStates, ReviewableStates,
      ErrorCodes, ParseErrors, EnqueueProcessing, Publish, docVars, workerVars,
      faultVars
  <2>4. ASSUME DeleteDocument
       PROVE  TypeOK'
    <3>1. jobs' \in Seq(Jobs)
      BY <2>4, JobHistoryTypes DEF DeleteDocument
    <3>2. QED
      BY <2>4, <3>1 DEF DeleteDocument, ErrorCodes, workerVars, requestVars, faultVars
  <2>5. ASSUME NEW w \in Workers, NEW m \in ProcessMessages, StartProcess(w, m)
       PROVE  TypeOK'
    BY <2>5, MessageTypes DEF DocumentStates, ActiveStates, ReviewableStates,
      ErrorCodes, ParseErrors, StartProcess, Begin, Take, requestVars, faultVars
  <2>6. ASSUME NEW w \in Workers, RetryParse(w)
       PROVE  TypeOK'
    BY <2>6, MessageTypes DEF DocumentStates, ActiveStates, ReviewableStates,
      ErrorCodes, ParseErrors, RetryParse, Release, Publish, docVars, requestVars,
      faultVars
  <2>7. ASSUME NEW w \in Workers, GiveUpParse(w)
       PROVE  TypeOK'
    BY <2>7, MessageTypes DEF DocumentStates, ActiveStates, ReviewableStates,
      ErrorCodes, ParseErrors, GiveUpParse, Release, WriteOutcome, requestVars,
      faultVars
  <2>8. ASSUME NEW w \in Workers, RejectFile(w)
       PROVE  TypeOK'
    BY <2>8, MessageTypes DEF DocumentStates, ActiveStates, ReviewableStates,
      ErrorCodes, ParseErrors, RejectFile, Release, WriteOutcome, requestVars, faultVars
  <2>9. ASSUME NEW w \in Workers, ParserRaises(w)
       PROVE  TypeOK'
    BY <2>9, MessageTypes DEF DocumentStates, ActiveStates, ReviewableStates,
      ErrorCodes, ParseErrors, ParserRaises, Release, docVars, requestVars, faultVars
  <2>10. ASSUME NEW w \in Workers, DeleteOldBlocks(w)
       PROVE  TypeOK'
    BY <2>10, MessageTypes DEF DocumentStates, ActiveStates, ReviewableStates,
      ErrorCodes, ParseErrors, DeleteOldBlocks, Goto, docVars, requestVars, faultVars
  <2>11. ASSUME NEW w \in Workers, StoreOcrRequired(w)
       PROVE  TypeOK'
    BY <2>11, MessageTypes, LoseEvidenceType DEF DocumentStates, ActiveStates,
      ReviewableStates, ErrorCodes, ParseErrors, StoreOcrRequired, Release, requestVars,
      faultVars
  <2>12. ASSUME NEW w \in Workers, StoreBlocks(w)
       PROVE  TypeOK'
    BY <2>12, MessageTypes, LoseEvidenceType DEF DocumentStates, ActiveStates,
      ReviewableStates, ErrorCodes, ParseErrors, StoreBlocks, Goto, requestVars,
      faultVars
  <2>13. ASSUME NEW w \in Workers, StoreAborts(w)
       PROVE  TypeOK'
    BY <2>13, MessageTypes DEF DocumentStates, ActiveStates, ReviewableStates,
      ErrorCodes, ParseErrors, StoreAborts, Release, docVars, requestVars, faultVars
  <2>14. ASSUME NEW w \in Workers, DispatchAnalysis(w)
       PROVE  TypeOK'
    BY <2>14, MessageTypes DEF DocumentStates, ActiveStates, ReviewableStates,
      ErrorCodes, ParseErrors, DispatchAnalysis, Release, Publish, docVars, requestVars,
      faultVars
  <2>15. ASSUME NEW w \in Workers, StartAnalysis(w)
       PROVE  TypeOK'
    BY <2>15, MessageTypes DEF DocumentStates, ActiveStates, ReviewableStates,
      ErrorCodes, ParseErrors, StartAnalysis, Begin, Take, docVars, requestVars,
      faultVars
  <2>16. ASSUME NEW w \in Workers, AnalysisFails(w)
       PROVE  TypeOK'
    BY <2>16, MessageTypes, JobHistoryTypes DEF DocumentStates, ActiveStates,
      ReviewableStates, ErrorCodes, ParseErrors, AnalysisFails, Jobs, FailedAnalysis,
      Release, requestVars, faultVars
  <2>17. ASSUME NEW w \in Workers, NEW partial \in BOOLEAN, NEW found \in BOOLEAN, AnalysisSucceeds(w, partial, found)
       PROVE  TypeOK'
    BY <2>17, MessageTypes, JobHistoryTypes DEF DocumentStates, ActiveStates,
      ReviewableStates, ErrorCodes, ParseErrors, AnalysisSucceeds, Jobs, ErrorOfReview,
      Goto, requestVars, faultVars
  <2>18. ASSUME NEW w \in Workers, DeadlockAbortsAnalysis(w)
       PROVE  TypeOK'
    BY <2>18, MessageTypes DEF DocumentStates, ActiveStates, ReviewableStates,
      ErrorCodes, ParseErrors, DeadlockAbortsAnalysis, Release, docVars, requestVars,
      faultVars
  <2>19. ASSUME NEW w \in Workers, NEW v \in Workers, DeadlockAbortsProcessing(w, v)
       PROVE  TypeOK'
    BY <2>19, MessageTypes DEF DocumentStates, ActiveStates, ReviewableStates,
      ErrorCodes, ParseErrors, DeadlockAbortsProcessing, Release, docVars, requestVars,
      faultVars
  <2>20. ASSUME NEW w \in Workers, FinishSummary(w)
       PROVE  TypeOK'
    BY <2>20, MessageTypes DEF DocumentStates, ActiveStates, ReviewableStates,
      ErrorCodes, ParseErrors, FinishSummary, Release, docVars, requestVars, faultVars
  <2>21. ASSUME NEW w \in Workers, NEW m \in Messages, DropMessage(w, m)
       PROVE  TypeOK'
    BY <2>21, MessageTypes DEF DocumentStates, ActiveStates, ReviewableStates,
      ErrorCodes, ParseErrors, DropMessage, Take, docVars, workerVars, requestVars,
      faultVars
  <2>22. ASSUME NEW w \in Workers, Redeliver(w)
       PROVE  TypeOK'
    BY <2>22, MessageTypes DEF DocumentStates, ActiveStates, ReviewableStates,
      ErrorCodes, ParseErrors, Redeliver, Publish, Fault, docVars, workerVars,
      requestVars
  <2>23. ASSUME NEW w \in Workers, CrashWorker(w)
       PROVE  TypeOK'
    BY <2>23, MessageTypes DEF DocumentStates, ActiveStates, ReviewableStates,
      ErrorCodes, ParseErrors, CrashWorker, Release, Publish, Fault, docVars,
      requestVars
  <2>24. ASSUME NEW w \in Workers, KillTask(w)
       PROVE  TypeOK'
    BY <2>24, MessageTypes DEF DocumentStates, ActiveStates, ReviewableStates,
      ErrorCodes, ParseErrors, KillTask, Release, Fault, docVars, requestVars
  <2>25. ASSUME NEW r \in Requests, EnqueueFails(r)
       PROVE  TypeOK'
    BY <2>25, MessageTypes DEF DocumentStates, ActiveStates, ReviewableStates,
      ErrorCodes, ParseErrors, EnqueueFails, Fault, docVars, workerVars
  <2>26. CASE UNCHANGED vars
    BY <2>26 DEF DocumentStates, ActiveStates, ReviewableStates, ErrorCodes,
      ParseErrors, vars, docVars, workerVars, requestVars, faultVars
  <2>27. QED
    BY <2>1, <2>2, <2>3, <2>4, <2>5, <2>6, <2>7, <2>8, <2>9, <2>10, <2>11, <2>12, <2>13,
      <2>14, <2>15, <2>16, <2>17, <2>18, <2>19, <2>20, <2>21, <2>22, <2>23, <2>24,
      <2>25, <2>26 DEF Next, Handle, Work, Parse, Analysis, Faulty
<1>3. QED
  BY <1>1, <1>2, PTL DEF Spec

\* The document's row lock covers its blocks: whoever replaces or deletes them
\* updates or deletes the document too, and waits for run_analysis to commit.
THEOREM AnalysisReadsCurrent == Spec => []AnalysisReadsCurrentBlocks
<1>1. Init => AnalysisReadsCurrentBlocks
  BY DEF Init, AnalysisReadsCurrentBlocks
<1>2. TypeOK /\ TypeOK' /\ AnalysisReadsCurrentBlocks /\ [Next]_vars => AnalysisReadsCurrentBlocks'
  <2> SUFFICES ASSUME TypeOK, TypeOK', AnalysisReadsCurrentBlocks, [Next]_vars PROVE AnalysisReadsCurrentBlocks'
    OBVIOUS
  <2>1. ASSUME NEW r \in Requests, LoadDocument(r)
       PROVE  AnalysisReadsCurrentBlocks'
    BY <2>1 DEF AnalysisReadsCurrentBlocks, TypeOK, LoadDocument, docVars, workerVars,
      faultVars
  <2>2. ASSUME NEW r \in Requests, MarkForProcessing(r)
       PROVE  AnalysisReadsCurrentBlocks'
    BY <2>2 DEF AnalysisReadsCurrentBlocks, TypeOK, MarkForProcessing, docVars,
      workerVars, faultVars
  <2>3. ASSUME NEW r \in Requests, EnqueueProcessing(r)
       PROVE  AnalysisReadsCurrentBlocks'
    BY <2>3 DEF AnalysisReadsCurrentBlocks, TypeOK, EnqueueProcessing, Publish, docVars,
      workerVars, faultVars
  <2>4. ASSUME DeleteDocument
       PROVE  AnalysisReadsCurrentBlocks'
    BY <2>4 DEF AnalysisReadsCurrentBlocks, TypeOK, DeleteDocument, RowUnlocked,
      workerVars, requestVars, faultVars
  <2>5. ASSUME NEW w \in Workers, NEW m \in ProcessMessages, StartProcess(w, m)
       PROVE  AnalysisReadsCurrentBlocks'
    BY <2>5 DEF AnalysisReadsCurrentBlocks, TypeOK, StartProcess, Begin, Take,
      requestVars, faultVars
  <2>6. ASSUME NEW w \in Workers, RetryParse(w)
       PROVE  AnalysisReadsCurrentBlocks'
    BY <2>6 DEF AnalysisReadsCurrentBlocks, TypeOK, RetryParse, Release, Publish,
      docVars, requestVars, faultVars
  <2>7. ASSUME NEW w \in Workers, GiveUpParse(w)
       PROVE  AnalysisReadsCurrentBlocks'
    BY <2>7 DEF AnalysisReadsCurrentBlocks, TypeOK, GiveUpParse, Release, WriteOutcome,
      requestVars, faultVars
  <2>8. ASSUME NEW w \in Workers, RejectFile(w)
       PROVE  AnalysisReadsCurrentBlocks'
    BY <2>8 DEF AnalysisReadsCurrentBlocks, TypeOK, RejectFile, Release, WriteOutcome,
      requestVars, faultVars
  <2>9. ASSUME NEW w \in Workers, ParserRaises(w)
       PROVE  AnalysisReadsCurrentBlocks'
    BY <2>9 DEF AnalysisReadsCurrentBlocks, TypeOK, ParserRaises, Release, docVars,
      requestVars, faultVars
  <2>10. ASSUME NEW w \in Workers, DeleteOldBlocks(w)
       PROVE  AnalysisReadsCurrentBlocks'
    BY <2>10 DEF AnalysisReadsCurrentBlocks, TypeOK, DeleteOldBlocks, Goto, docVars,
      requestVars, faultVars
  <2>11. ASSUME NEW w \in Workers, StoreOcrRequired(w)
       PROVE  AnalysisReadsCurrentBlocks'
    BY <2>11 DEF AnalysisReadsCurrentBlocks, TypeOK, StoreOcrRequired, CanStore,
      RowUnlocked, Release, requestVars, faultVars
  <2>12. ASSUME NEW w \in Workers, StoreBlocks(w)
       PROVE  AnalysisReadsCurrentBlocks'
    BY <2>12 DEF AnalysisReadsCurrentBlocks, TypeOK, StoreBlocks, CanStore, RowUnlocked,
      Goto, requestVars, faultVars
  <2>13. ASSUME NEW w \in Workers, StoreAborts(w)
       PROVE  AnalysisReadsCurrentBlocks'
    BY <2>13 DEF AnalysisReadsCurrentBlocks, TypeOK, StoreAborts, Release, docVars,
      requestVars, faultVars
  <2>14. ASSUME NEW w \in Workers, DispatchAnalysis(w)
       PROVE  AnalysisReadsCurrentBlocks'
    BY <2>14 DEF AnalysisReadsCurrentBlocks, TypeOK, DispatchAnalysis, Release, Publish,
      docVars, requestVars, faultVars
  <2>15. ASSUME NEW w \in Workers, StartAnalysis(w)
       PROVE  AnalysisReadsCurrentBlocks'
    BY <2>15 DEF AnalysisReadsCurrentBlocks, TypeOK, StartAnalysis, Begin, Take,
      docVars, requestVars, faultVars
  <2>16. ASSUME NEW w \in Workers, AnalysisFails(w)
       PROVE  AnalysisReadsCurrentBlocks'
    BY <2>16 DEF AnalysisReadsCurrentBlocks, TypeOK, AnalysisFails, FailedAnalysis,
      Release, requestVars, faultVars
  <2>17. ASSUME NEW w \in Workers,
              NEW partial \in BOOLEAN, NEW found \in BOOLEAN, AnalysisSucceeds(w, partial, found)
       PROVE  AnalysisReadsCurrentBlocks'
    BY <2>17 DEF AnalysisReadsCurrentBlocks, TypeOK, AnalysisSucceeds, Goto,
      requestVars, faultVars
  <2>18. ASSUME NEW w \in Workers, DeadlockAbortsAnalysis(w)
       PROVE  AnalysisReadsCurrentBlocks'
    BY <2>18 DEF AnalysisReadsCurrentBlocks, TypeOK, DeadlockAbortsAnalysis, Release,
      docVars, requestVars, faultVars
  <2>19. ASSUME NEW w \in Workers, NEW v \in Workers, DeadlockAbortsProcessing(w, v)
       PROVE  AnalysisReadsCurrentBlocks'
    BY <2>19 DEF AnalysisReadsCurrentBlocks, TypeOK, DeadlockAbortsProcessing, Release,
      docVars, requestVars, faultVars
  <2>20. ASSUME NEW w \in Workers, FinishSummary(w)
       PROVE  AnalysisReadsCurrentBlocks'
    BY <2>20 DEF AnalysisReadsCurrentBlocks, TypeOK, FinishSummary, Release, docVars,
      requestVars, faultVars
  <2>21. ASSUME NEW w \in Workers, NEW m \in Messages, DropMessage(w, m)
       PROVE  AnalysisReadsCurrentBlocks'
    BY <2>21 DEF AnalysisReadsCurrentBlocks, TypeOK, DropMessage, Take, docVars,
      workerVars, requestVars, faultVars
  <2>22. ASSUME NEW w \in Workers, Redeliver(w)
       PROVE  AnalysisReadsCurrentBlocks'
    BY <2>22 DEF AnalysisReadsCurrentBlocks, TypeOK, Redeliver, Publish, Fault, docVars,
      workerVars, requestVars
  <2>23. ASSUME NEW w \in Workers, CrashWorker(w)
       PROVE  AnalysisReadsCurrentBlocks'
    BY <2>23 DEF AnalysisReadsCurrentBlocks, TypeOK, CrashWorker, Release, Publish,
      Fault, docVars, requestVars
  <2>24. ASSUME NEW w \in Workers, KillTask(w)
       PROVE  AnalysisReadsCurrentBlocks'
    BY <2>24 DEF AnalysisReadsCurrentBlocks, TypeOK, KillTask, Release, Fault, docVars,
      requestVars
  <2>25. ASSUME NEW r \in Requests, EnqueueFails(r)
       PROVE  AnalysisReadsCurrentBlocks'
    BY <2>25 DEF AnalysisReadsCurrentBlocks, TypeOK, EnqueueFails, Fault, docVars,
      workerVars
  <2>26. CASE UNCHANGED vars
    BY <2>26 DEF AnalysisReadsCurrentBlocks, TypeOK, vars, docVars, workerVars,
      requestVars, faultVars
  <2>27. QED
    BY <2>1, <2>2, <2>3, <2>4, <2>5, <2>6, <2>7, <2>8, <2>9,
       <2>10, <2>11, <2>12, <2>13, <2>14, <2>15, <2>16, <2>17, <2>18,
       <2>19, <2>20, <2>21, <2>22, <2>23, <2>24, <2>25, <2>26
    DEF Next, Handle, Work, Parse, Analysis, Faulty
<1>3. QED
  BY <1>1, <1>2, TypeCorrect, PTL DEF Spec

\* The stored error code always explains the state it is stored with.
THEOREM ErrorsMatchStates == Spec => []ErrorMatchesState
<1>1. Init => ErrorMatchesState
  BY DEF Init, ErrorMatchesState, ParseErrors
<1>2. TypeOK /\ TypeOK' /\ ErrorMatchesState /\ [Next]_vars => ErrorMatchesState'
  <2> SUFFICES ASSUME TypeOK, TypeOK', ErrorMatchesState, [Next]_vars PROVE ErrorMatchesState'
    OBVIOUS
  <2>1. ASSUME NEW r \in Requests, LoadDocument(r)
       PROVE  ErrorMatchesState'
    BY <2>1 DEF ErrorMatchesState, ActiveStates, ReviewableStates, ParseErrors,
      LoadDocument, docVars, workerVars, faultVars
  <2>2. ASSUME NEW r \in Requests, MarkForProcessing(r)
       PROVE  ErrorMatchesState'
    BY <2>2 DEF ErrorMatchesState, ActiveStates, ReviewableStates, ParseErrors,
      MarkForProcessing, docVars, workerVars, faultVars
  <2>3. ASSUME NEW r \in Requests, EnqueueProcessing(r)
       PROVE  ErrorMatchesState'
    BY <2>3 DEF ErrorMatchesState, ActiveStates, ReviewableStates, ParseErrors,
      EnqueueProcessing, Publish, docVars, workerVars, faultVars
  <2>4. ASSUME DeleteDocument
       PROVE  ErrorMatchesState'
    BY <2>4 DEF ErrorMatchesState, ActiveStates, ReviewableStates, ParseErrors,
      DeleteDocument, workerVars, requestVars, faultVars
  <2>5. ASSUME NEW w \in Workers, NEW m \in ProcessMessages, StartProcess(w, m)
       PROVE  ErrorMatchesState'
    BY <2>5 DEF ErrorMatchesState, ActiveStates, ReviewableStates, ParseErrors,
      StartProcess, Begin, Take, requestVars, faultVars
  <2>6. ASSUME NEW w \in Workers, RetryParse(w)
       PROVE  ErrorMatchesState'
    BY <2>6 DEF ErrorMatchesState, ActiveStates, ReviewableStates, ParseErrors,
      RetryParse, Release, Publish, docVars, requestVars, faultVars
  <2>7. ASSUME NEW w \in Workers, GiveUpParse(w)
       PROVE  ErrorMatchesState'
    BY <2>7 DEF ErrorMatchesState, ActiveStates, ReviewableStates, ParseErrors,
      GiveUpParse, Release, WriteOutcome, requestVars, faultVars
  <2>8. ASSUME NEW w \in Workers, RejectFile(w)
       PROVE  ErrorMatchesState'
    BY <2>8 DEF ErrorMatchesState, ActiveStates, ReviewableStates, ParseErrors,
      RejectFile, Release, WriteOutcome, requestVars, faultVars
  <2>9. ASSUME NEW w \in Workers, ParserRaises(w)
       PROVE  ErrorMatchesState'
    BY <2>9 DEF ErrorMatchesState, ActiveStates, ReviewableStates, ParseErrors,
      ParserRaises, Release, docVars, requestVars, faultVars
  <2>10. ASSUME NEW w \in Workers, DeleteOldBlocks(w)
       PROVE  ErrorMatchesState'
    BY <2>10 DEF ErrorMatchesState, ActiveStates, ReviewableStates, ParseErrors,
      DeleteOldBlocks, Goto, docVars, requestVars, faultVars
  <2>11. ASSUME NEW w \in Workers, StoreOcrRequired(w)
       PROVE  ErrorMatchesState'
    BY <2>11 DEF ErrorMatchesState, ActiveStates, ReviewableStates, ParseErrors,
      StoreOcrRequired, Release, requestVars, faultVars
  <2>12. ASSUME NEW w \in Workers, StoreBlocks(w)
       PROVE  ErrorMatchesState'
    BY <2>12 DEF ErrorMatchesState, ActiveStates, ReviewableStates, ParseErrors,
      StoreBlocks, Goto, requestVars, faultVars
  <2>13. ASSUME NEW w \in Workers, StoreAborts(w)
       PROVE  ErrorMatchesState'
    BY <2>13 DEF ErrorMatchesState, ActiveStates, ReviewableStates, ParseErrors,
      StoreAborts, Release, docVars, requestVars, faultVars
  <2>14. ASSUME NEW w \in Workers, DispatchAnalysis(w)
       PROVE  ErrorMatchesState'
    BY <2>14 DEF ErrorMatchesState, ActiveStates, ReviewableStates, ParseErrors,
      DispatchAnalysis, Release, Publish, docVars, requestVars, faultVars
  <2>15. ASSUME NEW w \in Workers, StartAnalysis(w)
       PROVE  ErrorMatchesState'
    BY <2>15 DEF ErrorMatchesState, ActiveStates, ReviewableStates, ParseErrors,
      StartAnalysis, Begin, Take, docVars, requestVars, faultVars
  <2>16. ASSUME NEW w \in Workers, AnalysisFails(w)
       PROVE  ErrorMatchesState'
    BY <2>16 DEF ErrorMatchesState, ActiveStates, ReviewableStates, ParseErrors,
      AnalysisFails, FailedAnalysis, Release, requestVars, faultVars
  <2>17. ASSUME NEW w \in Workers,
              NEW partial \in BOOLEAN, NEW found \in BOOLEAN, AnalysisSucceeds(w, partial, found)
       PROVE  ErrorMatchesState'
    BY <2>17 DEF ErrorMatchesState, ActiveStates, ReviewableStates, ParseErrors,
      AnalysisSucceeds, ErrorOfReview, Goto, requestVars, faultVars
  <2>18. ASSUME NEW w \in Workers, DeadlockAbortsAnalysis(w)
       PROVE  ErrorMatchesState'
    BY <2>18 DEF ErrorMatchesState, ActiveStates, ReviewableStates, ParseErrors,
      DeadlockAbortsAnalysis, Release, docVars, requestVars, faultVars
  <2>19. ASSUME NEW w \in Workers, NEW v \in Workers, DeadlockAbortsProcessing(w, v)
       PROVE  ErrorMatchesState'
    BY <2>19 DEF ErrorMatchesState, ActiveStates, ReviewableStates, ParseErrors,
      DeadlockAbortsProcessing, Release, docVars, requestVars, faultVars
  <2>20. ASSUME NEW w \in Workers, FinishSummary(w)
       PROVE  ErrorMatchesState'
    BY <2>20 DEF ErrorMatchesState, ActiveStates, ReviewableStates, ParseErrors,
      FinishSummary, Release, docVars, requestVars, faultVars
  <2>21. ASSUME NEW w \in Workers, NEW m \in Messages, DropMessage(w, m)
       PROVE  ErrorMatchesState'
    BY <2>21 DEF ErrorMatchesState, ActiveStates, ReviewableStates, ParseErrors,
      DropMessage, Take, docVars, workerVars, requestVars, faultVars
  <2>22. ASSUME NEW w \in Workers, Redeliver(w)
       PROVE  ErrorMatchesState'
    BY <2>22 DEF ErrorMatchesState, ActiveStates, ReviewableStates, ParseErrors,
      Redeliver, Publish, Fault, docVars, workerVars, requestVars
  <2>23. ASSUME NEW w \in Workers, CrashWorker(w)
       PROVE  ErrorMatchesState'
    BY <2>23 DEF ErrorMatchesState, ActiveStates, ReviewableStates, ParseErrors,
      CrashWorker, Release, Publish, Fault, docVars, requestVars
  <2>24. ASSUME NEW w \in Workers, KillTask(w)
       PROVE  ErrorMatchesState'
    BY <2>24 DEF ErrorMatchesState, ActiveStates, ReviewableStates, ParseErrors,
      KillTask, Release, Fault, docVars, requestVars
  <2>25. ASSUME NEW r \in Requests, EnqueueFails(r)
       PROVE  ErrorMatchesState'
    BY <2>25 DEF ErrorMatchesState, ActiveStates, ReviewableStates, ParseErrors,
      EnqueueFails, Fault, docVars, workerVars
  <2>26. CASE UNCHANGED vars
    BY <2>26 DEF ErrorMatchesState, ActiveStates, ReviewableStates, ParseErrors, vars,
      docVars, workerVars, requestVars, faultVars
  <2>27. QED
    BY <2>1, <2>2, <2>3, <2>4, <2>5, <2>6, <2>7, <2>8, <2>9,
       <2>10, <2>11, <2>12, <2>13, <2>14, <2>15, <2>16, <2>17, <2>18,
       <2>19, <2>20, <2>21, <2>22, <2>23, <2>24, <2>25, <2>26
    DEF Next, Handle, Work, Parse, Analysis, Faulty
<1>3. QED
  BY <1>1, <1>2, TypeCorrect, PTL DEF Spec

\* A reviewable document has blocks, and its latest job brought it there and has
\* kept its evidence.
THEOREM ReviewablesAreBacked == Spec => []ReviewableIsBacked
<1>1. Init => ReviewableIsBacked
  BY DEF Init, ReviewableIsBacked, ReviewableStates
<1>2. TypeOK /\ TypeOK' /\ AnalysisReadsCurrentBlocks /\ ReviewableIsBacked /\ [Next]_vars => ReviewableIsBacked'
  <2> SUFFICES ASSUME TypeOK, TypeOK', AnalysisReadsCurrentBlocks, ReviewableIsBacked, [Next]_vars PROVE ReviewableIsBacked'
    OBVIOUS
  <2>1. ASSUME NEW r \in Requests, LoadDocument(r)
       PROVE  ReviewableIsBacked'
    BY <2>1 DEF ReviewableIsBacked, ReviewableStates, DocumentStates, ActiveStates,
      TypeOK, LoadDocument, docVars, workerVars, faultVars
  <2>2. ASSUME NEW r \in Requests, MarkForProcessing(r)
       PROVE  ReviewableIsBacked'
    BY <2>2 DEF ReviewableIsBacked, ReviewableStates, DocumentStates, ActiveStates,
      TypeOK, MarkForProcessing, docVars, workerVars, faultVars
  <2>3. ASSUME NEW r \in Requests, EnqueueProcessing(r)
       PROVE  ReviewableIsBacked'
    BY <2>3 DEF ReviewableIsBacked, ReviewableStates, DocumentStates, ActiveStates,
      TypeOK, EnqueueProcessing, Publish, docVars, workerVars, faultVars
  <2>4. ASSUME DeleteDocument
       PROVE  ReviewableIsBacked'
    BY <2>4 DEF ReviewableIsBacked, ReviewableStates, DocumentStates, ActiveStates,
      TypeOK, DeleteDocument, workerVars, requestVars, faultVars
  <2>5. ASSUME NEW w \in Workers, NEW m \in ProcessMessages, StartProcess(w, m)
       PROVE  ReviewableIsBacked'
    BY <2>5 DEF ReviewableIsBacked, ReviewableStates, DocumentStates, ActiveStates,
      TypeOK, StartProcess, Begin, Take, requestVars, faultVars
  <2>6. ASSUME NEW w \in Workers, RetryParse(w)
       PROVE  ReviewableIsBacked'
    BY <2>6 DEF ReviewableIsBacked, ReviewableStates, DocumentStates, ActiveStates,
      TypeOK, RetryParse, Release, Publish, docVars, requestVars, faultVars
  <2>7. ASSUME NEW w \in Workers, GiveUpParse(w)
       PROVE  ReviewableIsBacked'
    BY <2>7 DEF ReviewableIsBacked, ReviewableStates, DocumentStates, ActiveStates,
      TypeOK, GiveUpParse, Release, WriteOutcome, requestVars, faultVars
  <2>8. ASSUME NEW w \in Workers, RejectFile(w)
       PROVE  ReviewableIsBacked'
    BY <2>8 DEF ReviewableIsBacked, ReviewableStates, DocumentStates, ActiveStates,
      TypeOK, RejectFile, Release, WriteOutcome, requestVars, faultVars
  <2>9. ASSUME NEW w \in Workers, ParserRaises(w)
       PROVE  ReviewableIsBacked'
    BY <2>9 DEF ReviewableIsBacked, ReviewableStates, DocumentStates, ActiveStates,
      TypeOK, ParserRaises, Release, docVars, requestVars, faultVars
  <2>10. ASSUME NEW w \in Workers, DeleteOldBlocks(w)
       PROVE  ReviewableIsBacked'
    BY <2>10 DEF ReviewableIsBacked, ReviewableStates, DocumentStates, ActiveStates,
      TypeOK, DeleteOldBlocks, Goto, docVars, requestVars, faultVars
  <2>11. ASSUME NEW w \in Workers, StoreOcrRequired(w)
       PROVE  ReviewableIsBacked'
    BY <2>11 DEF ReviewableIsBacked, ReviewableStates, DocumentStates, ActiveStates,
      TypeOK, StoreOcrRequired, Release, requestVars, faultVars
  <2>12. ASSUME NEW w \in Workers, StoreBlocks(w)
       PROVE  ReviewableIsBacked'
    BY <2>12 DEF ReviewableIsBacked, ReviewableStates, DocumentStates, ActiveStates,
      TypeOK, StoreBlocks, Goto, requestVars, faultVars
  <2>13. ASSUME NEW w \in Workers, StoreAborts(w)
       PROVE  ReviewableIsBacked'
    BY <2>13 DEF ReviewableIsBacked, ReviewableStates, DocumentStates, ActiveStates,
      TypeOK, StoreAborts, Release, docVars, requestVars, faultVars
  <2>14. ASSUME NEW w \in Workers, DispatchAnalysis(w)
       PROVE  ReviewableIsBacked'
    BY <2>14 DEF ReviewableIsBacked, ReviewableStates, DocumentStates, ActiveStates,
      TypeOK, DispatchAnalysis, Release, Publish, docVars, requestVars, faultVars
  <2>15. ASSUME NEW w \in Workers, StartAnalysis(w)
       PROVE  ReviewableIsBacked'
    BY <2>15 DEF ReviewableIsBacked, ReviewableStates, DocumentStates, ActiveStates,
      TypeOK, StartAnalysis, Begin, Take, docVars, requestVars, faultVars
  <2>16. ASSUME NEW w \in Workers, AnalysisFails(w)
       PROVE  ReviewableIsBacked'
    BY <2>16 DEF ReviewableIsBacked, ReviewableStates, DocumentStates, ActiveStates,
      TypeOK, AnalysisFails, FailedAnalysis, Release, requestVars, faultVars
  <2>17. ASSUME NEW w \in Workers,
              NEW partial \in BOOLEAN, NEW found \in BOOLEAN, AnalysisSucceeds(w, partial, found)
       PROVE  ReviewableIsBacked'
    BY <2>17, JobHistoryTypes DEF ReviewableIsBacked, ReviewableStates, DocumentStates,
      ActiveStates, TypeOK, AnalysisSucceeds, AnalysisReadsCurrentBlocks, Jobs, Goto,
      requestVars, faultVars
  <2>18. ASSUME NEW w \in Workers, DeadlockAbortsAnalysis(w)
       PROVE  ReviewableIsBacked'
    BY <2>18 DEF ReviewableIsBacked, ReviewableStates, DocumentStates, ActiveStates,
      TypeOK, DeadlockAbortsAnalysis, Release, docVars, requestVars, faultVars
  <2>19. ASSUME NEW w \in Workers, NEW v \in Workers, DeadlockAbortsProcessing(w, v)
       PROVE  ReviewableIsBacked'
    BY <2>19 DEF ReviewableIsBacked, ReviewableStates, DocumentStates, ActiveStates,
      TypeOK, DeadlockAbortsProcessing, Release, docVars, requestVars, faultVars
  <2>20. ASSUME NEW w \in Workers, FinishSummary(w)
       PROVE  ReviewableIsBacked'
    BY <2>20 DEF ReviewableIsBacked, ReviewableStates, DocumentStates, ActiveStates,
      TypeOK, FinishSummary, Release, docVars, requestVars, faultVars
  <2>21. ASSUME NEW w \in Workers, NEW m \in Messages, DropMessage(w, m)
       PROVE  ReviewableIsBacked'
    BY <2>21 DEF ReviewableIsBacked, ReviewableStates, DocumentStates, ActiveStates,
      TypeOK, DropMessage, Take, docVars, workerVars, requestVars, faultVars
  <2>22. ASSUME NEW w \in Workers, Redeliver(w)
       PROVE  ReviewableIsBacked'
    BY <2>22 DEF ReviewableIsBacked, ReviewableStates, DocumentStates, ActiveStates,
      TypeOK, Redeliver, Publish, Fault, docVars, workerVars, requestVars
  <2>23. ASSUME NEW w \in Workers, CrashWorker(w)
       PROVE  ReviewableIsBacked'
    BY <2>23 DEF ReviewableIsBacked, ReviewableStates, DocumentStates, ActiveStates,
      TypeOK, CrashWorker, Release, Publish, Fault, docVars, requestVars
  <2>24. ASSUME NEW w \in Workers, KillTask(w)
       PROVE  ReviewableIsBacked'
    BY <2>24 DEF ReviewableIsBacked, ReviewableStates, DocumentStates, ActiveStates,
      TypeOK, KillTask, Release, Fault, docVars, requestVars
  <2>25. ASSUME NEW r \in Requests, EnqueueFails(r)
       PROVE  ReviewableIsBacked'
    BY <2>25 DEF ReviewableIsBacked, ReviewableStates, DocumentStates, ActiveStates,
      TypeOK, EnqueueFails, Fault, docVars, workerVars
  <2>26. CASE UNCHANGED vars
    BY <2>26 DEF ReviewableIsBacked, ReviewableStates, DocumentStates, ActiveStates,
      TypeOK, vars, docVars, workerVars, requestVars, faultVars
  <2>27. QED
    BY <2>1, <2>2, <2>3, <2>4, <2>5, <2>6, <2>7, <2>8, <2>9,
       <2>10, <2>11, <2>12, <2>13, <2>14, <2>15, <2>16, <2>17, <2>18,
       <2>19, <2>20, <2>21, <2>22, <2>23, <2>24, <2>25, <2>26
    DEF Next, Handle, Work, Parse, Analysis, Faulty
<1>3. QED
  BY <1>1, <1>2, TypeCorrect, AnalysisReadsCurrent, PTL DEF Spec

\* A document in PARSING or ANALYZING is never abandoned, short of a lost message
\* or an exception of the parser that process_document does not catch.
THEOREM ActiveDocumentsAreOwned == Spec => []ActiveIsOwned
<1>1. Init => ActiveIsOwned
  BY DEF Init, ActiveIsOwned, ActiveStates
<1>2. TypeOK /\ TypeOK' /\ AnalysisReadsCurrentBlocks /\ ActiveIsOwned /\ [Next]_vars => ActiveIsOwned'
  <2> SUFFICES ASSUME TypeOK, TypeOK', AnalysisReadsCurrentBlocks, ActiveIsOwned, [Next]_vars PROVE ActiveIsOwned'
    OBVIOUS
  <2>1. ASSUME NEW r \in Requests, LoadDocument(r)
       PROVE  ActiveIsOwned'
    BY <2>1 DEF ActiveIsOwned, Owned, ActiveStates, TypeOK, LoadDocument, docVars,
      workerVars, faultVars
  <2>2. ASSUME NEW r \in Requests, MarkForProcessing(r)
       PROVE  ActiveIsOwned'
    BY <2>2 DEF ActiveIsOwned, Owned, ActiveStates, TypeOK, MarkForProcessing, docVars,
      workerVars, faultVars
  <2>3. ASSUME NEW r \in Requests, EnqueueProcessing(r)
       PROVE  ActiveIsOwned'
    BY <2>3, MessageTypes DEF ActiveIsOwned, Owned, ActiveStates, TypeOK,
      EnqueueProcessing, Publish, docVars, workerVars, faultVars
  <2>4. ASSUME DeleteDocument
       PROVE  ActiveIsOwned'
    BY <2>4 DEF ActiveIsOwned, Owned, ActiveStates, TypeOK, DeleteDocument, workerVars,
      requestVars, faultVars
  <2>5. ASSUME NEW w \in Workers, NEW m \in ProcessMessages, StartProcess(w, m)
       PROVE  ActiveIsOwned'
    BY <2>5, MessageTypes DEF ActiveIsOwned, Owned, ActiveStates, TypeOK, StartProcess,
      Begin, Take, requestVars, faultVars
  <2>6. ASSUME NEW w \in Workers, RetryParse(w)
       PROVE  ActiveIsOwned'
    BY <2>6, MessageTypes DEF ActiveIsOwned, Owned, ActiveStates, TypeOK, RetryParse,
      Release, Publish, docVars, requestVars, faultVars
  <2>7. ASSUME NEW w \in Workers, GiveUpParse(w)
       PROVE  ActiveIsOwned'
    BY <2>7 DEF ActiveIsOwned, Owned, ActiveStates, TypeOK, GiveUpParse, Release,
      WriteOutcome, requestVars, faultVars
  <2>8. ASSUME NEW w \in Workers, RejectFile(w)
       PROVE  ActiveIsOwned'
    BY <2>8 DEF ActiveIsOwned, Owned, ActiveStates, TypeOK, RejectFile, Release,
      WriteOutcome, requestVars, faultVars
  <2>9. ASSUME NEW w \in Workers, ParserRaises(w)
       PROVE  ActiveIsOwned'
    BY <2>9 DEF ActiveIsOwned, Owned, ActiveStates, TypeOK, ParserRaises, Release,
      docVars, requestVars, faultVars
  <2>10. ASSUME NEW w \in Workers, DeleteOldBlocks(w)
       PROVE  ActiveIsOwned'
    BY <2>10 DEF ActiveIsOwned, Owned, ActiveStates, TypeOK, DeleteOldBlocks, Goto,
      docVars, requestVars, faultVars
  <2>11. ASSUME NEW w \in Workers, StoreOcrRequired(w)
       PROVE  ActiveIsOwned'
    BY <2>11 DEF ActiveIsOwned, Owned, ActiveStates, TypeOK, StoreOcrRequired, CanStore,
      Release, requestVars, faultVars
  <2>12. ASSUME NEW w \in Workers, StoreBlocks(w)
       PROVE  ActiveIsOwned'
    BY <2>12 DEF ActiveIsOwned, Owned, ActiveStates, TypeOK, StoreBlocks, CanStore,
      Goto, requestVars, faultVars
  <2>13. ASSUME NEW w \in Workers, StoreAborts(w)
       PROVE  ActiveIsOwned'
    BY <2>13 DEF ActiveIsOwned, Owned, ActiveStates, TypeOK, StoreAborts, Release,
      docVars, requestVars, faultVars
  <2>14. ASSUME NEW w \in Workers, DispatchAnalysis(w)
       PROVE  ActiveIsOwned'
    BY <2>14, MessageTypes DEF ActiveIsOwned, Owned, ActiveStates, TypeOK,
      DispatchAnalysis, Release, Publish, docVars, requestVars, faultVars
  <2>15. ASSUME NEW w \in Workers, StartAnalysis(w)
       PROVE  ActiveIsOwned'
    BY <2>15, MessageTypes DEF ActiveIsOwned, Owned, ActiveStates, TypeOK,
      StartAnalysis, Begin, Take, docVars, requestVars, faultVars
  <2>16. ASSUME NEW w \in Workers, AnalysisFails(w)
       PROVE  ActiveIsOwned'
    BY <2>16 DEF ActiveIsOwned, Owned, ActiveStates, TypeOK, AnalysisFails,
      FailedAnalysis, Release, requestVars, faultVars
  <2>17. ASSUME NEW w \in Workers,
              NEW partial \in BOOLEAN, NEW found \in BOOLEAN, AnalysisSucceeds(w, partial, found)
       PROVE  ActiveIsOwned'
    BY <2>17 DEF ActiveIsOwned, Owned, ActiveStates, TypeOK, AnalysisSucceeds, Goto,
      requestVars, faultVars
  <2>18. ASSUME NEW w \in Workers, DeadlockAbortsAnalysis(w)
       PROVE  ActiveIsOwned'
    BY <2>18 DEF ActiveIsOwned, Owned, ActiveStates, TypeOK, DeadlockAbortsAnalysis,
      Replacing, AnalysisReadsCurrentBlocks, Release, docVars, requestVars, faultVars
  <2>19. ASSUME NEW w \in Workers, NEW v \in Workers, DeadlockAbortsProcessing(w, v)
       PROVE  ActiveIsOwned'
    BY <2>19 DEF ActiveIsOwned, Owned, ActiveStates, TypeOK, DeadlockAbortsProcessing,
      Replacing, Release, docVars, requestVars, faultVars
  <2>20. ASSUME NEW w \in Workers, FinishSummary(w)
       PROVE  ActiveIsOwned'
    BY <2>20 DEF ActiveIsOwned, Owned, ActiveStates, TypeOK, FinishSummary, Release,
      docVars, requestVars, faultVars
  <2>21. ASSUME NEW w \in Workers, NEW m \in Messages, DropMessage(w, m)
       PROVE  ActiveIsOwned'
    BY <2>21, MessageTypes DEF ActiveIsOwned, Owned, ActiveStates, TypeOK, DropMessage,
      Take, docVars, workerVars, requestVars, faultVars
  <2>22. ASSUME NEW w \in Workers, Redeliver(w)
       PROVE  ActiveIsOwned'
    BY <2>22, MessageTypes DEF ActiveIsOwned, Owned, ActiveStates, TypeOK, Redeliver,
      Publish, Fault, docVars, workerVars, requestVars
  <2>23. ASSUME NEW w \in Workers, CrashWorker(w)
       PROVE  ActiveIsOwned'
    BY <2>23, MessageTypes DEF ActiveIsOwned, Owned, ActiveStates, TypeOK, CrashWorker,
      Release, Publish, Fault, docVars, requestVars
  <2>24. ASSUME NEW w \in Workers, KillTask(w)
       PROVE  ActiveIsOwned'
    BY <2>24 DEF ActiveIsOwned, Owned, ActiveStates, TypeOK, KillTask, Release, Fault,
      docVars, requestVars
  <2>25. ASSUME NEW r \in Requests, EnqueueFails(r)
       PROVE  ActiveIsOwned'
    BY <2>25 DEF ActiveIsOwned, Owned, ActiveStates, TypeOK, EnqueueFails, Fault,
      docVars, workerVars
  <2>26. CASE UNCHANGED vars
    BY <2>26 DEF ActiveIsOwned, Owned, ActiveStates, TypeOK, vars, docVars, workerVars,
      requestVars, faultVars
  <2>27. QED
    BY <2>1, <2>2, <2>3, <2>4, <2>5, <2>6, <2>7, <2>8, <2>9,
       <2>10, <2>11, <2>12, <2>13, <2>14, <2>15, <2>16, <2>17, <2>18,
       <2>19, <2>20, <2>21, <2>22, <2>23, <2>24, <2>25, <2>26
    DEF Next, Handle, Work, Parse, Analysis, Faulty
<1>3. QED
  BY <1>1, <1>2, TypeCorrect, AnalysisReadsCurrent, PTL DEF Spec

\* run_analysis keeps the row it locked from being deleted.
LockedRowExists == \A w \in Workers : pc[w] = "analyze" => state # "DELETED"

\* The document that a worker has locked for its analysis is there.
LEMMA LockedRowsExist == Spec => []LockedRowExists
<1>1. Init => LockedRowExists
  BY DEF Init, LockedRowExists
<1>2. TypeOK /\ LockedRowExists /\ [Next]_vars => LockedRowExists'
  <2> SUFFICES ASSUME TypeOK, LockedRowExists, [Next]_vars PROVE LockedRowExists'
    OBVIOUS
  <2>1. ASSUME NEW r \in Requests, LoadDocument(r)
       PROVE  LockedRowExists'
    BY <2>1 DEF LockedRowExists, TypeOK, LoadDocument, docVars, workerVars, faultVars
  <2>2. ASSUME NEW r \in Requests, MarkForProcessing(r)
       PROVE  LockedRowExists'
    BY <2>2 DEF LockedRowExists, TypeOK, MarkForProcessing, docVars, workerVars,
      faultVars
  <2>3. ASSUME NEW r \in Requests, EnqueueProcessing(r)
       PROVE  LockedRowExists'
    BY <2>3 DEF LockedRowExists, TypeOK, EnqueueProcessing, Publish, docVars,
      workerVars, faultVars
  <2>4. ASSUME DeleteDocument
       PROVE  LockedRowExists'
    BY <2>4 DEF LockedRowExists, TypeOK, DeleteDocument, RowUnlocked, workerVars,
      requestVars, faultVars
  <2>5. ASSUME NEW w \in Workers, NEW m \in ProcessMessages, StartProcess(w, m)
       PROVE  LockedRowExists'
    BY <2>5 DEF LockedRowExists, TypeOK, StartProcess, Begin, Take, requestVars,
      faultVars
  <2>6. ASSUME NEW w \in Workers, RetryParse(w)
       PROVE  LockedRowExists'
    BY <2>6 DEF LockedRowExists, TypeOK, RetryParse, Release, Publish, docVars,
      requestVars, faultVars
  <2>7. ASSUME NEW w \in Workers, GiveUpParse(w)
       PROVE  LockedRowExists'
    BY <2>7 DEF LockedRowExists, TypeOK, GiveUpParse, Release, WriteOutcome,
      requestVars, faultVars
  <2>8. ASSUME NEW w \in Workers, RejectFile(w)
       PROVE  LockedRowExists'
    BY <2>8 DEF LockedRowExists, TypeOK, RejectFile, Release, WriteOutcome, requestVars,
      faultVars
  <2>9. ASSUME NEW w \in Workers, ParserRaises(w)
       PROVE  LockedRowExists'
    BY <2>9 DEF LockedRowExists, TypeOK, ParserRaises, Release, docVars, requestVars,
      faultVars
  <2>10. ASSUME NEW w \in Workers, DeleteOldBlocks(w)
       PROVE  LockedRowExists'
    BY <2>10 DEF LockedRowExists, TypeOK, DeleteOldBlocks, Goto, docVars, requestVars,
      faultVars
  <2>11. ASSUME NEW w \in Workers, StoreOcrRequired(w)
       PROVE  LockedRowExists'
    BY <2>11 DEF LockedRowExists, TypeOK, StoreOcrRequired, Release, requestVars,
      faultVars
  <2>12. ASSUME NEW w \in Workers, StoreBlocks(w)
       PROVE  LockedRowExists'
    BY <2>12 DEF LockedRowExists, TypeOK, StoreBlocks, Goto, requestVars, faultVars
  <2>13. ASSUME NEW w \in Workers, StoreAborts(w)
       PROVE  LockedRowExists'
    BY <2>13 DEF LockedRowExists, TypeOK, StoreAborts, Release, docVars, requestVars,
      faultVars
  <2>14. ASSUME NEW w \in Workers, DispatchAnalysis(w)
       PROVE  LockedRowExists'
    BY <2>14 DEF LockedRowExists, TypeOK, DispatchAnalysis, Release, Publish, docVars,
      requestVars, faultVars
  <2>15. ASSUME NEW w \in Workers, StartAnalysis(w)
       PROVE  LockedRowExists'
    BY <2>15 DEF LockedRowExists, TypeOK, StartAnalysis, Begin, Take, docVars,
      requestVars, faultVars
  <2>16. ASSUME NEW w \in Workers, AnalysisFails(w)
       PROVE  LockedRowExists'
    BY <2>16 DEF LockedRowExists, TypeOK, AnalysisFails, FailedAnalysis, Release,
      requestVars, faultVars
  <2>17. ASSUME NEW w \in Workers,
              NEW partial \in BOOLEAN, NEW found \in BOOLEAN, AnalysisSucceeds(w, partial, found)
       PROVE  LockedRowExists'
    BY <2>17 DEF LockedRowExists, TypeOK, AnalysisSucceeds, Goto, requestVars, faultVars
  <2>18. ASSUME NEW w \in Workers, DeadlockAbortsAnalysis(w)
       PROVE  LockedRowExists'
    BY <2>18 DEF LockedRowExists, TypeOK, DeadlockAbortsAnalysis, Release, docVars,
      requestVars, faultVars
  <2>19. ASSUME NEW w \in Workers, NEW v \in Workers, DeadlockAbortsProcessing(w, v)
       PROVE  LockedRowExists'
    BY <2>19 DEF LockedRowExists, TypeOK, DeadlockAbortsProcessing, Release, docVars,
      requestVars, faultVars
  <2>20. ASSUME NEW w \in Workers, FinishSummary(w)
       PROVE  LockedRowExists'
    BY <2>20 DEF LockedRowExists, TypeOK, FinishSummary, Release, docVars, requestVars,
      faultVars
  <2>21. ASSUME NEW w \in Workers, NEW m \in Messages, DropMessage(w, m)
       PROVE  LockedRowExists'
    BY <2>21 DEF LockedRowExists, TypeOK, DropMessage, Take, docVars, workerVars,
      requestVars, faultVars
  <2>22. ASSUME NEW w \in Workers, Redeliver(w)
       PROVE  LockedRowExists'
    BY <2>22 DEF LockedRowExists, TypeOK, Redeliver, Publish, Fault, docVars,
      workerVars, requestVars
  <2>23. ASSUME NEW w \in Workers, CrashWorker(w)
       PROVE  LockedRowExists'
    BY <2>23 DEF LockedRowExists, TypeOK, CrashWorker, Release, Publish, Fault, docVars,
      requestVars
  <2>24. ASSUME NEW w \in Workers, KillTask(w)
       PROVE  LockedRowExists'
    BY <2>24 DEF LockedRowExists, TypeOK, KillTask, Release, Fault, docVars, requestVars
  <2>25. ASSUME NEW r \in Requests, EnqueueFails(r)
       PROVE  LockedRowExists'
    BY <2>25 DEF LockedRowExists, TypeOK, EnqueueFails, Fault, docVars, workerVars
  <2>26. CASE UNCHANGED vars
    BY <2>26 DEF LockedRowExists, TypeOK, vars, docVars, workerVars, requestVars,
      faultVars
  <2>27. QED
    BY <2>1, <2>2, <2>3, <2>4, <2>5, <2>6, <2>7, <2>8, <2>9,
       <2>10, <2>11, <2>12, <2>13, <2>14, <2>15, <2>16, <2>17, <2>18,
       <2>19, <2>20, <2>21, <2>22, <2>23, <2>24, <2>25, <2>26
    DEF Next, Handle, Work, Parse, Analysis, Faulty
<1>3. QED
  BY <1>1, <1>2, TypeCorrect, PTL DEF Spec

\* No task that outlives the deletion of the document brings a row of it back.
THEOREM DeletionsAreFinal == Spec => DeletionIsFinal
<1> DEFINE Final == state = "DELETED" => state' = "DELETED" /\ UNCHANGED <<blocks, jobs>>
<1>1. TypeOK /\ LockedRowExists /\ [Next]_vars => Final
  <2> SUFFICES ASSUME TypeOK, LockedRowExists, [Next]_vars PROVE Final
    OBVIOUS
  <2>1. ASSUME NEW r \in Requests, LoadDocument(r)
       PROVE  Final
    BY <2>1 DEF LockedRowExists, LoadDocument, docVars, workerVars, faultVars
  <2>2. ASSUME NEW r \in Requests, MarkForProcessing(r)
       PROVE  Final
    BY <2>2 DEF LockedRowExists, MarkForProcessing, docVars, workerVars, faultVars
  <2>3. ASSUME NEW r \in Requests, EnqueueProcessing(r)
       PROVE  Final
    BY <2>3 DEF LockedRowExists, EnqueueProcessing, Publish, docVars, workerVars,
      faultVars
  <2>4. ASSUME DeleteDocument
       PROVE  Final
    BY <2>4 DEF LockedRowExists, DeleteDocument, workerVars, requestVars, faultVars
  <2>5. ASSUME NEW w \in Workers, NEW m \in ProcessMessages, StartProcess(w, m)
       PROVE  Final
    BY <2>5 DEF LockedRowExists, StartProcess, Begin, Take, requestVars, faultVars
  <2>6. ASSUME NEW w \in Workers, RetryParse(w)
       PROVE  Final
    BY <2>6 DEF LockedRowExists, RetryParse, Release, Publish, docVars, requestVars,
      faultVars
  <2>7. ASSUME NEW w \in Workers, GiveUpParse(w)
       PROVE  Final
    BY <2>7 DEF LockedRowExists, GiveUpParse, Release, WriteOutcome, requestVars,
      faultVars
  <2>8. ASSUME NEW w \in Workers, RejectFile(w)
       PROVE  Final
    BY <2>8 DEF LockedRowExists, RejectFile, Release, WriteOutcome, requestVars,
      faultVars
  <2>9. ASSUME NEW w \in Workers, ParserRaises(w)
       PROVE  Final
    BY <2>9 DEF LockedRowExists, ParserRaises, Release, docVars, requestVars, faultVars
  <2>10. ASSUME NEW w \in Workers, DeleteOldBlocks(w)
       PROVE  Final
    BY <2>10 DEF LockedRowExists, DeleteOldBlocks, Goto, docVars, requestVars, faultVars
  <2>11. ASSUME NEW w \in Workers, StoreOcrRequired(w)
       PROVE  Final
    BY <2>11 DEF LockedRowExists, StoreOcrRequired, CanStore, Release, requestVars,
      faultVars
  <2>12. ASSUME NEW w \in Workers, StoreBlocks(w)
       PROVE  Final
    BY <2>12 DEF LockedRowExists, StoreBlocks, CanStore, Goto, requestVars, faultVars
  <2>13. ASSUME NEW w \in Workers, StoreAborts(w)
       PROVE  Final
    BY <2>13 DEF LockedRowExists, StoreAborts, Release, docVars, requestVars, faultVars
  <2>14. ASSUME NEW w \in Workers, DispatchAnalysis(w)
       PROVE  Final
    BY <2>14 DEF LockedRowExists, DispatchAnalysis, Release, Publish, docVars,
      requestVars, faultVars
  <2>15. ASSUME NEW w \in Workers, StartAnalysis(w)
       PROVE  Final
    BY <2>15 DEF LockedRowExists, StartAnalysis, Begin, Take, docVars, requestVars,
      faultVars
  <2>16. ASSUME NEW w \in Workers, AnalysisFails(w)
       PROVE  Final
    BY <2>16 DEF LockedRowExists, AnalysisFails, FailedAnalysis, Release, requestVars,
      faultVars
  <2>17. ASSUME NEW w \in Workers,
              NEW partial \in BOOLEAN, NEW found \in BOOLEAN, AnalysisSucceeds(w, partial, found)
       PROVE  Final
    BY <2>17 DEF LockedRowExists, AnalysisSucceeds, Goto, requestVars, faultVars
  <2>18. ASSUME NEW w \in Workers, DeadlockAbortsAnalysis(w)
       PROVE  Final
    BY <2>18 DEF LockedRowExists, DeadlockAbortsAnalysis, Release, docVars, requestVars,
      faultVars
  <2>19. ASSUME NEW w \in Workers, NEW v \in Workers, DeadlockAbortsProcessing(w, v)
       PROVE  Final
    BY <2>19 DEF LockedRowExists, DeadlockAbortsProcessing, Release, docVars,
      requestVars, faultVars
  <2>20. ASSUME NEW w \in Workers, FinishSummary(w)
       PROVE  Final
    BY <2>20 DEF LockedRowExists, FinishSummary, Release, docVars, requestVars,
      faultVars
  <2>21. ASSUME NEW w \in Workers, NEW m \in Messages, DropMessage(w, m)
       PROVE  Final
    BY <2>21 DEF LockedRowExists, DropMessage, Take, docVars, workerVars, requestVars,
      faultVars
  <2>22. ASSUME NEW w \in Workers, Redeliver(w)
       PROVE  Final
    BY <2>22 DEF LockedRowExists, Redeliver, Publish, Fault, docVars, workerVars,
      requestVars
  <2>23. ASSUME NEW w \in Workers, CrashWorker(w)
       PROVE  Final
    BY <2>23 DEF LockedRowExists, CrashWorker, Release, Publish, Fault, docVars,
      requestVars
  <2>24. ASSUME NEW w \in Workers, KillTask(w)
       PROVE  Final
    BY <2>24 DEF LockedRowExists, KillTask, Release, Fault, docVars, requestVars
  <2>25. ASSUME NEW r \in Requests, EnqueueFails(r)
       PROVE  Final
    BY <2>25 DEF LockedRowExists, EnqueueFails, Fault, docVars, workerVars
  <2>26. CASE UNCHANGED vars
    BY <2>26 DEF LockedRowExists, vars, docVars, workerVars, requestVars, faultVars
  <2>27. QED
    BY <2>1, <2>2, <2>3, <2>4, <2>5, <2>6, <2>7, <2>8, <2>9,
       <2>10, <2>11, <2>12, <2>13, <2>14, <2>15, <2>16, <2>17, <2>18,
       <2>19, <2>20, <2>21, <2>22, <2>23, <2>24, <2>25, <2>26
    DEF Next, Handle, Work, Parse, Analysis, Faulty
<1>2. TypeOK /\ LockedRowExists /\ [Next]_vars => [Final]_vars
  BY <1>1
<1>3. QED
  BY <1>2, TypeCorrect, LockedRowsExist, PTL DEF Spec, DeletionIsFinal

\* A document that was never started: no message of it, no task, no handler past
\* its commit.
UploadedIsUntouched ==
    state = "UPLOADED" =>
        /\ \A r \in Requests : request[r] # "marked"
        /\ \A m \in Messages : ready[m] = 0
        /\ \A w \in Workers : pc[w] = "idle"

\* Nothing is under way for a document in UPLOADED.
LEMMA UploadedAreUntouched == Spec => []UploadedIsUntouched
<1>1. Init => UploadedIsUntouched
  BY DEF Init, UploadedIsUntouched
<1>2. TypeOK /\ UploadedIsUntouched /\ [Next]_vars => UploadedIsUntouched'
  <2> SUFFICES ASSUME TypeOK, UploadedIsUntouched, [Next]_vars PROVE UploadedIsUntouched'
    OBVIOUS
  <2> USE DEF UploadedIsUntouched, TypeOK
  <2>1. ASSUME NEW r \in Requests, LoadDocument(r)
       PROVE  UploadedIsUntouched'
    BY <2>1 DEF LoadDocument, docVars, workerVars, faultVars
  <2>2. ASSUME NEW r \in Requests, MarkForProcessing(r)
       PROVE  UploadedIsUntouched'
    BY <2>2 DEF MarkForProcessing, docVars, workerVars, faultVars
  <2>3. ASSUME NEW r \in Requests, EnqueueProcessing(r)
       PROVE  UploadedIsUntouched'
    BY <2>3 DEF EnqueueProcessing, Publish, docVars, workerVars, faultVars
  <2>4. ASSUME DeleteDocument
       PROVE  UploadedIsUntouched'
    BY <2>4 DEF DeleteDocument, workerVars, requestVars, faultVars
  <2>5. ASSUME NEW w \in Workers, NEW m \in ProcessMessages, StartProcess(w, m)
       PROVE  UploadedIsUntouched'
    BY <2>5, MessageTypes DEF StartProcess, Begin, Take, requestVars, faultVars
  <2>6. ASSUME NEW w \in Workers, RetryParse(w)
       PROVE  UploadedIsUntouched'
    BY <2>6 DEF RetryParse, Release, Publish, docVars, requestVars, faultVars
  <2>7. ASSUME NEW w \in Workers, GiveUpParse(w)
       PROVE  UploadedIsUntouched'
    BY <2>7 DEF GiveUpParse, Release, WriteOutcome, requestVars, faultVars
  <2>8. ASSUME NEW w \in Workers, RejectFile(w)
       PROVE  UploadedIsUntouched'
    BY <2>8 DEF RejectFile, Release, WriteOutcome, requestVars, faultVars
  <2>9. ASSUME NEW w \in Workers, ParserRaises(w)
       PROVE  UploadedIsUntouched'
    BY <2>9 DEF ParserRaises, Release, docVars, requestVars, faultVars
  <2>10. ASSUME NEW w \in Workers, DeleteOldBlocks(w)
       PROVE  UploadedIsUntouched'
    BY <2>10 DEF DeleteOldBlocks, Goto, docVars, requestVars, faultVars
  <2>11. ASSUME NEW w \in Workers, StoreOcrRequired(w)
       PROVE  UploadedIsUntouched'
    BY <2>11 DEF StoreOcrRequired, CanStore, Release, requestVars, faultVars
  <2>12. ASSUME NEW w \in Workers, StoreBlocks(w)
       PROVE  UploadedIsUntouched'
    BY <2>12 DEF StoreBlocks, CanStore, Goto, requestVars, faultVars
  <2>13. ASSUME NEW w \in Workers, StoreAborts(w)
       PROVE  UploadedIsUntouched'
    BY <2>13 DEF StoreAborts, Release, docVars, requestVars, faultVars
  <2>14. ASSUME NEW w \in Workers, DispatchAnalysis(w)
       PROVE  UploadedIsUntouched'
    BY <2>14 DEF DispatchAnalysis, Release, Publish, docVars, requestVars, faultVars
  <2>15. ASSUME NEW w \in Workers, StartAnalysis(w)
       PROVE  UploadedIsUntouched'
    BY <2>15, MessageTypes DEF StartAnalysis, Begin, Take, docVars, requestVars,
      faultVars
  <2>16. ASSUME NEW w \in Workers, AnalysisFails(w)
       PROVE  UploadedIsUntouched'
    BY <2>16 DEF AnalysisFails, FailedAnalysis, Release, requestVars, faultVars
  <2>17. ASSUME NEW w \in Workers, NEW partial \in BOOLEAN, NEW found \in BOOLEAN, AnalysisSucceeds(w, partial, found)
       PROVE  UploadedIsUntouched'
    BY <2>17 DEF AnalysisSucceeds, ErrorOfReview, Goto, requestVars, faultVars
  <2>18. ASSUME NEW w \in Workers, DeadlockAbortsAnalysis(w)
       PROVE  UploadedIsUntouched'
    BY <2>18 DEF DeadlockAbortsAnalysis, Release, docVars, requestVars, faultVars
  <2>19. ASSUME NEW w \in Workers, NEW v \in Workers, DeadlockAbortsProcessing(w, v)
       PROVE  UploadedIsUntouched'
    BY <2>19 DEF DeadlockAbortsProcessing, Replacing, Release, docVars, requestVars,
      faultVars
  <2>20. ASSUME NEW w \in Workers, FinishSummary(w)
       PROVE  UploadedIsUntouched'
    BY <2>20 DEF FinishSummary, Release, docVars, requestVars, faultVars
  <2>21. ASSUME NEW w \in Workers, NEW m \in Messages, DropMessage(w, m)
       PROVE  UploadedIsUntouched'
    BY <2>21 DEF DropMessage, Take, docVars, workerVars, requestVars, faultVars
  <2>22. ASSUME NEW w \in Workers, Redeliver(w)
       PROVE  UploadedIsUntouched'
    BY <2>22 DEF Redeliver, Publish, Fault, docVars, workerVars, requestVars
  <2>23. ASSUME NEW w \in Workers, CrashWorker(w)
       PROVE  UploadedIsUntouched'
    BY <2>23 DEF CrashWorker, Release, Publish, Fault, docVars, requestVars
  <2>24. ASSUME NEW w \in Workers, KillTask(w)
       PROVE  UploadedIsUntouched'
    BY <2>24 DEF KillTask, Release, Fault, docVars, requestVars
  <2>25. ASSUME NEW r \in Requests, EnqueueFails(r)
       PROVE  UploadedIsUntouched'
    BY <2>25 DEF EnqueueFails, Fault, docVars, workerVars
  <2>26. CASE UNCHANGED vars
    BY <2>26 DEF vars, docVars, workerVars, requestVars, faultVars
  <2>27. QED
    BY <2>1, <2>2, <2>3, <2>4, <2>5, <2>6, <2>7, <2>8, <2>9,
       <2>10, <2>11, <2>12, <2>13, <2>14, <2>15, <2>16, <2>17, <2>18,
       <2>19, <2>20, <2>21, <2>22, <2>23, <2>24, <2>25, <2>26
    DEF Next, Handle, Work, Parse, Analysis, Faulty
<1>3. QED
  BY <1>1, <1>2, TypeCorrect, PTL DEF Spec

\* A lost piece of evidence stays lost when more is lost.
LEMMA LoseEvidenceTraceable ==
  ASSUME NEW history \in Seq(Jobs),
         \/ LoseEvidence(history) = <<>>
         \/ LoseEvidence(history)[Len(LoseEvidence(history))].evidence # "uncited"
  PROVE  history = <<>> \/ history[Len(history)].evidence # "uncited"
<1>1. LoseEvidence(history) \in Seq(Jobs) /\ Len(LoseEvidence(history)) = Len(history)
  BY LoseEvidenceType
<1>2. CASE history = <<>>
  BY <1>2
<1>3. CASE history # <<>>
  <2>1. Len(history) \in DOMAIN history
    BY <1>3
  <2>2. LoseEvidence(history) # <<>>
    BY <1>1, <1>3
  <2>3. CASE history[Len(history)].evidence = "cited"
    BY <2>3
  <2>4. CASE history[Len(history)].evidence # "cited"
    <3>1. LoseEvidence(history)[Len(history)] = history[Len(history)]
      BY <2>1, <2>4 DEF LoseEvidence
    <3>2. QED
      BY <1>1, <2>2, <3>1
  <2>5. QED
    BY <2>3, <2>4
<1>4. QED
  BY <1>2, <1>3

\* The tasks, the messages and the locks implement the lifecycle that a client of
\* the API sees.
THEOREM PipelineImplementsLifecycle == Spec => ImplementsLifecycle
<1> DEFINE Unseen == UNCHANGED <<state, error, blocks, jobs>>
<1>1. Init => Lifecycle!Init
  BY DEF Init, Lifecycle!Init, Traceable
<1>2. Unseen => UNCHANGED Lifecycle!vars
  BY DEF Lifecycle!vars, Traceable
<1>3. /\ TypeOK /\ AnalysisReadsCurrentBlocks /\ LockedRowExists /\ UploadedIsUntouched
      /\ [Next]_vars
      => Lifecycle!Next \/ Unseen
  <2> SUFFICES ASSUME TypeOK, AnalysisReadsCurrentBlocks, LockedRowExists,
                      UploadedIsUntouched, [Next]_vars
               PROVE  Lifecycle!Next \/ Unseen
    OBVIOUS
  <2>0. /\ \A w \in Workers : pc[w] # "idle" => state # "UPLOADED"
        /\ jobs \in Seq(Jobs)
    BY DEF UploadedIsUntouched, TypeOK
  <2>1. ASSUME NEW r \in Requests, LoadDocument(r)
       PROVE  Lifecycle!Next \/ Unseen
    BY <2>1 DEF LoadDocument, docVars, workerVars, faultVars
  <2>2. ASSUME NEW r \in Requests, MarkForProcessing(r)
       PROVE  Lifecycle!Next \/ Unseen
    <3>1. Lifecycle!Start \/ Unseen
      BY <2>0, <2>2 DEF MarkForProcessing, docVars, Lifecycle!Start, Traceable
    <3>2. QED
      BY <3>1 DEF Lifecycle!Next
  <2>3. ASSUME NEW r \in Requests, EnqueueProcessing(r)
       PROVE  Lifecycle!Next \/ Unseen
    BY <2>3 DEF EnqueueProcessing, Publish, docVars, workerVars, faultVars
  <2>4. ASSUME DeleteDocument
       PROVE  Lifecycle!Next \/ Unseen
    <3>1. Lifecycle!Delete \/ Unseen
      BY <2>0, <2>4 DEF DeleteDocument, Lifecycle!Delete, Traceable
    <3>2. QED
      BY <3>1 DEF Lifecycle!Next
  <2>5. ASSUME NEW w \in Workers, NEW m \in ProcessMessages, StartProcess(w, m)
       PROVE  Lifecycle!Next \/ Unseen
    <3>1. Lifecycle!Start \/ Unseen
      BY <2>0, <2>5 DEF StartProcess, Begin, Lifecycle!Start, Traceable
    <3>2. QED
      BY <3>1 DEF Lifecycle!Next
  <2>6. ASSUME NEW w \in Workers, RetryParse(w)
       PROVE  Lifecycle!Next \/ Unseen
    BY <2>6 DEF RetryParse, Release, Publish, docVars, requestVars, faultVars
  <2>7. ASSUME NEW w \in Workers, GiveUpParse(w)
       PROVE  Lifecycle!Next \/ Unseen
    <3>1. Lifecycle!RejectFile \/ Unseen
      BY <2>0, <2>7 DEF GiveUpParse, WriteOutcome, Lifecycle!RejectFile,
        Lifecycle!Begun, Lifecycle!ParseErrors, Traceable
    <3>2. QED
      BY <3>1 DEF Lifecycle!Next
  <2>8. ASSUME NEW w \in Workers, RejectFile(w)
       PROVE  Lifecycle!Next \/ Unseen
    <3>1. Lifecycle!RejectFile \/ Unseen
      BY <2>0, <2>8 DEF RejectFile, WriteOutcome, Lifecycle!RejectFile, Lifecycle!Begun,
        Lifecycle!ParseErrors, Traceable
    <3>2. QED
      BY <3>1 DEF Lifecycle!Next
  <2>9. ASSUME NEW w \in Workers, ParserRaises(w)
       PROVE  Lifecycle!Next \/ Unseen
    BY <2>9 DEF ParserRaises, Release, docVars, requestVars, faultVars
  <2>10. ASSUME NEW w \in Workers, DeleteOldBlocks(w)
       PROVE  Lifecycle!Next \/ Unseen
    BY <2>10 DEF DeleteOldBlocks, Goto, docVars, requestVars, faultVars
  <2>11. ASSUME NEW w \in Workers, StoreOcrRequired(w)
       PROVE  Lifecycle!Next \/ Unseen
    <3>1. Traceable' => Traceable
      BY <2>0, <2>11, LoseEvidenceTraceable DEF StoreOcrRequired, Traceable
    <3>2. Len(jobs') = Len(jobs)
      BY <2>0, <2>11, LoseEvidenceType DEF StoreOcrRequired
    <3>3. blocks' = 0
      BY <2>11 DEF StoreOcrRequired, TypeOK
    <3>4. Lifecycle!ReplaceText
      BY <2>0, <2>11, <3>1, <3>2, <3>3 DEF StoreOcrRequired, CanStore,
        Lifecycle!ReplaceText, Lifecycle!Begun
    <3>5. QED
      BY <3>4 DEF Lifecycle!Next
  <2>12. ASSUME NEW w \in Workers, StoreBlocks(w)
       PROVE  Lifecycle!Next \/ Unseen
    <3>1. Traceable' => Traceable
      BY <2>0, <2>12, LoseEvidenceTraceable DEF StoreBlocks, Traceable
    <3>2. Len(jobs') = Len(jobs)
      BY <2>0, <2>12, LoseEvidenceType DEF StoreBlocks
    <3>3. blocks' # 0
      BY <2>12 DEF StoreBlocks, TypeOK
    <3>4. Lifecycle!ReplaceText
      BY <2>0, <2>12, <3>1, <3>2, <3>3 DEF StoreBlocks, CanStore, Lifecycle!ReplaceText,
        Lifecycle!Begun
    <3>5. QED
      BY <3>4 DEF Lifecycle!Next
  <2>13. ASSUME NEW w \in Workers, StoreAborts(w)
       PROVE  Lifecycle!Next \/ Unseen
    BY <2>13 DEF StoreAborts, Release, docVars, requestVars, faultVars
  <2>14. ASSUME NEW w \in Workers, DispatchAnalysis(w)
       PROVE  Lifecycle!Next \/ Unseen
    BY <2>14 DEF DispatchAnalysis, Release, Publish, docVars, requestVars, faultVars
  <2>15. ASSUME NEW w \in Workers, StartAnalysis(w)
       PROVE  Lifecycle!Next \/ Unseen
    BY <2>15 DEF StartAnalysis, Begin, Take, docVars, requestVars, faultVars
  <2>16. ASSUME NEW w \in Workers, AnalysisFails(w)
       PROVE  Lifecycle!Next \/ Unseen
    <3> DEFINE job == [state |-> "FAILED", evidence |-> "none"]
    <3>1. job \in Jobs /\ job.evidence # "uncited"
      BY DEF Jobs
    <3>2. jobs' = Append(jobs, job)
      BY <2>16 DEF AnalysisFails, FailedAnalysis
    <3> HIDE DEF job
    <3>3. Len(jobs') = Len(jobs) + 1 /\ jobs'[Len(jobs')] = job
      BY <2>0, <3>1, <3>2, JobHistoryTypes
    <3>4. Traceable' = TRUE
      BY <3>1, <3>3 DEF Traceable
    <3>5. UNCHANGED (blocks # 0)
      BY <2>16 DEF AnalysisFails, FailedAnalysis
    <3>6. Lifecycle!RecordAnalysis
      BY <2>0, <2>16, <3>3, <3>4, <3>5 DEF AnalysisFails, FailedAnalysis,
        AnalysisReadsCurrentBlocks, LockedRowExists, Lifecycle!RecordAnalysis,
        Lifecycle!Begun
    <3>7. QED
      BY <3>6 DEF Lifecycle!Next
  <2>17. ASSUME NEW w \in Workers, NEW partial \in BOOLEAN, NEW found \in BOOLEAN, AnalysisSucceeds(w, partial, found)
       PROVE  Lifecycle!Next \/ Unseen
    <3> DEFINE job == [state |-> IF partial THEN "PARTIAL" ELSE "SUCCEEDED",
                         evidence |-> IF found THEN "cited" ELSE "none"]
    <3>1. job \in Jobs /\ job.evidence # "uncited"
      BY DEF Jobs
    <3>2. jobs' = Append(jobs, job)
      BY <2>17 DEF AnalysisSucceeds, ErrorOfReview
    <3> HIDE DEF job
    <3>3. Len(jobs') = Len(jobs) + 1 /\ jobs'[Len(jobs')] = job
      BY <2>0, <3>1, <3>2, JobHistoryTypes
    <3>4. Traceable' = TRUE
      BY <3>1, <3>3 DEF Traceable
    <3>5. UNCHANGED (blocks # 0)
      BY <2>17 DEF AnalysisSucceeds, ErrorOfReview
    <3>6. Lifecycle!RecordAnalysis
      BY <2>0, <2>17, <3>3, <3>4, <3>5 DEF AnalysisSucceeds, ErrorOfReview,
        AnalysisReadsCurrentBlocks, LockedRowExists, Lifecycle!RecordAnalysis,
        Lifecycle!Begun
    <3>7. QED
      BY <3>6 DEF Lifecycle!Next
  <2>18. ASSUME NEW w \in Workers, DeadlockAbortsAnalysis(w)
       PROVE  Lifecycle!Next \/ Unseen
    BY <2>18 DEF DeadlockAbortsAnalysis, Release, docVars, requestVars, faultVars
  <2>19. ASSUME NEW w \in Workers, NEW v \in Workers, DeadlockAbortsProcessing(w, v)
       PROVE  Lifecycle!Next \/ Unseen
    BY <2>19 DEF DeadlockAbortsProcessing, Replacing, Release, docVars, requestVars,
      faultVars
  <2>20. ASSUME NEW w \in Workers, FinishSummary(w)
       PROVE  Lifecycle!Next \/ Unseen
    BY <2>20 DEF FinishSummary, Release, docVars, requestVars, faultVars
  <2>21. ASSUME NEW w \in Workers, NEW m \in Messages, DropMessage(w, m)
       PROVE  Lifecycle!Next \/ Unseen
    BY <2>21 DEF DropMessage, Take, docVars, workerVars, requestVars, faultVars
  <2>22. ASSUME NEW w \in Workers, Redeliver(w)
       PROVE  Lifecycle!Next \/ Unseen
    BY <2>22 DEF Redeliver, Publish, Fault, docVars, workerVars, requestVars
  <2>23. ASSUME NEW w \in Workers, CrashWorker(w)
       PROVE  Lifecycle!Next \/ Unseen
    BY <2>23 DEF CrashWorker, Release, Publish, Fault, docVars, requestVars
  <2>24. ASSUME NEW w \in Workers, KillTask(w)
       PROVE  Lifecycle!Next \/ Unseen
    BY <2>24 DEF KillTask, Release, Fault, docVars, requestVars
  <2>25. ASSUME NEW r \in Requests, EnqueueFails(r)
       PROVE  Lifecycle!Next \/ Unseen
    BY <2>25 DEF EnqueueFails, Fault, docVars, workerVars
  <2>26. CASE UNCHANGED vars
    BY <2>26 DEF vars, docVars
  <2>27. QED
    BY <2>1, <2>2, <2>3, <2>4, <2>5, <2>6, <2>7, <2>8, <2>9,
       <2>10, <2>11, <2>12, <2>13, <2>14, <2>15, <2>16, <2>17, <2>18,
       <2>19, <2>20, <2>21, <2>22, <2>23, <2>24, <2>25, <2>26
    DEF Next, Handle, Work, Parse, Analysis, Faulty
<1>4. QED
  BY <1>1, <1>2, <1>3, TypeCorrect, AnalysisReadsCurrent, LockedRowsExist,
     UploadedAreUntouched, PTL
  DEF Spec, ImplementsLifecycle, Lifecycle!Spec
===========================================================================
