------------------------- MODULE DocumentLifecycle -------------------------
(***************************************************************************)
(* What a client of the API may rely on about one document, whoever        *)
(* processes it, however often and in whatever order: its state and error  *)
(* code, whether its text is stored, how many analyses have been recorded  *)
(* and whether the last of them can still be traced into the stored text.  *)
(* DocumentPipeline implements this specification.                         *)
(***************************************************************************)
EXTENDS Integers

VARIABLES
    state,       \* documents.state, "DELETED" once the row is gone
    error,       \* documents.error_code
    text,        \* blocks of the document are stored
    outcomes,    \* how many analyses have been recorded
    traceable    \* no requirement of the last analysis has lost its evidence

vars == <<state, error, text, outcomes, traceable>>

ParseErrors == {"storage_unavailable", "parse_error"}

Init ==
    /\ state = "UPLOADED" /\ error = "none"
    /\ text = FALSE
    /\ outcomes = 0 /\ traceable = TRUE

\* Processing has begun before: an uploaded document only waits.
Begun == state \notin {"UPLOADED", "DELETED"}

\* Processing starts, or starts over, with or without the old error code.
Start ==
    /\ state # "DELETED"
    /\ state' = "PARSING"
    /\ error' \in {"none", error}
    /\ UNCHANGED <<text, outcomes, traceable>>

RejectFile ==
    /\ Begun
    /\ state' = "FAILED" /\ error' \in ParseErrors
    /\ UNCHANGED <<text, outcomes, traceable>>

\* New text: the evidence in the old text is gone, and nothing restores it.
ReplaceText ==
    /\ Begun
    /\ traceable' => traceable
    /\ \/ state' = "OCR_REQUIRED" /\ error' = "ocr_required" /\ text' = FALSE
       \/ state' = "ANALYZING" /\ error' = error /\ text' = TRUE
    /\ UNCHANGED outcomes

\* An analysis is recorded in the same step as the state and error it leads to,
\* and a reviewable one is of the text stored at that moment.
RecordAnalysis ==
    /\ Begun
    /\ \/ text /\ state' = "REVIEW_REQUIRED" /\ error' = "none"
       \/ text /\ state' = "PARTIAL" /\ error' = "analysis_partial"
       \/ state' = "FAILED" /\ error' = "analysis_failed"
    /\ outcomes' = outcomes + 1
    /\ traceable' = TRUE
    /\ UNCHANGED text

Delete ==
    /\ state # "DELETED"
    /\ state' = "DELETED" /\ error' = "none"
    /\ text' = FALSE
    /\ outcomes' = 0 /\ traceable' = TRUE

Next == Start \/ RejectFile \/ ReplaceText \/ RecordAnalysis \/ Delete

Spec == Init /\ [][Next]_vars
===========================================================================
