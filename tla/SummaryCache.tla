---------------------------- MODULE SummaryCache ----------------------------
(***************************************************************************)
(* The cached AI summary of a project: one row of analysis_summaries (one  *)
(* scope of one project), the handlers that find it missing or outdated    *)
(* and schedule its generation, and the Celery task overview.generate_     *)
(* summary that generates it.  The handlers are GET analysis-overview and  *)
(* the tail of run_analysis.                                               *)
(*                                                                         *)
(* The requirements in scope are known by their fingerprint, and so are    *)
(* here the values of source.  They change, and change back (a second      *)
(* requirement is confirmed and then rejected), without any regard to the  *)
(* cache.                                                                  *)
(*                                                                         *)
(* A handler locks the project row from its lock_project_for_summary to    *)
(* its commit.  Nothing but the SELECT ... FOR UPDATE at the start of the  *)
(* task locks the summary row; everybody else writes it through the ORM    *)
(* object loaded earlier, and a later SELECT of the same row in the same   *)
(* session returns that object as it is.  A flush writes the columns whose *)
(* value differs from the loaded one.                                      *)
(***************************************************************************)
EXTENDS Integers

CONSTANTS
    Readers,       \* connections that serve GET analysis-overview
    Tails,         \* run_analysis tasks past their commit, each once
    Workers,       \* worker slots for the summary task
    Sources,       \* what the requirements in scope may be
    Takes,         \* the model does not give the same answer twice
    MaxEdits,      \* bound on changes of the requirements
    MaxFaults,     \* bound on redeliveries, crashes and refused messages
    None

ASSUME ConstantsAssumption ==
    /\ Readers \cap Tails = {}
    /\ (Readers \cup Tails) \cap Workers = {}
    /\ None \notin Sources
    /\ MaxEdits \in Nat /\ MaxFaults \in Nat

VARIABLES
    source,      \* the requirements in scope
    row,         \* the row of analysis_summaries
    queue,       \* copies of the message for each fingerprint
    step,        \* where each handler and each worker is
    expected,    \* the fingerprint each of them works with
    copy,        \* the ORM object each of them holds
    edits, faults,
    lost,        \* history: a message was lost for good, or refused to a tail
    abandoned    \* history: a task left the row RUNNING as obsolete

Handlers == Readers \cup Tails
handlerVars == <<step, expected, copy>>
boundVars == <<edits, faults, lost, abandoned>>
vars == <<source, row, queue, handlerVars, boundVars>>

UnsettledStates == {"PENDING", "RUNNING"}
SummaryStates == UnsettledStates \cup {"SUCCEEDED", "FAILED"}
ErrorCodes == {"none", "summary_queue_failed", "summary_failed"}

\* What the model made of the requirements it was given.
Answers == [of : Sources, take : Takes]

ASSUME NoneAssumption == None \notin Answers

\* fingerprint is source_fingerprint, label is highlights_fingerprint.
Rows == [fingerprint : Sources, state : SummaryStates, error : ErrorCodes,
         highlights : Answers \cup {None}, label : Sources \cup {None}]
NoRow == [fingerprint |-> None, state |-> "none", error |-> "none",
          highlights |-> None, label |-> None]

Init ==
    /\ source \in Sources
    /\ row = NoRow
    /\ queue = [f \in Sources |-> 0]
    /\ step = [p \in Handlers \cup Workers |-> "idle"]
    /\ expected = [p \in Handlers \cup Workers |-> None]
    /\ copy = [p \in Handlers \cup Workers |-> NoRow]
    /\ edits = 0 /\ faults = 0 /\ lost = FALSE /\ abandoned = FALSE

----------------------------------------------------------------------------
(* The session, the project lock and the broker.                           *)

\* The row after a flush of an object loaded as "loaded" and changed to "new".
Flush(loaded, new) ==
    [column \in DOMAIN row |-> IF new[column] = loaded[column] THEN row[column]
                               ELSE new[column]]

NoLock == TRUE
ProjectUnlocked == \A h \in Handlers : step[h] \notin {"locked", "read"}

Goto(p, label) == step' = [step EXCEPT ![p] = label]

\* The request or the task is over; a tail is not used again.
FinishKeepsCopy(p) ==
    /\ step' = [step EXCEPT ![p] = IF p \in Tails THEN "done" ELSE "idle"]
    /\ expected' = [expected EXCEPT ![p] = None]
    /\ UNCHANGED copy
Finish(p) ==
    /\ step' = [step EXCEPT ![p] = IF p \in Tails THEN "done" ELSE "idle"]
    /\ expected' = [expected EXCEPT ![p] = None]
    /\ copy' = [copy EXCEPT ![p] = NoRow]

\* PATCH requirement, another document's analysis or deletion.
EditRequirements ==
    /\ edits < MaxEdits /\ edits' = edits + 1
    /\ source' \in Sources \ {source}
    /\ UNCHANGED <<row, queue, handlerVars, faults, lost, abandoned>>

----------------------------------------------------------------------------
(* Scheduling: get_analysis_overview and the tail of run_analysis.         *)

\* GET locks the project first and loads the requirements then.
LockAndLoad(r) ==
    /\ step[r] = "idle"
    /\ ProjectUnlocked
    /\ Goto(r, "locked")
    /\ expected' = [expected EXCEPT ![r] = source]
    /\ UNCHANGED <<source, row, queue, copy, boundVars>>

\* The tail loads the requirements first.
LoadInputs(t) ==
    /\ step[t] = "idle"
    /\ Goto(t, "loaded")
    /\ expected' = [expected EXCEPT ![t] = source]
    /\ UNCHANGED <<source, row, queue, copy, boundVars>>

LockProject(t) ==
    /\ step[t] = "loaded"
    /\ ProjectUnlocked
    /\ Goto(t, "locked")
    /\ UNCHANGED <<source, row, queue, expected, copy, boundVars>>

\* The SELECT of ensure_summary_cache, which takes no row lock.
ReadSummary(h) ==
    /\ step[h] = "locked"
    /\ Goto(h, "read")
    /\ copy' = [copy EXCEPT ![h] = row]
    /\ UNCHANGED <<source, row, queue, expected, boundVars>>

NeedsSchedule(h) ==
    \/ copy[h] = NoRow
    \/ copy[h].fingerprint # expected[h]
    \/ copy[h].state = "FAILED" /\ copy[h].error = "summary_queue_failed"

\* A new row, or the old one with its highlights kept until new ones are there.
RescheduledEmpty(old, f) ==
    [old EXCEPT !.fingerprint = f, !.state = "PENDING", !.error = "none",
                !.highlights = None, !.label = None]
Rescheduled(old, f) ==
    [old EXCEPT !.fingerprint = f, !.state = "PENDING", !.error = "none"]

EnsureSummaryCache(h) ==
    LET new == Rescheduled(copy[h], expected[h]) IN
    /\ step[h] = "read"
    /\ NeedsSchedule(h)
    /\ row' = Flush(copy[h], new)
    /\ copy' = [copy EXCEPT ![h] = new]
    /\ Goto(h, "publish")
    /\ UNCHANGED <<source, queue, expected, boundVars>>

KeepSummary(h) ==
    /\ step[h] = "read"
    /\ ~NeedsSchedule(h)
    /\ Finish(h)
    /\ UNCHANGED <<source, row, queue, boundVars>>

\* run_summary.delay, after the commit.
Publish(h) ==
    /\ step[h] = "publish"
    /\ queue' = [queue EXCEPT ![expected[h]] = @ + 1]
    /\ Finish(h)
    /\ UNCHANGED <<source, row, boundVars>>

\* The broker refuses.  GET still has its object; the tail has dropped it and
\* selects the row again, by now without the project lock.
PublishFails(h) ==
    /\ faults < MaxFaults /\ faults' = faults + 1
    /\ lost' = (lost \/ h \in Tails)
    /\ step[h] = "publish"
    /\ Goto(h, "refused")
    /\ copy' = IF h \in Tails THEN [copy EXCEPT ![h] = row] ELSE copy
    /\ UNCHANGED <<source, row, queue, expected, edits, abandoned>>

\* The row that a tail selects again may be of another fingerprint by now.
Refused(old, f) ==
    [old EXCEPT !.fingerprint = f, !.state = "FAILED", !.error = "summary_queue_failed"]

\* The tail runs ensure_summary_cache once more before it reports the failure.
RecordNothing(h) ==
    /\ step[h] = "refused"
    /\ Finish(h)
    /\ UNCHANGED <<source, row, queue, boundVars>>
RecordQueueFailure(h) ==
    /\ step[h] = "refused"
    /\ row' = Flush(copy[h], Refused(copy[h], expected[h]))
    /\ Finish(h)
    /\ UNCHANGED <<source, queue, boundVars>>

----------------------------------------------------------------------------
(* overview.generate_summary.                                              *)

Take(f) == queue[f] > 0 /\ queue' = [queue EXCEPT ![f] = @ - 1]

Running(old) == [old EXCEPT !.state = "RUNNING", !.error = "none"]
Succeeded(old, answer) ==
    [old EXCEPT !.state = "SUCCEEDED", !.highlights = answer, !.label = answer.of]
Failed(old) == [old EXCEPT !.state = "FAILED", !.error = "summary_failed"]

\* Obsolete already, or done already.
SkipSummary(w, f) ==
    /\ step[w] = "idle"
    /\ Take(f)
    /\ row.fingerprint # f \/ row.state = "SUCCEEDED"
    /\ UNCHANGED <<source, row, handlerVars, boundVars>>

\* The check and the change to RUNNING are made under the row lock.
StartSummary(w, f) ==
    /\ step[w] = "idle"
    /\ Take(f)
    /\ row.fingerprint = f /\ row.state # "SUCCEEDED"
    /\ row' = Running(row)
    /\ Goto(w, "begun")
    /\ expected' = [expected EXCEPT ![w] = f]
    /\ copy' = [copy EXCEPT ![w] = row']
    /\ UNCHANGED <<source, boundVars>>

LoadRequirements(w) ==
    /\ step[w] = "begun"
    /\ source = expected[w]
    /\ Goto(w, "generating")
    /\ UNCHANGED <<source, row, queue, expected, copy, boundVars>>

\* "obsolete": the task returns and the row stays as it is.
FindObsolete(w) ==
    /\ step[w] = "begun"
    /\ source # expected[w]
    /\ Finish(w)
    /\ abandoned' = (abandoned \/ row.fingerprint = expected[w])
    /\ UNCHANGED <<source, row, queue, edits, faults, lost>>

\* The fingerprint that is compared once more is the one of the held object.
SaveSummary(w, take) ==
    LET answer == [of |-> expected[w], take |-> take] IN
    /\ step[w] = "generating"
    /\ row' = Flush(copy[w], Succeeded(copy[w], answer))
    /\ Finish(w)
    /\ UNCHANGED <<source, queue, boundVars>>

\* The provider raises, or none of its highlights is valid.
SaveFailure(w) ==
    /\ step[w] = "generating"
    /\ row' = Flush(copy[w], Failed(copy[w]))
    /\ Finish(w)
    /\ UNCHANGED <<source, queue, boundVars>>

----------------------------------------------------------------------------
(* Faults.                                                                 *)

Fault(losing) ==
    /\ faults < MaxFaults /\ faults' = faults + 1
    /\ lost' = (lost \/ losing)
    /\ UNCHANGED <<edits, abandoned>>

\* The visibility timeout of the broker.
Redeliver(w) ==
    /\ Fault(FALSE)
    /\ step[w] # "idle"
    /\ queue' = [queue EXCEPT ![expected[w]] = @ + 1]
    /\ UNCHANGED <<source, row, handlerVars>>

\* acks_late keeps the message of a worker that dies.
CrashWorker(w) ==
    /\ Fault(FALSE)
    /\ step[w] # "idle"
    /\ queue' = [queue EXCEPT ![expected[w]] = @ + 1]
    /\ Finish(w)
    /\ UNCHANGED <<source, row>>

\* A pool process dies, or a handler between its commit and its message.
Die(p) ==
    /\ Fault(TRUE)
    /\ step[p] \in {"begun", "generating", "publish", "refused"}
    /\ Finish(p)
    /\ UNCHANGED <<source, row, queue>>

----------------------------------------------------------------------------
Schedule(h) ==
    \/ h \in Readers /\ LockAndLoad(h)
    \/ h \in Tails /\ (LoadInputs(h) \/ LockProject(h))
    \/ ReadSummary(h)
    \/ EnsureSummaryCache(h)
    \/ KeepSummary(h)
    \/ Publish(h)
    \/ PublishFails(h)
    \/ RecordQueueFailure(h)

RunSummary(w) ==
    \/ \E f \in Sources : SkipSummary(w, f) \/ StartSummary(w, f)
    \/ LoadRequirements(w)
    \/ FindObsolete(w)
    \/ \E take \in Takes : SaveSummary(w, take)
    \/ SaveFailure(w)

Faulty ==
    \/ \E w \in Workers : Redeliver(w) \/ CrashWorker(w)
    \/ \E p \in Handlers \cup Workers : Die(p)

Next ==
    \/ EditRequirements
    \/ \E h \in Handlers : Schedule(h)
    \/ \E w \in Workers : RunSummary(w)
    \/ Faulty

Spec == Init /\ [][Next]_vars

\* What has begun goes on, and a worker takes the messages there are; nobody is
\* obliged to open the page or to refuse a message.
Fairness ==
    /\ \A h \in Handlers : WF_vars(step[h] # "idle" /\ Schedule(h))
    /\ \A w \in Workers : WF_vars(RunSummary(w))

FairSpec == Spec /\ Fairness

----------------------------------------------------------------------------
(* Properties.                                                             *)

\* Every variable has its type, and whoever is between requests holds nothing.
TypeOK ==
    /\ source \in Sources
    /\ row \in Rows \cup {NoRow}
    /\ queue \in [Sources -> Nat]
    /\ step \in [Handlers \cup Workers ->
                    {"idle", "loaded", "locked", "read", "publish", "refused", "done",
                     "begun", "generating"}]
    /\ expected \in [Handlers \cup Workers -> Sources \cup {None}]
    /\ copy \in [Handlers \cup Workers -> Rows \cup {NoRow}]
    /\ \A p \in Handlers \cup Workers :
           step[p] \in {"idle", "done"} <=> expected[p] = None
    /\ \A p \in Handlers \cup Workers : expected[p] = None => copy[p] = NoRow
    /\ edits \in 0..MaxEdits /\ faults \in 0..MaxFaults
    /\ lost \in BOOLEAN /\ abandoned \in BOOLEAN

\* Somebody will still settle the row for fingerprint f.
Owned(f) ==
    \/ queue[f] > 0
    \/ \E h \in Handlers : step[h] \in {"publish", "refused"} /\ expected[h] = f
    \/ \E w \in Workers : step[w] \in {"begun", "generating"} /\ expected[w] = f

\* A summary that the page shows as pending or running, and that no request will
\* schedule again, has a message, a scheduler or a task behind it, unless one of
\* them died for good or returned as obsolete, or a tail's message was refused:
\* what it then writes can be half of what a task or a GET writes meanwhile.
UnsettledIsOwned ==
    row.state \in UnsettledStates /\ ~lost /\ ~abandoned => Owned(row.fingerprint)

\* A summary reported as succeeded has highlights to show, although tasks for
\* older fingerprints finish late and write only some of the columns.
SucceededHasHighlights == row.state = "SUCCEEDED" => row.highlights # None

\* Two handlers that both find no row never both insert one
\* (uq_analysis_summaries_scope): the project lock keeps them apart.
CreatorIsAlone == \A h \in Handlers : step[h] = "read" /\ copy[h] = NoRow => row = NoRow

\* The page, which is polled while a summary is pending or running, gets its
\* result or an error in the end, with the same exceptions.
SummarySettles ==
    row.state \in UnsettledStates ~> row.state \notin UnsettledStates \/ lost \/ abandoned

----------------------------------------------------------------------------
(* Claims of the documentation that the code does not keep.                *)

\* Design of the overview: a read that finds the cached result stale has its
\* regeneration scheduled, so one that has not failed is on its way.
StaleIsBeingRefreshed ==
    row.state # "FAILED" /\ row.highlights # None /\ row.label # row.fingerprint =>
        Owned(row.fingerprint) \/ lost \/ abandoned

\* Design of the overview: a result is stored atomically, so the highlights are
\* those generated from the requirements that the row says they are of.
ResultIsStoredWhole == row.highlights # None => row.label = row.highlights.of
============================================================================
