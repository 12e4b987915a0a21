------------------------ MODULE SummaryCacheProofs ------------------------
(***************************************************************************)
(* Safety of the summary cache for any number of readers, tails, workers   *)
(* and fingerprints, and any bounds on edits and faults.                   *)
(***************************************************************************)
EXTENDS SummaryCache, TLAPS

USE DEF UnsettledStates, SummaryStates, ErrorCodes

----------------------------------------------------------------------------
(* Rows, objects and flushes.                                              *)

\* The absent row is not a row, and no answer is not an answer.
LEMMA Absence == NoRow \notin Rows /\ None \notin Answers /\ None \notin Sources
BY ConstantsAssumption, NoneAssumption DEF NoRow, Rows

\* A row written over a row, column by column, is a row, and each of its columns
\* is the new one where the object was changed and the stored one elsewhere.
LEMMA FlushType ==
    ASSUME row \in Rows, NEW loaded \in Rows, NEW new \in Rows
    PROVE  /\ Flush(loaded, new) \in Rows
           /\ Flush(loaded, new).fingerprint =
                  IF new.fingerprint = loaded.fingerprint THEN row.fingerprint
                  ELSE new.fingerprint
           /\ Flush(loaded, new).state =
                  IF new.state = loaded.state THEN row.state ELSE new.state
           /\ Flush(loaded, new).highlights =
                  IF new.highlights = loaded.highlights THEN row.highlights
                  ELSE new.highlights
<1>1. DOMAIN row = {"fingerprint", "state", "error", "highlights", "label"}
  BY DEF Rows
<1> DEFINE value(column) == IF new[column] = loaded[column] THEN row[column] ELSE new[column]
<1>2. /\ value("fingerprint") \in Sources
      /\ value("state") \in SummaryStates
      /\ value("error") \in ErrorCodes
      /\ value("highlights") \in Answers \cup {None}
      /\ value("label") \in Sources \cup {None}
  BY DEF Rows
<1>3. Flush(loaded, new) = [column \in {"fingerprint", "state", "error", "highlights", "label"} |->
                                value(column)]
  BY <1>1 DEF Flush
<1> HIDE DEF value
<1>4. Flush(loaded, new) \in Rows
  BY <1>2, <1>3 DEF Rows
<1>5. /\ Flush(loaded, new).fingerprint = value("fingerprint")
      /\ Flush(loaded, new).state = value("state")
      /\ Flush(loaded, new).highlights = value("highlights")
  BY <1>3
<1> QED BY <1>4, <1>5 DEF value

\* A rescheduled row is pending for the given fingerprint, with its old highlights.
LEMMA RescheduledType ==
    ASSUME NEW old \in Rows \cup {NoRow}, NEW f \in Sources
    PROVE  /\ Rescheduled(old, f) \in Rows
           /\ Rescheduled(old, f).fingerprint = f
           /\ Rescheduled(old, f).state = "PENDING"
           /\ Rescheduled(old, f).error = "none"
           /\ Rescheduled(old, f).highlights = old.highlights
           /\ Rescheduled(old, f).label = old.label
<1> DEFINE first == [old EXCEPT !.fingerprint = f]
           second == [first EXCEPT !.state = "PENDING"]
           third == [second EXCEPT !.error = "none"]
<1>1. /\ first \in [fingerprint : Sources, state : SummaryStates \cup {"none"},
                    error : ErrorCodes, highlights : Answers \cup {None},
                    label : Sources \cup {None}]
      /\ first.fingerprint = f
      /\ first.highlights = old.highlights /\ first.label = old.label
  <2>1. CASE old = NoRow
    BY <2>1 DEF NoRow
  <2>2. CASE old \in Rows
    BY <2>2 DEF Rows
  <2> QED BY <2>1, <2>2
<1> HIDE DEF first
<1>2. /\ second \in Rows /\ second.fingerprint = f /\ second.state = "PENDING"
      /\ second.highlights = old.highlights /\ second.label = old.label
  BY <1>1 DEF Rows
<1> HIDE DEF second
<1>3. /\ third \in Rows /\ third.fingerprint = f /\ third.state = "PENDING"
      /\ third.error = "none"
      /\ third.highlights = old.highlights /\ third.label = old.label
  BY <1>2 DEF Rows
<1>4. Rescheduled(old, f) = third
  BY DEF Rescheduled, first, second, third
<1> QED BY <1>3, <1>4

\* The first flush of a new row inserts it as it is.
LEMMA CreatedType ==
    ASSUME row = NoRow, NEW f \in Sources
    PROVE  /\ Flush(NoRow, Rescheduled(NoRow, f)) \in Rows
           /\ Flush(NoRow, Rescheduled(NoRow, f)).fingerprint = f
           /\ Flush(NoRow, Rescheduled(NoRow, f)).state = "PENDING"
           /\ Flush(NoRow, Rescheduled(NoRow, f)).highlights = None
<1> DEFINE new == Rescheduled(NoRow, f)
           value(column) == IF new[column] = NoRow[column] THEN NoRow[column] ELSE new[column]
<1>1. /\ new.fingerprint = f /\ new.state = "PENDING" /\ new.error = "none"
      /\ new.highlights = None /\ new.label = None
  BY RescheduledType DEF NoRow
<1>2. Flush(NoRow, new) = [column \in {"fingerprint", "state", "error", "highlights", "label"} |->
                              value(column)]
  BY DEF Flush, NoRow
<1> HIDE DEF new
<1>3. /\ value("fingerprint") = f /\ value("state") = "PENDING" /\ value("error") = "none"
      /\ value("highlights") = None /\ value("label") = None
  BY <1>1, Absence DEF NoRow
<1> HIDE DEF value
<1>4. Flush(NoRow, new) \in Rows
  BY <1>2, <1>3 DEF Rows
<1>5. /\ Flush(NoRow, new).fingerprint = value("fingerprint")
      /\ Flush(NoRow, new).state = value("state")
      /\ Flush(NoRow, new).highlights = value("highlights")
  BY <1>2
<1> QED BY <1>3, <1>4, <1>5 DEF new

\* What a task writes on success.
LEMMA SavedType ==
    ASSUME NEW held \in Rows, NEW answer \in Answers
    PROVE  /\ Succeeded(held, answer) \in Rows
           /\ Succeeded(held, answer).fingerprint = held.fingerprint
           /\ Succeeded(held, answer).state = "SUCCEEDED"
           /\ Succeeded(held, answer).highlights = answer
<1> DEFINE first == [held EXCEPT !.state = "SUCCEEDED"]
           second == [first EXCEPT !.highlights = answer]
           third == [second EXCEPT !.label = answer.of]
<1>0. answer.of \in Sources
  BY DEF Answers
<1>1. first \in Rows /\ first.fingerprint = held.fingerprint /\ first.state = "SUCCEEDED"
  BY DEF Rows
<1> HIDE DEF first
<1>2. /\ second \in Rows /\ second.fingerprint = held.fingerprint
      /\ second.state = "SUCCEEDED" /\ second.highlights = answer
  BY <1>1 DEF Rows
<1> HIDE DEF second
<1>3. /\ third \in Rows /\ third.fingerprint = held.fingerprint
      /\ third.state = "SUCCEEDED" /\ third.highlights = answer
  BY <1>0, <1>2 DEF Rows
<1>4. Succeeded(held, answer) = third
  BY DEF Succeeded, first, second, third
<1> QED BY <1>3, <1>4

\* What a task writes on its start.
LEMMA RunningType ==
    ASSUME NEW held \in Rows
    PROVE  /\ Running(held) \in Rows
           /\ Running(held).fingerprint = held.fingerprint
           /\ Running(held).state = "RUNNING"
           /\ Running(held).highlights = held.highlights
<1> DEFINE first == [held EXCEPT !.state = "RUNNING"]
           second == [first EXCEPT !.error = "none"]
<1>1. /\ first \in Rows /\ first.fingerprint = held.fingerprint /\ first.state = "RUNNING"
      /\ first.highlights = held.highlights
  BY DEF Rows
<1> HIDE DEF first
<1>2. /\ second \in Rows /\ second.fingerprint = held.fingerprint
      /\ second.state = "RUNNING" /\ second.highlights = held.highlights
  BY <1>1 DEF Rows
<1>3. Running(held) = second
  BY DEF Running, first, second
<1> QED BY <1>2, <1>3

\* What a task writes on failure.
LEMMA FailedType ==
    ASSUME NEW held \in Rows
    PROVE  /\ Failed(held) \in Rows
           /\ Failed(held).fingerprint = held.fingerprint
           /\ Failed(held).state = "FAILED"
           /\ Failed(held).highlights = held.highlights
<1> DEFINE first == [held EXCEPT !.state = "FAILED"]
           second == [first EXCEPT !.error = "summary_failed"]
<1>1. /\ first \in Rows /\ first.fingerprint = held.fingerprint /\ first.state = "FAILED"
      /\ first.highlights = held.highlights
  BY DEF Rows
<1> HIDE DEF first
<1>2. /\ second \in Rows /\ second.fingerprint = held.fingerprint
      /\ second.state = "FAILED" /\ second.highlights = held.highlights
  BY <1>1 DEF Rows
<1>3. Failed(held) = second
  BY DEF Failed, first, second
<1> QED BY <1>2, <1>3

\* What a handler writes whose message was refused.
LEMMA RefusedType ==
    ASSUME NEW held \in Rows, NEW f \in Sources
    PROVE  /\ Refused(held, f) \in Rows
           /\ Refused(held, f).fingerprint = f
           /\ Refused(held, f).state = "FAILED"
           /\ Refused(held, f).highlights = held.highlights
<1> DEFINE first == [held EXCEPT !.fingerprint = f]
           second == [first EXCEPT !.state = "FAILED"]
           third == [second EXCEPT !.error = "summary_queue_failed"]
<1>1. first \in Rows /\ first.fingerprint = f /\ first.highlights = held.highlights
  BY DEF Rows
<1> HIDE DEF first
<1>2. /\ second \in Rows /\ second.fingerprint = f /\ second.state = "FAILED"
      /\ second.highlights = held.highlights
  BY <1>1 DEF Rows
<1> HIDE DEF second
<1>3. /\ third \in Rows /\ third.fingerprint = f /\ third.state = "FAILED"
      /\ third.highlights = held.highlights
  BY <1>2 DEF Rows
<1>4. Refused(held, f) = third
  BY DEF Refused, first, second, third
<1> QED BY <1>3, <1>4

----------------------------------------------------------------------------
(* Types, locks and held objects.                                          *)

Processes == Handlers \cup Workers
Scheduling == {"locked", "read"}
Holding == {"publish", "refused", "begun", "generating"}

\* Handlers and workers are in steps of their own.
StepsFit ==
    /\ \A h \in Handlers : step[h] \in {"idle", "loaded", "locked", "read", "publish",
                                        "refused", "done"}
    /\ \A w \in Workers : step[w] \in {"idle", "begun", "generating"}

\* An object is one of a stored row, and whoever will write has one.
CopiesAreOfRows ==
    \A p \in Processes : /\ copy[p] # NoRow => row \in Rows
                         /\ step[p] \in Holding => copy[p] \in Rows

\* The project lock.
OneScheduler ==
    \A g, h \in Handlers : step[g] \in Scheduling /\ step[h] \in Scheduling => g = h

LocksInv == TypeOK /\ StepsFit /\ CopiesAreOfRows /\ OneScheduler /\ CreatorIsAlone

\* Nothing is held and nothing is stored at first.
LEMMA LocksInit == Init => LocksInv
<1> SUFFICES ASSUME Init PROVE LocksInv
  OBVIOUS
<1>1. \A p \in Handlers \cup Workers : step[p] = "idle" /\ expected[p] = None /\ copy[p] = NoRow
  BY DEF Init
<1>2. TypeOK
  <2>1. source \in Sources /\ row = NoRow /\ queue \in [Sources -> Nat]
    BY DEF Init
  <2>2. /\ step \in [Handlers \cup Workers -> {"idle"}]
        /\ expected \in [Handlers \cup Workers -> {None}]
        /\ copy \in [Handlers \cup Workers -> {NoRow}]
    BY DEF Init
  <2>3. edits \in 0..MaxEdits /\ faults \in 0..MaxFaults
    BY ConstantsAssumption DEF Init
  <2>4. lost \in BOOLEAN /\ abandoned \in BOOLEAN
    BY Zenon DEF Init
  <2> QED BY <1>1, <2>1, <2>2, <2>3, <2>4 DEF TypeOK
<1>3. StepsFit /\ CopiesAreOfRows
  BY <1>1 DEF StepsFit, CopiesAreOfRows, Processes, Holding
<1>4. OneScheduler /\ CreatorIsAlone
  BY <1>1 DEF OneScheduler, CreatorIsAlone, Scheduling
<1> QED BY <1>2, <1>3, <1>4 DEF LocksInv

\* Whoever finishes holds nothing any more.
LEMMA FinishStep ==
    ASSUME LocksInv, NEW p \in Processes, Finish(p), row' \in Rows \cup {NoRow},
           row \in Rows => row' \in Rows, row = NoRow => row' = NoRow,
           UNCHANGED source, queue' \in [Sources -> Nat],
           edits' \in 0..MaxEdits, faults' \in 0..MaxFaults,
           lost' \in BOOLEAN, abandoned' \in BOOLEAN
    PROVE  LocksInv'
<1> USE DEF LocksInv, Processes
<1>1. /\ \A q \in Processes : q # p => step'[q] = step[q] /\ expected'[q] = expected[q]
                                        /\ copy'[q] = copy[q]
      /\ step'[p] = (IF p \in Tails THEN "done" ELSE "idle")
      /\ expected'[p] = None /\ copy'[p] = NoRow
  BY DEF Finish, TypeOK
<1>2. TypeOK'
  <2>1. /\ step' \in [Processes -> {"idle", "loaded", "locked", "read", "publish", "refused",
                                    "done", "begun", "generating"}]
        /\ expected' \in [Processes -> Sources \cup {None}]
        /\ copy' \in [Processes -> Rows \cup {NoRow}]
    BY DEF Finish, TypeOK
  <2>2. \A q \in Processes : /\ step'[q] \in {"idle", "done"} <=> expected'[q] = None
                             /\ expected'[q] = None => copy'[q] = NoRow
    BY <1>1 DEF TypeOK
  <2> QED BY <2>1, <2>2 DEF TypeOK
<1>3. StepsFit'
  BY <1>1, ConstantsAssumption DEF StepsFit, Handlers
<1>4. CopiesAreOfRows'
  BY <1>1 DEF CopiesAreOfRows, Holding
<1>5. OneScheduler'
  BY <1>1 DEF OneScheduler, Scheduling
<1>6. CreatorIsAlone'
  BY <1>1 DEF CreatorIsAlone
<1> QED BY <1>2, <1>3, <1>4, <1>5, <1>6
\* Whoever goes on to step l, for fingerprint e and holding c, keeps the locks
\* apart if l is not a second scheduler and c is of a stored row.
LEMMA GoStep ==
    ASSUME LocksInv, NEW p \in Processes, NEW l, NEW e \in Sources,
           NEW c \in Rows \cup {NoRow},
           step' = [step EXCEPT ![p] = l],
           expected' = [expected EXCEPT ![p] = e],
           copy' = [copy EXCEPT ![p] = c],
           p \in Handlers => l \in {"loaded", "locked", "read", "publish", "refused"},
           p \in Workers => l \in {"begun", "generating"},
           row' \in Rows \cup {NoRow}, row \in Rows => row' \in Rows,
           c # NoRow => row' \in Rows, l \in Holding => c \in Rows,
           l \in Scheduling => \A h \in Handlers : step[h] \in Scheduling => h = p,
           l = "read" /\ c = NoRow => row' = NoRow,
           row = NoRow /\ row' # NoRow => \A h \in Handlers : step[h] = "read" => h = p,
           UNCHANGED source, queue' \in [Sources -> Nat],
           edits' \in 0..MaxEdits, faults' \in 0..MaxFaults,
           lost' \in BOOLEAN, abandoned' \in BOOLEAN
    PROVE  LocksInv'
<1> USE DEF LocksInv, Processes
<1>1. /\ \A q \in Processes : q # p => step'[q] = step[q] /\ expected'[q] = expected[q]
                                        /\ copy'[q] = copy[q]
      /\ step'[p] = l /\ expected'[p] = e /\ copy'[p] = c
  BY DEF TypeOK
<1>2. TypeOK'
  <2>1. l \in {"loaded", "locked", "read", "publish", "refused", "begun", "generating"}
    OBVIOUS
  <2>2. /\ step' \in [Processes -> {"idle", "loaded", "locked", "read", "publish", "refused",
                                    "done", "begun", "generating"}]
        /\ expected' \in [Processes -> Sources \cup {None}]
        /\ copy' \in [Processes -> Rows \cup {NoRow}]
    BY <2>1 DEF TypeOK
  <2>3. \A q \in Processes : /\ step'[q] \in {"idle", "done"} <=> expected'[q] = None
                             /\ expected'[q] = None => copy'[q] = NoRow
    BY <1>1, <2>1, Absence DEF TypeOK
  <2> QED BY <2>2, <2>3 DEF TypeOK
<1>3. StepsFit'
  BY <1>1, ConstantsAssumption DEF StepsFit, Handlers
<1>4. CopiesAreOfRows'
  BY <1>1 DEF CopiesAreOfRows
<1>5. OneScheduler'
  BY <1>1 DEF OneScheduler
<1>6. CreatorIsAlone'
  BY <1>1 DEF CreatorIsAlone
<1> QED BY <1>2, <1>3, <1>4, <1>5, <1>6
\* A flush over a stored row of an object of a stored row leaves a stored row.
LEMMA WritesAreRows ==
    ASSUME LocksInv, NEW p \in Processes, step[p] \in Holding
    PROVE  /\ row \in Rows /\ copy[p] \in Rows /\ expected[p] \in Sources
           /\ copy[p] # NoRow
           /\ \A new \in Rows : Flush(copy[p], new) \in Rows
<1>1. copy[p] \in Rows /\ row \in Rows /\ copy[p] # NoRow
  BY Absence DEF LocksInv, CopiesAreOfRows
<1>2. expected[p] \in Sources
  BY DEF LocksInv, TypeOK, Processes, Holding
<1> QED BY <1>1, <1>2, FlushType

\* The locking, writing and finishing of every handler and task keeps all of this.
LEMMA LocksStep == LocksInv /\ [Next]_vars => LocksInv'
<1> SUFFICES ASSUME LocksInv, [Next]_vars PROVE LocksInv'
  OBVIOUS
<1> USE DEF boundVars, handlerVars
<1>0. /\ source \in Sources /\ queue \in [Sources -> Nat] /\ row \in Rows \cup {NoRow}
      /\ edits \in 0..MaxEdits /\ faults \in 0..MaxFaults /\ MaxFaults \in Nat /\ MaxEdits \in Nat
      /\ lost \in BOOLEAN /\ abandoned \in BOOLEAN
      /\ \A p \in Processes : /\ step[p] \notin {"idle", "done"} => expected[p] \in Sources
                              /\ copy[p] \in Rows \cup {NoRow}
  BY ConstantsAssumption DEF LocksInv, TypeOK, Processes
<1>1. ASSUME EditRequirements PROVE LocksInv'
  <2>1. source' \in Sources /\ edits' \in 0..MaxEdits
    BY <1>0, <1>1 DEF EditRequirements
  <2>2. UNCHANGED <<row, queue, step, expected, copy, faults, lost, abandoned>>
    BY <1>1 DEF EditRequirements
  <2> QED BY <2>1, <2>2
          DEF LocksInv, TypeOK, StepsFit, CopiesAreOfRows, OneScheduler, CreatorIsAlone
<1>2. ASSUME NEW r \in Readers, LockAndLoad(r) PROVE LocksInv'
  <2>1. r \in Processes /\ r \in Handlers /\ r \notin Workers /\ copy[r] = NoRow
    BY <1>2, ConstantsAssumption DEF LockAndLoad, LocksInv, TypeOK, Processes, Handlers
  <2>2. /\ step' = [step EXCEPT ![r] = "locked"] /\ copy' = [copy EXCEPT ![r] = NoRow]
        /\ expected' = [expected EXCEPT ![r] = source]
        /\ UNCHANGED <<source, row, queue, edits, faults, lost, abandoned>>
    BY <1>2, <2>1 DEF LockAndLoad, Goto, LocksInv, TypeOK, Processes
  <2>3. \A h \in Handlers : step[h] \notin Scheduling
    BY <1>2 DEF LockAndLoad, ProjectUnlocked, Scheduling
  <2> QED BY <1>0, <2>1, <2>2, <2>3, GoStep DEF Holding
<1>3. ASSUME NEW t \in Tails, LoadInputs(t) PROVE LocksInv'
  <2>1. t \in Processes /\ t \in Handlers /\ t \notin Workers /\ copy[t] = NoRow
    BY <1>3, ConstantsAssumption DEF LoadInputs, LocksInv, TypeOK, Processes, Handlers
  <2>2. /\ step' = [step EXCEPT ![t] = "loaded"] /\ copy' = [copy EXCEPT ![t] = NoRow]
        /\ expected' = [expected EXCEPT ![t] = source]
        /\ UNCHANGED <<source, row, queue, edits, faults, lost, abandoned>>
    BY <1>3, <2>1 DEF LoadInputs, Goto, LocksInv, TypeOK, Processes
  <2> QED BY <1>0, <2>1, <2>2, GoStep DEF Holding, Scheduling
<1>4. ASSUME NEW t \in Tails, LockProject(t) PROVE LocksInv'
  <2>1. t \in Processes /\ t \in Handlers /\ t \notin Workers /\ expected[t] \in Sources
    BY <1>0, <1>4, ConstantsAssumption DEF LockProject, Processes, Handlers
  <2>2. /\ step' = [step EXCEPT ![t] = "locked"] /\ copy' = [copy EXCEPT ![t] = copy[t]]
        /\ expected' = [expected EXCEPT ![t] = expected[t]]
        /\ UNCHANGED <<source, row, queue, edits, faults, lost, abandoned>>
    BY <1>4, <2>1 DEF LockProject, Goto, LocksInv, TypeOK, Processes
  <2>3. \A h \in Handlers : step[h] \notin Scheduling
    BY <1>4 DEF LockProject, ProjectUnlocked, Scheduling
  <2>4. copy[t] # NoRow => row' \in Rows
    BY <2>1, <2>2 DEF LocksInv, CopiesAreOfRows
  <2> QED BY <1>0, <2>1, <2>2, <2>3, <2>4, GoStep DEF Holding
<1>5. ASSUME NEW h \in Handlers, ReadSummary(h) PROVE LocksInv'
  <2>1. h \in Processes /\ h \notin Workers /\ expected[h] \in Sources /\ step[h] = "locked"
    BY <1>0, <1>5, ConstantsAssumption DEF ReadSummary, Processes, Handlers
  <2>2. /\ step' = [step EXCEPT ![h] = "read"] /\ copy' = [copy EXCEPT ![h] = row]
        /\ expected' = [expected EXCEPT ![h] = expected[h]]
        /\ UNCHANGED <<source, row, queue, edits, faults, lost, abandoned>>
    BY <1>5, <2>1 DEF ReadSummary, Goto, LocksInv, TypeOK, Processes
  <2>3. \A g \in Handlers : step[g] \in Scheduling => g = h
    BY <2>1 DEF LocksInv, OneScheduler, Scheduling
  <2> QED BY <1>0, <2>1, <2>2, <2>3, GoStep DEF Holding
<1>6. ASSUME NEW h \in Handlers, EnsureSummaryCache(h) PROVE LocksInv'
  <2> DEFINE new == Rescheduled(copy[h], expected[h])
  <2>1. h \in Processes /\ h \notin Workers /\ expected[h] \in Sources /\ step[h] = "read"
    BY <1>0, <1>6, ConstantsAssumption DEF EnsureSummaryCache, Processes, Handlers
  <2>2. /\ step' = [step EXCEPT ![h] = "publish"] /\ copy' = [copy EXCEPT ![h] = new]
        /\ row' = Flush(copy[h], new)
        /\ expected' = [expected EXCEPT ![h] = expected[h]]
        /\ UNCHANGED <<source, queue, edits, faults, lost, abandoned>>
    BY <1>6, <2>1 DEF EnsureSummaryCache, Goto, LocksInv, TypeOK, Processes
  <2>3. new \in Rows
    BY <1>0, <2>1, RescheduledType
  <2>4. row' \in Rows
    <3>1. CASE copy[h] = NoRow
      <4>1. row = NoRow
        BY <2>1, <3>1 DEF LocksInv, CreatorIsAlone
      <4> QED BY <2>1, <2>2, <3>1, <4>1, CreatedType
    <3>2. CASE copy[h] # NoRow
      <4>1. copy[h] \in Rows /\ row \in Rows
        BY <1>0, <2>1, <3>2 DEF LocksInv, CopiesAreOfRows
      <4> HIDE DEF new
      <4> QED BY <2>2, <2>3, <4>1, FlushType
    <3> QED BY <3>1, <3>2
  <2>5. \A g \in Handlers : step[g] = "read" => g = h
    BY <2>1 DEF LocksInv, OneScheduler, Scheduling
  <2> HIDE DEF new
  <2> QED BY <1>0, <2>1, <2>2, <2>3, <2>4, <2>5, GoStep DEF Scheduling
<1>7. ASSUME NEW h \in Handlers, KeepSummary(h) PROVE LocksInv'
  <2>1. Finish(h) /\ UNCHANGED <<source, row, queue, edits, faults, lost, abandoned>>
    BY <1>7 DEF KeepSummary
  <2> QED BY <1>0, <2>1, FinishStep DEF Processes
<1>8. ASSUME NEW h \in Handlers, Publish(h) PROVE LocksInv'
  <2>1. Finish(h) /\ UNCHANGED <<source, row, edits, faults, lost, abandoned>>
    BY <1>8 DEF Publish
  <2>2. queue' \in [Sources -> Nat]
    BY <1>0, <1>8 DEF Publish, Processes
  <2> QED BY <1>0, <2>1, <2>2, FinishStep DEF Processes
<1>9. ASSUME NEW h \in Handlers, PublishFails(h) PROVE LocksInv'
  <2> DEFINE held == IF h \in Tails THEN row ELSE copy[h]
  <2>1. h \in Processes /\ h \notin Workers /\ step[h] = "publish"
    BY <1>9, ConstantsAssumption DEF PublishFails, Processes, Handlers
  <2>2. /\ step' = [step EXCEPT ![h] = "refused"] /\ copy' = [copy EXCEPT ![h] = held]
        /\ expected' = [expected EXCEPT ![h] = expected[h]]
        /\ UNCHANGED <<source, row, queue, edits, abandoned>>
    BY <1>9, <2>1 DEF PublishFails, Goto, LocksInv, TypeOK, Processes
  <2>3. row \in Rows /\ copy[h] \in Rows /\ expected[h] \in Sources
    BY <2>1, WritesAreRows DEF Holding
  <2>4. faults' \in 0..MaxFaults
    BY <1>0, <1>9 DEF PublishFails
  <2>5. lost' \in BOOLEAN
    BY <1>9 DEF PublishFails
  <2>6. held \in Rows
    BY <2>3
  <2> HIDE DEF held
  <2> QED BY <1>0, <2>1, <2>2, <2>3, <2>4, <2>5, <2>6, GoStep DEF Scheduling
<1>10. ASSUME NEW h \in Handlers, RecordQueueFailure(h) PROVE LocksInv'
  <2> DEFINE new == Refused(copy[h], expected[h])
  <2>1. /\ row' = Flush(copy[h], new) /\ Finish(h) /\ step[h] = "refused"
        /\ UNCHANGED <<source, queue, edits, faults, lost, abandoned>>
    BY <1>10 DEF RecordQueueFailure
  <2>2. /\ row \in Rows /\ copy[h] \in Rows /\ expected[h] \in Sources
        /\ \A n \in Rows : Flush(copy[h], n) \in Rows
    BY <2>1, WritesAreRows DEF Holding, Processes
  <2>3. new \in Rows
    BY <2>2, RefusedType
  <2> HIDE DEF new
  <2>4. row' \in Rows
    BY <2>1, <2>2, <2>3
  <2> QED BY <1>0, <2>1, <2>2, <2>4, Absence, FinishStep DEF Processes
<1>11. ASSUME NEW w \in Workers, NEW f \in Sources, SkipSummary(w, f) PROVE LocksInv'
  <2>1. queue' \in [Sources -> Nat]
    BY <1>0, <1>11 DEF SkipSummary, Take
  <2>2. UNCHANGED <<source, row, step, expected, copy, edits, faults, lost, abandoned>>
    BY <1>11 DEF SkipSummary
  <2> QED BY <2>1, <2>2
          DEF LocksInv, TypeOK, StepsFit, CopiesAreOfRows, OneScheduler, CreatorIsAlone
<1>12. ASSUME NEW w \in Workers, NEW f \in Sources, StartSummary(w, f) PROVE LocksInv'
  <2>1. w \in Processes /\ w \notin Handlers /\ row \in Rows
    BY <1>0, <1>12, ConstantsAssumption, Absence
       DEF StartSummary, Processes, Handlers, NoRow
  <2>2. /\ step' = [step EXCEPT ![w] = "begun"] /\ copy' = [copy EXCEPT ![w] = row']
        /\ expected' = [expected EXCEPT ![w] = f]
        /\ row' = Running(row)
        /\ UNCHANGED <<source, edits, faults, lost, abandoned>>
    BY <1>12 DEF StartSummary, Goto
  <2>3. row' \in Rows
    BY <2>1, <2>2, RunningType
  <2>4. queue' \in [Sources -> Nat]
    BY <1>0, <1>12 DEF StartSummary, Take
  <2>5. row # NoRow
    BY <2>1, Absence
  <2> QED BY <1>0, <2>1, <2>2, <2>3, <2>4, <2>5, GoStep DEF Scheduling
<1>13. ASSUME NEW w \in Workers, LoadRequirements(w) PROVE LocksInv'
  <2>1. w \in Processes /\ w \notin Handlers /\ step[w] = "begun"
    BY <1>13, ConstantsAssumption DEF LoadRequirements, Processes, Handlers
  <2>2. /\ step' = [step EXCEPT ![w] = "generating"] /\ copy' = [copy EXCEPT ![w] = copy[w]]
        /\ expected' = [expected EXCEPT ![w] = expected[w]]
        /\ UNCHANGED <<source, row, queue, edits, faults, lost, abandoned>>
    BY <1>13, <2>1 DEF LoadRequirements, Goto, LocksInv, TypeOK, Processes
  <2>3. row \in Rows /\ copy[w] \in Rows /\ expected[w] \in Sources
    BY <2>1, WritesAreRows DEF Holding
  <2> QED BY <1>0, <2>1, <2>2, <2>3, Absence, GoStep DEF Scheduling
<1>14. ASSUME NEW w \in Workers, FindObsolete(w) PROVE LocksInv'
  <2>1. Finish(w) /\ UNCHANGED <<source, row, queue, edits, faults, lost>>
    BY <1>14 DEF FindObsolete
  <2>2. abandoned' \in BOOLEAN
    BY <1>14 DEF FindObsolete
  <2> QED BY <1>0, <2>1, <2>2, FinishStep DEF Processes
<1>15. ASSUME NEW w \in Workers, NEW take \in Takes, SaveSummary(w, take) PROVE LocksInv'
  <2> DEFINE answer == [of |-> expected[w], take |-> take]
             new == Succeeded(copy[w], answer)
  <2>1. /\ row' = Flush(copy[w], new) /\ Finish(w) /\ step[w] = "generating"
        /\ UNCHANGED <<source, queue, edits, faults, lost, abandoned>>
    BY <1>15 DEF SaveSummary
  <2>2. /\ row \in Rows /\ copy[w] \in Rows /\ expected[w] \in Sources
        /\ \A n \in Rows : Flush(copy[w], n) \in Rows
    BY <2>1, WritesAreRows DEF Holding, Processes
  <2>3. answer \in Answers
    BY <2>2 DEF Answers
  <2> HIDE DEF answer
  <2>4. new \in Rows
    BY <2>2, <2>3, SavedType
  <2> HIDE DEF new
  <2>5. row' \in Rows
    BY <2>1, <2>2, <2>4
  <2> QED BY <1>0, <2>1, <2>2, <2>5, Absence, FinishStep DEF Processes
<1>16. ASSUME NEW w \in Workers, SaveFailure(w) PROVE LocksInv'
  <2> DEFINE new == Failed(copy[w])
  <2>1. /\ row' = Flush(copy[w], new) /\ Finish(w) /\ step[w] = "generating"
        /\ UNCHANGED <<source, queue, edits, faults, lost, abandoned>>
    BY <1>16 DEF SaveFailure
  <2>2. /\ row \in Rows /\ copy[w] \in Rows /\ expected[w] \in Sources
        /\ \A n \in Rows : Flush(copy[w], n) \in Rows
    BY <2>1, WritesAreRows DEF Holding, Processes
  <2>3. new \in Rows
    BY <2>2, FailedType
  <2> HIDE DEF new
  <2>4. row' \in Rows
    BY <2>1, <2>2, <2>3
  <2> QED BY <1>0, <2>1, <2>2, <2>4, Absence, FinishStep DEF Processes
<1>17. ASSUME NEW w \in Workers, Redeliver(w) PROVE LocksInv'
  <2>1. queue' \in [Sources -> Nat]
    BY <1>0, <1>17 DEF Redeliver, Processes, LocksInv, StepsFit
  <2>2. UNCHANGED <<source, row, step, expected, copy, edits, abandoned>>
    BY <1>17 DEF Redeliver, Fault
  <2>3. faults' \in 0..MaxFaults
    BY <1>0, <1>17 DEF Redeliver, Fault
  <2>4. lost' \in BOOLEAN
    BY <1>17 DEF Redeliver, Fault
  <2> QED BY <2>1, <2>2, <2>3, <2>4
          DEF LocksInv, TypeOK, StepsFit, CopiesAreOfRows, OneScheduler, CreatorIsAlone
<1>18. ASSUME NEW w \in Workers, CrashWorker(w) PROVE LocksInv'
  <2>1. Finish(w) /\ UNCHANGED <<source, row, edits, abandoned>>
    BY <1>18 DEF CrashWorker, Fault
  <2>2. queue' \in [Sources -> Nat]
    BY <1>0, <1>18 DEF CrashWorker, Processes, LocksInv, StepsFit
  <2>3. faults' \in 0..MaxFaults
    BY <1>0, <1>18 DEF CrashWorker, Fault
  <2>4. lost' \in BOOLEAN
    BY <1>18 DEF CrashWorker, Fault
  <2> QED BY <1>0, <2>1, <2>2, <2>3, <2>4, FinishStep DEF Processes
<1>19. ASSUME NEW p \in Handlers \cup Workers, Die(p) PROVE LocksInv'
  <2>1. Finish(p) /\ UNCHANGED <<source, row, queue, edits, abandoned>>
    BY <1>19 DEF Die, Fault
  <2>2. faults' \in 0..MaxFaults
    BY <1>0, <1>19 DEF Die, Fault
  <2>3. lost' \in BOOLEAN
    BY <1>19 DEF Die, Fault
  <2> QED BY <1>0, <2>1, <2>2, <2>3, FinishStep DEF Processes
<1>20. CASE UNCHANGED vars
  BY <1>20 DEF vars, LocksInv, TypeOK, StepsFit, CopiesAreOfRows, OneScheduler, CreatorIsAlone
<1>21. QED
  BY <1>1, <1>2, <1>3, <1>4, <1>5, <1>6, <1>7, <1>8, <1>9, <1>10, <1>11, <1>12, <1>13,
     <1>14, <1>15, <1>16, <1>17, <1>18, <1>19, <1>20
     DEF Next, Schedule, RunSummary, Faulty

\* The variables keep their types, and whoever is between requests holds nothing.
THEOREM TypeCorrect == Spec => []TypeOK
BY LocksInit, LocksStep, PTL DEF Spec, LocksInv

\* Two handlers never both insert the row: the project lock spans the reading and
\* the writing of ensure_summary_cache, and nobody else creates rows.
THEOREM CreatorsAreAlone == Spec => []CreatorIsAlone
BY LocksInit, LocksStep, PTL DEF Spec, LocksInv
----------------------------------------------------------------------------
(* What each writer makes of the row.                                      *)

\* ensure_summary_cache writes the fingerprint and PENDING where its object had
\* something else, and leaves the highlights alone.
LEMMA EnsureEffect ==
    ASSUME LocksInv, NEW h \in Handlers, EnsureSummaryCache(h)
    PROVE  /\ row'.fingerprint = IF copy[h].fingerprint = expected[h] THEN row.fingerprint
                                 ELSE expected[h]
           /\ row'.state = IF copy[h].state = "PENDING" THEN row.state ELSE "PENDING"
           /\ row'.highlights = row.highlights
           /\ copy'[h].fingerprint = expected[h] /\ copy'[h].state = "PENDING"
           /\ copy'[h].highlights = copy[h].highlights
           /\ copy[h] = NoRow => row = NoRow
<1> DEFINE new == Rescheduled(copy[h], expected[h])
<1>1. /\ step[h] = "read" /\ expected[h] \in Sources
      /\ copy[h] \in Rows \cup {NoRow} /\ row \in Rows \cup {NoRow}
  BY DEF EnsureSummaryCache, LocksInv, TypeOK
<1>2. row' = Flush(copy[h], new) /\ copy'[h] = new
  BY DEF EnsureSummaryCache, LocksInv, TypeOK
<1>3. /\ new \in Rows /\ new.fingerprint = expected[h] /\ new.state = "PENDING"
      /\ new.highlights = copy[h].highlights
  BY <1>1, RescheduledType
<1>4. CASE copy[h] = NoRow
  <2>1. row = NoRow
    BY <1>1, <1>4 DEF LocksInv, CreatorIsAlone
  <2>2. NoRow.fingerprint = None /\ NoRow.state = "none" /\ NoRow.highlights = None
    BY DEF NoRow
  <2>3. row'.fingerprint = expected[h] /\ row'.state = "PENDING" /\ row'.highlights = None
    BY <1>1, <1>2, <1>4, <2>1, CreatedType
  <2> HIDE DEF new
  <2> QED BY <1>1, <1>2, <1>3, <1>4, <2>1, <2>2, <2>3, Absence
<1>5. CASE copy[h] # NoRow
  <2>1. copy[h] \in Rows /\ row \in Rows
    BY <1>1, <1>5 DEF LocksInv, CopiesAreOfRows, Processes
  <2> HIDE DEF new
  <2> QED BY <1>2, <1>3, <1>5, <2>1, FlushType
<1> QED BY <1>4, <1>5

\* A handler whose message was refused writes the failure unless its object had it.
LEMMA RefusedEffect ==
    ASSUME LocksInv, NEW h \in Handlers, RecordQueueFailure(h)
    PROVE  /\ row'.fingerprint = IF copy[h].fingerprint = expected[h] THEN row.fingerprint
                                 ELSE expected[h]
           /\ row'.state = IF copy[h].state = "FAILED" THEN row.state ELSE "FAILED"
           /\ row'.highlights = row.highlights
<1> DEFINE new == Refused(copy[h], expected[h])
<1>1. row' = Flush(copy[h], new) /\ step[h] = "refused"
  BY DEF RecordQueueFailure
<1>2. row \in Rows /\ copy[h] \in Rows /\ expected[h] \in Sources
  BY <1>1, WritesAreRows DEF Holding, Processes
<1>3. /\ new \in Rows /\ new.fingerprint = expected[h] /\ new.state = "FAILED"
      /\ new.highlights = copy[h].highlights
  BY <1>2, RefusedType
<1> HIDE DEF new
<1> QED BY <1>1, <1>2, <1>3, FlushType

\* A task marks the row it has locked and keeps a copy of it.
LEMMA StartEffect ==
    ASSUME LocksInv, NEW w \in Workers, NEW f \in Sources, StartSummary(w, f)
    PROVE  /\ row \in Rows
           /\ row'.fingerprint = f /\ row.fingerprint = f /\ row'.state = "RUNNING"
           /\ row'.highlights = row.highlights
           /\ copy'[w] = row'
<1>1. row \in Rows
  BY Absence DEF StartSummary, LocksInv, TypeOK, NoRow
<1>2. row' = Running(row) /\ row.fingerprint = f
      /\ copy'[w] = row'
  BY DEF StartSummary, LocksInv, TypeOK
<1>3. /\ row'.state = "RUNNING" /\ row'.highlights = row.highlights
      /\ row'.fingerprint = row.fingerprint
  BY <1>1, <1>2, RunningType
<1> QED BY <1>1, <1>2, <1>3

\* A task that succeeds leaves the fingerprint alone; the row has highlights
\* afterwards if it had some whenever the object of the task had some.
LEMMA SaveEffect ==
    ASSUME LocksInv, NEW w \in Workers, NEW take \in Takes, SaveSummary(w, take)
    PROVE  /\ row'.fingerprint = row.fingerprint
           /\ row'.state = IF copy[w].state = "SUCCEEDED" THEN row.state ELSE "SUCCEEDED"
           /\ (copy[w].highlights # None => row.highlights # None) => row'.highlights # None
<1> DEFINE answer == [of |-> expected[w], take |-> take]
           new == Succeeded(copy[w], answer)
<1>1. row' = Flush(copy[w], new) /\ step[w] = "generating"
  BY DEF SaveSummary
<1>2. row \in Rows /\ copy[w] \in Rows /\ expected[w] \in Sources
  BY <1>1, WritesAreRows DEF Holding, Processes
<1>3. answer \in Answers
  BY <1>2 DEF Answers
<1> HIDE DEF answer
<1>4. /\ new \in Rows /\ new.fingerprint = copy[w].fingerprint /\ new.state = "SUCCEEDED"
      /\ new.highlights = answer
  BY <1>2, <1>3, SavedType
<1> HIDE DEF new
<1> QED BY <1>1, <1>2, <1>3, <1>4, FlushType, Absence

\* A task that fails writes neither the fingerprint nor the highlights.
LEMMA FailEffect ==
    ASSUME LocksInv, NEW w \in Workers, SaveFailure(w)
    PROVE  /\ row'.fingerprint = row.fingerprint
           /\ row'.state = IF copy[w].state = "FAILED" THEN row.state ELSE "FAILED"
           /\ row'.highlights = row.highlights
<1> DEFINE new == Failed(copy[w])
<1>1. row' = Flush(copy[w], new) /\ step[w] = "generating"
  BY DEF SaveFailure
<1>2. row \in Rows /\ copy[w] \in Rows /\ expected[w] \in Sources
  BY <1>1, WritesAreRows DEF Holding, Processes
<1>3. /\ new \in Rows /\ new.fingerprint = copy[w].fingerprint /\ new.state = "FAILED"
      /\ new.highlights = copy[w].highlights
  BY <1>2, FailedType
<1> HIDE DEF new
<1> QED BY <1>1, <1>2, <1>3, FlushType

----------------------------------------------------------------------------
(* Highlights.                                                             *)

\* No writer holds highlights that the row does not have: they are never dropped.
HighlightsKept ==
    /\ SucceededHasHighlights
    /\ \A p \in Processes : copy[p].highlights # None => row.highlights # None
\* Whoever finishes lets go of its object; the others stay as they are.
LEMMA FinishEffect ==
    ASSUME LocksInv, NEW p \in Processes, Finish(p)
    PROVE  /\ \A q \in Processes : q # p => step'[q] = step[q] /\ expected'[q] = expected[q]
                                            /\ copy'[q] = copy[q]
           /\ step'[p] \in {"idle", "done"} /\ copy'[p] = NoRow /\ copy'[p].highlights = None
<1>1. NoRow.highlights = None
  BY DEF NoRow
<1>2. /\ \A q \in Processes : q # p => step'[q] = step[q] /\ expected'[q] = expected[q]
                                       /\ copy'[q] = copy[q]
      /\ step'[p] = (IF p \in Tails THEN "done" ELSE "idle") /\ copy'[p] = NoRow
  BY DEF LocksInv, TypeOK, Processes, Finish
<1> QED BY <1>1, <1>2

\* Highlights once stored are only ever replaced by others, and nothing but fresh
\* highlights comes with the state SUCCEEDED.
LEMMA HighlightsStep == LocksInv /\ HighlightsKept /\ [Next]_vars => HighlightsKept'
<1> SUFFICES ASSUME LocksInv, HighlightsKept, [Next]_vars PROVE HighlightsKept'
  OBVIOUS
<1> USE DEF boundVars, handlerVars
<1>1. ASSUME UNCHANGED <<row, copy>> PROVE HighlightsKept'
  BY <1>1 DEF HighlightsKept, SucceededHasHighlights
<1>2. ASSUME NEW p \in Processes, Finish(p),
             row'.highlights = None => row.highlights = None,
             row'.state = "SUCCEEDED" => row'.highlights # None
      PROVE  HighlightsKept'
  BY <1>2, FinishEffect DEF HighlightsKept, SucceededHasHighlights
<1>3. ASSUME NEW h \in Handlers, ReadSummary(h) PROVE HighlightsKept'
  <2>1. row' = row /\ copy' = [copy EXCEPT ![h] = row]
    BY <1>3 DEF ReadSummary
  <2> QED BY <2>1 DEF HighlightsKept, SucceededHasHighlights, LocksInv, TypeOK, Processes
<1>4. ASSUME NEW h \in Handlers, EnsureSummaryCache(h) PROVE HighlightsKept'
  <2>1. /\ row'.highlights = row.highlights /\ copy'[h].highlights = copy[h].highlights
        /\ row'.state = "SUCCEEDED" => row.state = "SUCCEEDED"
    BY <1>4, EnsureEffect
  <2>2. \A q \in Processes : q # h => copy'[q] = copy[q]
    BY <1>4 DEF EnsureSummaryCache, LocksInv, TypeOK, Processes
  <2> QED BY <2>1, <2>2 DEF HighlightsKept, SucceededHasHighlights, Processes
<1>5. ASSUME NEW h \in Handlers, PublishFails(h) PROVE HighlightsKept'
  <2>1. row' = row /\ \A q \in Processes : copy'[q] = row \/ copy'[q] = copy[q]
    BY <1>5 DEF PublishFails, LocksInv, TypeOK, Processes
  <2> QED BY <2>1 DEF HighlightsKept, SucceededHasHighlights
<1>6. ASSUME NEW h \in Handlers, RecordQueueFailure(h) PROVE HighlightsKept'
  <2>1. /\ row'.highlights = row.highlights
        /\ row'.state = "SUCCEEDED" => row.state = "SUCCEEDED"
    BY <1>6, RefusedEffect
  <2>2. Finish(h) /\ h \in Processes
    BY <1>6 DEF RecordQueueFailure, Processes
  <2> QED BY <1>2, <2>1, <2>2 DEF HighlightsKept, SucceededHasHighlights
<1>7. ASSUME NEW w \in Workers, NEW f \in Sources, StartSummary(w, f) PROVE HighlightsKept'
  <2>1. /\ row'.highlights = row.highlights /\ row'.state = "RUNNING" /\ copy'[w] = row'
    BY <1>7, StartEffect
  <2>2. \A q \in Processes : q # w => copy'[q] = copy[q]
    BY <1>7 DEF StartSummary, LocksInv, TypeOK, Processes
  <2> QED BY <2>1, <2>2 DEF HighlightsKept, SucceededHasHighlights
<1>8. ASSUME NEW w \in Workers, NEW take \in Takes, SaveSummary(w, take) PROVE HighlightsKept'
  <2>1. Finish(w) /\ w \in Processes
    BY <1>8 DEF SaveSummary, Processes
  <2>2. row'.highlights # None
    BY <1>8, <2>1, SaveEffect DEF HighlightsKept
  <2> QED BY <1>2, <2>1, <2>2
<1>9. ASSUME NEW w \in Workers, SaveFailure(w) PROVE HighlightsKept'
  <2>1. /\ row'.highlights = row.highlights
        /\ row'.state = "SUCCEEDED" => row.state = "SUCCEEDED"
    BY <1>9, FailEffect
  <2>2. Finish(w) /\ w \in Processes
    BY <1>9 DEF SaveFailure, Processes
  <2> QED BY <1>2, <2>1, <2>2 DEF HighlightsKept, SucceededHasHighlights
<1>10. ASSUME NEW p \in Processes,
              KeepSummary(p) \/ Publish(p) \/ FindObsolete(p) \/ CrashWorker(p) \/ Die(p)
       PROVE  HighlightsKept'
  <2>1. Finish(p) /\ row' = row
    BY <1>10 DEF KeepSummary, Publish, FindObsolete, CrashWorker, Die
  <2> QED BY <1>2, <2>1 DEF HighlightsKept, SucceededHasHighlights
<1>11. ASSUME NEW p \in Processes,
              \/ LockAndLoad(p) \/ LoadInputs(p) \/ LockProject(p)
              \/ LoadRequirements(p) \/ Redeliver(p)
              \/ \E f \in Sources : SkipSummary(p, f)
       PROVE  HighlightsKept'
  BY <1>1, <1>11 DEF LockAndLoad, LoadInputs, LockProject, LoadRequirements, Redeliver,
                     SkipSummary
<1>12. CASE EditRequirements \/ UNCHANGED vars
  BY <1>1, <1>12 DEF EditRequirements, vars
<1> QED
  BY <1>3, <1>4, <1>5, <1>6, <1>7, <1>8, <1>9, <1>10, <1>11, <1>12
     DEF Next, Schedule, RunSummary, Faulty, Processes

\* A row that says SUCCEEDED has highlights: a task that fails late, or for an older
\* fingerprint, leaves them, and one that succeeds brings its own.
THEOREM SuccessesHaveHighlights == Spec => []SucceededHasHighlights
<1>1. Init => HighlightsKept
  BY DEF Init, HighlightsKept, SucceededHasHighlights, NoRow, Processes
<1> QED BY <1>1, LocksInit, LocksStep, HighlightsStep, PTL DEF Spec, HighlightsKept
----------------------------------------------------------------------------
(* Owners.                                                                 *)

\* What a handler or a task will write settles the row: a GET that was refused holds
\* the object it has just made PENDING for its own fingerprint, a task one that it
\* has made RUNNING.
WritersFit ==
    /\ \A h \in Handlers :
           step[h] = "publish" \/ (step[h] = "refused" /\ h \in Readers) =>
               copy[h].state = "PENDING" /\ copy[h].fingerprint = expected[h]
    /\ \A w \in Workers : step[w] \in {"begun", "generating"} => copy[w].state = "RUNNING"
    /\ \A t \in Tails : step[t] = "refused" => lost

\* While a scheduler has the project locked, the fingerprint it has read is stored.
ReadersAreCurrent ==
    lost \/ \A h \in Handlers : step[h] = "read" => copy[h].fingerprint = row.fingerprint

OwnersInv == WritersFit /\ ReadersAreCurrent /\ UnsettledIsOwned

\* The owners of a fingerprint are its messages and whoever holds a row for it.
LEMMA OwnersOf ==
    ASSUME LocksInv, NEW f
    PROVE  Owned(f) <=> \/ queue[f] > 0
                        \/ \E p \in Processes : step[p] \in Holding /\ expected[p] = f
BY ConstantsAssumption DEF LocksInv, StepsFit, Owned, Processes, Holding

\* Whoever finishes leaves the row owned if it leaves a message or a settled row.
LEMMA FinishOwners ==
    ASSUME LocksInv, LocksInv', OwnersInv, NEW p \in Processes, Finish(p),
           lost => lost', abandoned => abandoned',
           row'.fingerprint = row.fingerprint \/ lost',
           \A f \in Sources : queue'[f] >= queue[f],
           row'.state \in UnsettledStates =>
               \/ lost' \/ abandoned'
               \/ /\ row.state \in UnsettledStates
                  /\ row.fingerprint \in Sources
                  /\ step[p] \in Holding /\ expected[p] = row.fingerprint =>
                         queue'[row.fingerprint] > 0
    PROVE  OwnersInv'
<1> USE FinishEffect
<1>1. WritersFit'
  BY ConstantsAssumption DEF OwnersInv, WritersFit, Processes, Handlers
<1>2. ReadersAreCurrent'
  BY DEF OwnersInv, ReadersAreCurrent, Processes
<1>3. UnsettledIsOwned'
  <2> SUFFICES ASSUME row'.state \in UnsettledStates, ~lost', ~abandoned'
               PROVE  Owned(row.fingerprint)'
    BY DEF UnsettledIsOwned
  <2> DEFINE f == row.fingerprint
  <2>1. /\ row'.fingerprint = f /\ f \in Sources /\ Owned(f)
        /\ step[p] \in Holding /\ expected[p] = f => queue'[f] > 0
    BY DEF OwnersInv, UnsettledIsOwned
  <2>2. /\ queue'[f] >= queue[f] /\ queue[f] \in Nat /\ queue'[f] \in Nat
    BY <2>1 DEF LocksInv, TypeOK
  <2>3. \/ queue[f] > 0
        \/ \E q \in Processes : step[q] \in Holding /\ expected[q] = f
    BY <2>1, OwnersOf
  <2> HIDE DEF f
  <2>4. \/ queue'[f] > 0
        \/ \E q \in Processes : step'[q] \in Holding /\ expected'[q] = f
    BY <2>1, <2>2, <2>3
  <2>5. \A q \in Workers : step'[q] \in {"idle", "begun", "generating"}
    BY DEF LocksInv, StepsFit
  <2>6. \A h \in Handlers : step'[h] \notin {"begun", "generating"}
    BY DEF LocksInv, StepsFit
  <2>7. Owned(row.fingerprint)'
    BY <2>1, <2>4, <2>5, <2>6 DEF Owned, Processes, Holding
  <2> QED BY <2>7
<1> QED BY <1>1, <1>2, <1>3 DEF OwnersInv
\* Whoever goes on leaves the row owned if it becomes the owner itself, or goes on
\* owning what it owned.
LEMMA GoOwners ==
    ASSUME LocksInv, LocksInv', OwnersInv, NEW p \in Processes, NEW l, NEW e, NEW c,
           step' = [step EXCEPT ![p] = l],
           expected' = [expected EXCEPT ![p] = e],
           copy' = [copy EXCEPT ![p] = c],
           lost => lost', abandoned => abandoned',
           l = "publish" \/ (l = "refused" /\ p \in Readers) =>
               c.state = "PENDING" /\ c.fingerprint = e,
           l \in {"begun", "generating"} => c.state = "RUNNING",
           p \in Tails /\ l = "refused" => lost',
           \/ row'.fingerprint = row.fingerprint
           \/ lost'
           \/ \A h \in Handlers : h # p => step[h] # "read",
           l = "read" => c.fingerprint = row'.fingerprint,
           row'.state \in UnsettledStates =>
               \/ lost' \/ abandoned'
               \/ l \in Holding /\ e = row'.fingerprint
               \/ /\ row.state \in UnsettledStates
                  /\ row'.fingerprint = row.fingerprint
                  /\ queue' = queue
                  /\ step[p] \in Holding => l \in Holding /\ e = expected[p]
    PROVE  OwnersInv'
<1>1. /\ \A q \in Processes : q # p => step'[q] = step[q] /\ expected'[q] = expected[q]
                                        /\ copy'[q] = copy[q]
      /\ step'[p] = l /\ expected'[p] = e /\ copy'[p] = c
  BY DEF LocksInv, TypeOK, Processes
<1>2. WritersFit'
  <2>1. ASSUME NEW h \in Handlers, step'[h] = "publish" \/ (step'[h] = "refused" /\ h \in Readers)
        PROVE  copy'[h].state = "PENDING" /\ copy'[h].fingerprint = expected'[h]
    BY <1>1, <2>1 DEF OwnersInv, WritersFit, Processes
  <2>2. ASSUME NEW w \in Workers, step'[w] \in {"begun", "generating"}
        PROVE  copy'[w].state = "RUNNING"
    BY <1>1, <2>2 DEF OwnersInv, WritersFit, Processes
  <2>3. ASSUME NEW t \in Tails, step'[t] = "refused"
        PROVE  lost'
    BY <1>1, <2>3 DEF OwnersInv, WritersFit, Processes, Handlers
  <2> QED BY <2>1, <2>2, <2>3 DEF WritersFit
<1>3. ReadersAreCurrent'
  BY <1>1 DEF OwnersInv, ReadersAreCurrent, Processes
<1>4. UnsettledIsOwned'
  <2> SUFFICES ASSUME row'.state \in UnsettledStates, ~lost', ~abandoned'
               PROVE  Owned(row.fingerprint)'
    BY DEF UnsettledIsOwned
  <2>1. \/ queue'[row'.fingerprint] > 0
        \/ \E q \in Processes : step'[q] \in Holding /\ expected'[q] = row'.fingerprint
    <3>1. CASE l \in Holding /\ e = row'.fingerprint
      BY <1>1, <3>1
    <3>2. CASE ~(l \in Holding /\ e = row'.fingerprint)
      <4> DEFINE f == row.fingerprint
      <4>1. /\ row'.fingerprint = f /\ queue' = queue /\ Owned(f)
            /\ step[p] \in Holding => l \in Holding /\ e = expected[p]
        BY <3>2 DEF OwnersInv, UnsettledIsOwned
      <4>2. \/ queue[f] > 0
            \/ \E q \in Processes : step[q] \in Holding /\ expected[q] = f
        BY <4>1, OwnersOf
      <4> HIDE DEF f
      <4> QED BY <1>1, <4>1, <4>2
    <3> QED BY <3>1, <3>2
  <2>2. \A q \in Workers : step'[q] \in {"idle", "begun", "generating"}
    BY DEF LocksInv, StepsFit
  <2>3. \A h \in Handlers : step'[h] \notin {"begun", "generating"}
    BY DEF LocksInv, StepsFit
  <2>4. Owned(row.fingerprint)'
    BY <2>1, <2>2, <2>3 DEF Owned, Processes, Holding
  <2> QED BY <2>4
<1> QED BY <1>2, <1>3, <1>4 DEF OwnersInv

\* No step of a handler, a task or a fault leaves an unsettled row without owner.
LEMMA OwnersStep == LocksInv /\ OwnersInv /\ [Next]_vars => OwnersInv'
<1> SUFFICES ASSUME LocksInv, OwnersInv, [Next]_vars PROVE OwnersInv'
  OBVIOUS
<1> USE DEF boundVars, handlerVars
<1>0. /\ LocksInv'
      /\ queue \in [Sources -> Nat] /\ row \in Rows \cup {NoRow}
      /\ row.state \in UnsettledStates => row.fingerprint \in Sources
      /\ \A p \in Processes : step[p] \notin {"idle", "done"} => expected[p] \in Sources
      /\ \A h \in Handlers : h \in Processes /\ h \notin Workers
      /\ \A w \in Workers : w \in Processes /\ w \notin Handlers
      /\ \A h \in Readers : h \in Handlers /\ h \notin Tails
      /\ \A h \in Tails : h \in Handlers /\ h \notin Readers
  <2>1. LocksInv'
    BY LocksStep
  <2>2. row.state \in UnsettledStates => row.fingerprint \in Sources
    BY DEF LocksInv, TypeOK, NoRow, Rows
  <2>3. /\ \A h \in Handlers : h \in Processes /\ h \notin Workers
        /\ \A w \in Workers : w \in Processes /\ w \notin Handlers
        /\ \A h \in Readers : h \in Handlers /\ h \notin Tails
        /\ \A h \in Tails : h \in Handlers /\ h \notin Readers
    BY ConstantsAssumption DEF Processes, Handlers
  <2> QED BY <2>1, <2>2, <2>3 DEF LocksInv, TypeOK, Processes
<1>1. ASSUME UNCHANGED <<row, step, expected, copy, abandoned>>, lost => lost',
             queue' = queue \/ row.state \notin UnsettledStates
                 \/ queue'[row.fingerprint] >= queue[row.fingerprint],
             queue' \in [Sources -> Nat]
      PROVE  OwnersInv'
  <2>1. WritersFit' /\ ReadersAreCurrent'
    BY <1>1 DEF OwnersInv, WritersFit, ReadersAreCurrent
  <2>2. UnsettledIsOwned'
    <3> SUFFICES ASSUME row.state \in UnsettledStates, ~lost', ~abandoned
                 PROVE  Owned(row.fingerprint)'
      BY <1>1 DEF UnsettledIsOwned
    <3>1. Owned(row.fingerprint) /\ row.fingerprint \in Sources
      BY <1>0, <1>1 DEF OwnersInv, UnsettledIsOwned
    <3>2. queue[row.fingerprint] > 0 => queue'[row.fingerprint] > 0
      BY <1>0, <1>1, <3>1
    <3>3. Owned(row.fingerprint)'
      BY <1>1, <3>1, <3>2 DEF Owned
    <3> QED BY <3>3
  <2> QED BY <2>1, <2>2 DEF OwnersInv
<1>2. ASSUME NEW r \in Readers, LockAndLoad(r) PROVE OwnersInv'
  <2>1. /\ step' = [step EXCEPT ![r] = "locked"] /\ copy' = [copy EXCEPT ![r] = copy[r]]
        /\ expected' = [expected EXCEPT ![r] = source] /\ step[r] = "idle"
        /\ UNCHANGED <<row, queue, lost, abandoned>>
    BY <1>0, <1>2 DEF LockAndLoad, Goto, LocksInv, TypeOK, Processes
  <2> QED BY <1>0, <2>1, GoOwners DEF Holding
<1>3. ASSUME NEW t \in Tails, LoadInputs(t) PROVE OwnersInv'
  <2>1. /\ step' = [step EXCEPT ![t] = "loaded"] /\ copy' = [copy EXCEPT ![t] = copy[t]]
        /\ expected' = [expected EXCEPT ![t] = source] /\ step[t] = "idle"
        /\ UNCHANGED <<row, queue, lost, abandoned>>
    BY <1>0, <1>3 DEF LoadInputs, Goto, LocksInv, TypeOK, Processes
  <2> QED BY <1>0, <2>1, GoOwners DEF Holding
<1>4. ASSUME NEW t \in Tails, LockProject(t) PROVE OwnersInv'
  <2>1. /\ step' = [step EXCEPT ![t] = "locked"] /\ copy' = [copy EXCEPT ![t] = copy[t]]
        /\ expected' = [expected EXCEPT ![t] = expected[t]] /\ step[t] = "loaded"
        /\ UNCHANGED <<row, queue, lost, abandoned>>
    BY <1>0, <1>4 DEF LockProject, Goto, LocksInv, TypeOK, Processes
  <2> QED BY <1>0, <2>1, GoOwners DEF Holding
<1>5. ASSUME NEW h \in Handlers, ReadSummary(h) PROVE OwnersInv'
  <2>1. /\ step' = [step EXCEPT ![h] = "read"] /\ copy' = [copy EXCEPT ![h] = row]
        /\ expected' = [expected EXCEPT ![h] = expected[h]] /\ step[h] = "locked"
        /\ UNCHANGED <<row, queue, lost, abandoned>>
    BY <1>0, <1>5 DEF ReadSummary, Goto, LocksInv, TypeOK, Processes
  <2> QED BY <1>0, <2>1, GoOwners DEF Holding
<1>6. ASSUME NEW h \in Handlers, EnsureSummaryCache(h) PROVE OwnersInv'
  <2>1. /\ step' = [step EXCEPT ![h] = "publish"] /\ copy' = [copy EXCEPT ![h] = copy'[h]]
        /\ expected' = [expected EXCEPT ![h] = expected[h]] /\ step[h] = "read"
        /\ UNCHANGED <<queue, lost, abandoned>>
    BY <1>0, <1>6 DEF EnsureSummaryCache, Goto, LocksInv, TypeOK, Processes
  <2>2. /\ row'.fingerprint = IF copy[h].fingerprint = expected[h] THEN row.fingerprint
                              ELSE expected[h]
        /\ copy'[h].fingerprint = expected[h] /\ copy'[h].state = "PENDING"
    BY <1>6, EnsureEffect
  <2>3. lost \/ row'.fingerprint = expected[h]
    BY <2>1, <2>2 DEF OwnersInv, ReadersAreCurrent
  <2>4. \A g \in Handlers : g # h => step[g] # "read"
    BY <2>1 DEF LocksInv, OneScheduler, Scheduling
  <2> QED BY <1>0, <2>1, <2>2, <2>3, <2>4, GoOwners DEF Holding
<1>7. ASSUME NEW h \in Handlers, KeepSummary(h) PROVE OwnersInv'
  <2>1. Finish(h) /\ UNCHANGED <<row, queue, lost, abandoned>> /\ step[h] = "read"
    BY <1>7 DEF KeepSummary
  <2> QED BY <1>0, <2>1, FinishOwners DEF Holding
<1>8. ASSUME NEW h \in Handlers, Publish(h) PROVE OwnersInv'
  <2>1. Finish(h) /\ UNCHANGED <<row, lost, abandoned>> /\ expected[h] \in Sources
    BY <1>0, <1>8 DEF Publish
  <2>2. /\ \A f \in Sources : queue'[f] >= queue[f]
        /\ queue'[expected[h]] > 0
    BY <1>0, <1>8, <2>1 DEF Publish
  <2> QED BY <1>0, <2>1, <2>2, FinishOwners
<1>9. ASSUME NEW h \in Handlers, PublishFails(h) PROVE OwnersInv'
  <2>1. /\ step' = [step EXCEPT ![h] = "refused"] /\ copy' = [copy EXCEPT ![h] = copy'[h]]
        /\ expected' = [expected EXCEPT ![h] = expected[h]] /\ step[h] = "publish"
        /\ UNCHANGED <<row, queue, abandoned>>
    BY <1>0, <1>9 DEF PublishFails, Goto, LocksInv, TypeOK, Processes
  <2>2. /\ lost => lost'
        /\ h \in Tails => lost'
    BY <1>9 DEF PublishFails
  <2>3. h \in Readers => copy'[h] = copy[h]
    BY <1>0, <1>9 DEF PublishFails
  <2>4. copy[h].state = "PENDING" /\ copy[h].fingerprint = expected[h]
    BY <2>1 DEF OwnersInv, WritersFit
  <2>5. CASE h \in Readers
    <3>1. copy' = [copy EXCEPT ![h] = copy[h]] /\ h \notin Tails
      BY <1>0, <2>1, <2>3, <2>5
    <3> QED BY <1>0, <2>1, <2>2, <2>4, <3>1, GoOwners DEF Holding
  <2>6. CASE h \in Tails
    <3>1. copy' = [copy EXCEPT ![h] = row] /\ h \notin Readers
      BY <1>0, <1>9, <2>6 DEF PublishFails
    <3> QED BY <1>0, <2>1, <2>2, <2>6, <3>1, GoOwners DEF Holding
  <2> QED BY <2>5, <2>6 DEF Handlers
<1>10. ASSUME NEW h \in Handlers, RecordQueueFailure(h) PROVE OwnersInv'
  <2>1. Finish(h) /\ UNCHANGED <<queue, lost, abandoned>> /\ step[h] = "refused"
    BY <1>10 DEF RecordQueueFailure
  <2>2. /\ row'.fingerprint = IF copy[h].fingerprint = expected[h] THEN row.fingerprint
                              ELSE expected[h]
        /\ row'.state = IF copy[h].state = "FAILED" THEN row.state ELSE "FAILED"
    BY <1>10, RefusedEffect
  <2>3. lost \/ (copy[h].state = "PENDING" /\ copy[h].fingerprint = expected[h])
    BY <2>1 DEF OwnersInv, WritersFit, Handlers
  <2>4. \A f \in Sources : queue'[f] >= queue[f]
    BY <1>0, <2>1
  <2> QED BY <1>0, <2>1, <2>2, <2>3, <2>4, FinishOwners
<1>11. ASSUME NEW w \in Workers, NEW f \in Sources, SkipSummary(w, f) PROVE OwnersInv'
  <2>1. /\ UNCHANGED <<row, step, expected, copy, abandoned, lost>>
        /\ row.fingerprint # f \/ row.state = "SUCCEEDED"
        /\ queue' = [queue EXCEPT ![f] = @ - 1]
    BY <1>11 DEF SkipSummary, Take
  <2>2. queue' \in [Sources -> Nat]
    BY <1>0 DEF LocksInv, TypeOK
  <2>3. row.state \in UnsettledStates => queue'[row.fingerprint] >= queue[row.fingerprint]
    BY <1>0, <2>1
  <2> QED BY <1>1, <2>1, <2>2, <2>3
<1>12. ASSUME NEW w \in Workers, NEW f \in Sources, StartSummary(w, f) PROVE OwnersInv'
  <2>1. /\ step' = [step EXCEPT ![w] = "begun"] /\ copy' = [copy EXCEPT ![w] = row']
        /\ expected' = [expected EXCEPT ![w] = f]
        /\ UNCHANGED <<lost, abandoned>>
    BY <1>12 DEF StartSummary, Goto
  <2>2. row'.fingerprint = f /\ row.fingerprint = f /\ row'.state = "RUNNING"
    BY <1>12, StartEffect
  <2> QED BY <1>0, <2>1, <2>2, GoOwners DEF Holding
<1>13. ASSUME NEW w \in Workers, LoadRequirements(w) PROVE OwnersInv'
  <2>1. /\ step' = [step EXCEPT ![w] = "generating"] /\ copy' = [copy EXCEPT ![w] = copy[w]]
        /\ expected' = [expected EXCEPT ![w] = expected[w]] /\ step[w] = "begun"
        /\ UNCHANGED <<row, queue, lost, abandoned>>
    BY <1>0, <1>13 DEF LoadRequirements, Goto, LocksInv, TypeOK, Processes
  <2>2. copy[w].state = "RUNNING"
    BY <2>1 DEF OwnersInv, WritersFit
  <2> QED BY <1>0, <2>1, <2>2, GoOwners DEF Holding
<1>14. ASSUME NEW w \in Workers, FindObsolete(w) PROVE OwnersInv'
  <2>1. /\ Finish(w) /\ UNCHANGED <<row, queue, lost>>
        /\ abandoned' = (abandoned \/ row.fingerprint = expected[w])
    BY <1>14 DEF FindObsolete
  <2>2. \A f \in Sources : queue'[f] >= queue[f]
    BY <1>0, <2>1
  <2> QED BY <1>0, <2>1, <2>2, FinishOwners
<1>15. ASSUME NEW w \in Workers, NEW take \in Takes, SaveSummary(w, take) PROVE OwnersInv'
  <2>1. Finish(w) /\ UNCHANGED <<queue, lost, abandoned>> /\ step[w] = "generating"
    BY <1>15 DEF SaveSummary
  <2>2. copy[w].state = "RUNNING"
    BY <2>1 DEF OwnersInv, WritersFit
  <2>3. row'.fingerprint = row.fingerprint /\ row'.state = "SUCCEEDED"
    BY <1>15, <2>2, SaveEffect
  <2>4. \A f \in Sources : queue'[f] >= queue[f]
    BY <1>0, <2>1
  <2> QED BY <1>0, <2>1, <2>3, <2>4, FinishOwners
<1>16. ASSUME NEW w \in Workers, SaveFailure(w) PROVE OwnersInv'
  <2>1. Finish(w) /\ UNCHANGED <<queue, lost, abandoned>> /\ step[w] = "generating"
    BY <1>16 DEF SaveFailure
  <2>2. copy[w].state = "RUNNING"
    BY <2>1 DEF OwnersInv, WritersFit
  <2>3. row'.fingerprint = row.fingerprint /\ row'.state = "FAILED"
    BY <1>16, <2>2, FailEffect
  <2>4. \A f \in Sources : queue'[f] >= queue[f]
    BY <1>0, <2>1
  <2> QED BY <1>0, <2>1, <2>3, <2>4, FinishOwners
<1>17. ASSUME NEW w \in Workers, Redeliver(w) PROVE OwnersInv'
  <2>1. /\ UNCHANGED <<row, step, expected, copy, abandoned>>
        /\ lost => lost'
        /\ queue' = [queue EXCEPT ![expected[w]] = @ + 1]
    BY <1>17 DEF Redeliver, Fault
  <2>2. queue' \in [Sources -> Nat]
    BY <1>0 DEF LocksInv, TypeOK
  <2>3. row.state \in UnsettledStates => queue'[row.fingerprint] >= queue[row.fingerprint]
    BY <1>0, <2>1
  <2> QED BY <1>1, <2>1, <2>2, <2>3
<1>18. ASSUME NEW w \in Workers, CrashWorker(w) PROVE OwnersInv'
  <2>1. Finish(w) /\ UNCHANGED <<row, abandoned>> /\ (lost => lost')
    BY <1>18 DEF CrashWorker, Fault
  <2>2. expected[w] \in Sources
    BY <1>0, <1>18 DEF CrashWorker, LocksInv, StepsFit
  <2>3. /\ \A f \in Sources : queue'[f] >= queue[f]
        /\ queue'[expected[w]] > 0
    BY <1>0, <1>18, <2>2 DEF CrashWorker
  <2> QED BY <1>0, <2>1, <2>2, <2>3, FinishOwners
<1>19. ASSUME NEW p \in Handlers \cup Workers, Die(p) PROVE OwnersInv'
  <2>1. Finish(p) /\ UNCHANGED <<row, queue, abandoned>> /\ lost'
    BY <1>19 DEF Die, Fault
  <2>2. \A f \in Sources : queue'[f] >= queue[f]
    BY <1>0, <2>1
  <2> QED BY <1>0, <2>1, <2>2, FinishOwners DEF Processes
<1>20. CASE EditRequirements \/ UNCHANGED vars
  <2>1. UNCHANGED <<row, queue, step, expected, copy, abandoned, lost>>
    BY <1>20 DEF EditRequirements, vars
  <2> QED BY <1>0, <1>1, <2>1
<1>21. QED
  BY <1>2, <1>3, <1>4, <1>5, <1>6, <1>7, <1>8, <1>9, <1>10, <1>11, <1>12, <1>13,
     <1>14, <1>15, <1>16, <1>17, <1>18, <1>19, <1>20
     DEF Next, Schedule, RunSummary, Faulty

\* A summary shown as pending or running always has somebody behind it, short of a
\* process that dies for good, a task that returns as obsolete, and a tail whose
\* message is refused.
THEOREM UnsettledAreOwned == Spec => []UnsettledIsOwned
<1>1. Init => OwnersInv
  BY DEF Init, OwnersInv, WritersFit, ReadersAreCurrent, UnsettledIsOwned, NoRow, Handlers
<1> QED BY <1>1, LocksInit, LocksStep, OwnersStep, PTL DEF Spec, OwnersInv
===========================================================================
