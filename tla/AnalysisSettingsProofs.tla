----------------------- MODULE AnalysisSettingsProofs -----------------------
(***************************************************************************)
(* The stored settings for any number of sessions, any values and any      *)
(* environment.                                                            *)
(***************************************************************************)
EXTENDS AnalysisSettings, TLAPS

----------------------------------------------------------------------------
(* The merge rules.                                                        *)

\* What each field may hold, without the definitions behind it.
LEMMA FieldValues ==
    ASSUME NEW v, IsPartial(v)
    PROVE  /\ v["ai_provider"] \in Providers \cup Unfilled
           /\ \A f \in Fields : v[f] \in Values(f)
           /\ v \in [Fields -> Providers \cup Strings \cup Unfilled]
  BY DEF IsPartial, Fields, Values

\* A request gives a field or leaves it out, and the environment has what it must have.
LEMMA Given ==
    ASSUME base \in Environments, NEW request \in Requests
    PROVE  /\ IsPartial(base) /\ IsPartial(request)
           /\ \A f \in Fields : Filled(request[f]) <=> request[f] # None
           /\ Filled(base["ai_provider"]) /\ Filled(base["openai_model"])
           /\ Filled(base["local_base_url"])
  BY SettingsAssumption DEF Filled, Unfilled, Fields, Defaulted

\* What a save leaves in a field: a value, but for the key and the empty local model.
Settled(f, x) == Filled(x) \/ f = "openai_api_key" \/ (f = "local_model" /\ x = Empty)

\* What a merge holds in each field, and that it always names a provider.
LEMMA MergedFields ==
    ASSUME base \in Environments, NEW request \in Requests, NEW record, IsPartial(record)
    PROVE  /\ \A f \in Fields :
                  Merged(request, record)[f] =
                      IF Filled(request[f]) THEN request[f]
                      ELSE IF f = "openai_api_key" \/ Filled(record[f]) THEN record[f]
                      ELSE IF f = "local_model" THEN Empty ELSE base[f]
           /\ Merged(request, record)["ai_provider"] \in Providers
           /\ \A f \in Fields : Settled(f, Merged(request, record)[f])
<1>1. \A f \in Fields :
          Merged(request, record)[f] =
              IF Filled(request[f]) THEN request[f]
              ELSE IF f = "openai_api_key" \/ Filled(record[f]) THEN record[f]
              ELSE IF f = "local_model" THEN Empty ELSE base[f]
  BY DEF Merged, Over
<1>2. "ai_provider" \in Fields
  BY DEF Fields
<1>3. Filled(Merged(request, record)["ai_provider"])
  BY <1>1, <1>2, Given
<1>4. Merged(request, record)["ai_provider"] \in Providers
  BY <1>1, <1>2, <1>3, Given, FieldValues DEF Filled
<1>5. \A f \in Fields : Settled(f, Merged(request, record)[f])
  BY <1>1, Given DEF Fields, Settled
<1> QED
  BY <1>1, <1>4, <1>5

\* A request merges with a record into a record.
LEMMA MergedIsPartial ==
    ASSUME base \in Environments, NEW request \in Requests, NEW record, IsPartial(record)
    PROVE  IsPartial(Merged(request, record))
<1>1. \A f \in Fields : /\ request[f] \in Values(f) /\ record[f] \in Values(f)
                        /\ base[f] \in Values(f) /\ Empty \in Values(f)
  BY Given, FieldValues DEF Values, Unfilled
<1>2. \A f \in Fields : Merged(request, record)[f] \in Values(f)
  BY <1>1, MergedFields
<1>3. \A f \in Fields : Values(f) \subseteq Providers \cup Strings \cup Unfilled
  BY DEF Values
<1>4. Merged(request, record) = [f \in Fields |-> Merged(request, record)[f]]
  BY DEF Merged, Over
<1> HIDE DEF Merged
<1> QED
  BY <1>2, <1>3, <1>4 DEF IsPartial

\* What can start an analysis, without CASE.
LEMMA UsableCases ==
    ASSUME NEW v, v["ai_provider"] \in Providers
    PROVE  Usable(v) <=>
               /\ v["ai_provider"] = "fake" => Demo
               /\ v["ai_provider"] = "openai" => Filled(v["openai_api_key"])
               /\ v["ai_provider"] = "local" => Filled(v["local_model"])
<1>1. CASE v["ai_provider"] = "fake"
  BY <1>1, SettingsAssumption DEF Usable
<1>2. CASE v["ai_provider"] = "openai"
  BY <1>2 DEF Usable
<1>3. CASE v["ai_provider"] = "local"
  BY <1>3 DEF Usable
<1> QED
  BY <1>1, <1>2, <1>3 DEF Providers

----------------------------------------------------------------------------
(* Types.                                                                  *)

\* Every variable has its type in every state of the settings.
THEOREM TypeCorrect == Spec => []TypeOK
<1>1. Init => TypeOK
  <2>1. IsPartial(Blank)
    BY DEF Blank, IsPartial, Values, Unfilled
  <2>2. Blank \in [Fields -> Providers \cup Strings \cup Unfilled]
    BY DEF Blank, Unfilled
  <2> QED
    BY <2>1, <2>2 DEF Init, TypeOK
<1>2. TypeOK /\ [Next]_vars => TypeOK'
  <2> SUFFICES ASSUME TypeOK, [Next]_vars
               PROVE  TypeOK'
    OBVIOUS
  <2>0. row \in [Fields -> Providers \cup Strings \cup Unfilled]
    BY DEF TypeOK, IsPartial
  <2>1. ASSUME NEW s \in Sessions, NEW request \in Requests, Test(s, request)
       PROVE  TypeOK'
    <3>1. \A i \in Sessions : seen'[i] = row \/ seen'[i] = seen[i]
      BY <2>1 DEF TypeOK, Test
    <3> QED
      BY <2>0, <2>1, <3>1 DEF Test, TypeOK, Goto
  <2>2. ASSUME NEW s \in Sessions, Read(s)
       PROVE  TypeOK'
    <3>1. \A i \in Sessions : copy'[i] = row \/ copy'[i] = copy[i]
      BY <2>2 DEF TypeOK, Read
    <3> QED
      BY <2>0, <2>2, <3>1 DEF Read, TypeOK, Goto
  <2>3. ASSUME NEW s \in Sessions, Insert(s)
       PROVE  TypeOK'
    BY <2>3 DEF Insert, TypeOK, Goto
  <2>4. ASSUME NEW s \in Sessions, CommitRead(s)
       PROVE  TypeOK'
    BY <2>4 DEF CommitRead, TypeOK, Goto
  <2>5. ASSUME NEW s \in Sessions, Save(s)
       PROVE  TypeOK'
    <3>1. payload[s] \in Requests /\ IsPartial(copy[s]) /\ IsPartial(row) /\ base \in Environments
      BY <2>5 DEF Save, TypeOK
    <3>2. IsPartial(Flush(copy[s], Merged(payload[s], copy[s])))
      BY <3>1, MergedIsPartial DEF IsPartial, Flush, Values
    <3>3. IsPartial(row')
      BY <2>5, <3>1, <3>2 DEF Save
    <3> QED
      BY <2>5, <3>3 DEF Save, TypeOK, Goto
  <2>6. CASE UNCHANGED vars
    BY <2>6 DEF vars, TypeOK
  <2> QED
    BY <2>1, <2>2, <2>3, <2>4, <2>5, <2>6 DEF Next
<1> QED
  BY <1>1, <1>2, PTL DEF Spec

----------------------------------------------------------------------------
(* The inductive invariant: what no save takes back.                       *)

Saved(record) == Filled(record["ai_provider"])

\* A record is blank or was saved, and a saved one has no NULL but for the key.
IsRecord(record) ==
    /\ ~Saved(record) => record = Blank
    /\ Saved(record) => \A f \in Fields : Settled(f, record[f])

RecordsAreWhole ==
    /\ IsRecord(row)
    /\ \A s \in Sessions : IsRecord(copy[s]) /\ IsRecord(seen[s])

\* A field that some session has found filled is still filled: no save empties one, up
\* to the local model when first saves meet.
FilledStaysFilled ==
    \A s \in Sessions, f \in Fields :
        Filled(copy[s][f]) => Filled(row[f]) \/ (f = "local_model" /\ FirstSavesMeet)

\* Somebody saved the blank record first, and who saw it saved has loaded it saved.
SavesComeInOrder ==
    /\ Saved(row) => \E s \in Sessions : FirstSave(s)
    /\ \A s \in Sessions :
           Saved(seen[s]) =>
               Saved(row) /\ (pc[s] \in {"create", "loaded"} => Saved(copy[s]))

SettingsInv ==
    /\ TypeOK
    /\ RecordsAreWhole
    /\ FilledStaysFilled
    /\ SavesComeInOrder
    /\ SavedSettingsAreUsable

\* The row after an accepted save: each field is what the merge changed, or what it was.
LEMMA SavedRow ==
    ASSUME TypeOK, NEW s \in Sessions, Save(s), Usable(Merged(payload[s], copy[s]))
    PROVE  /\ payload[s] \in Requests /\ base \in Environments
           /\ IsPartial(row) /\ IsPartial(copy[s])
           /\ \A f \in Fields :
                  row'[f] = IF Merged(payload[s], copy[s])[f] # copy[s][f]
                            THEN Merged(payload[s], copy[s])[f] ELSE row[f]
  BY DEF TypeOK, Save, Flush

\* Only an accepted save writes the row.
LEMMA RowIsKept ==
    ASSUME [Next]_vars
    PROVE  \/ row' = row
           \/ \E s \in Sessions : Save(s) /\ Usable(Merged(payload[s], copy[s]))
<1>1. ASSUME NEW s \in Sessions, Save(s)
     PROVE  row' = row \/ Usable(Merged(payload[s], copy[s]))
  BY <1>1 DEF Save
<1> QED
  BY <1>1 DEF Next, vars, Test, Read, Insert, CommitRead

\* A step loads or tests nothing but the row as it is, and a finished save stays one.
LEMMA LoadsTheRow ==
    ASSUME TypeOK, [Next]_vars
    PROVE  /\ base' = base
           /\ \A s \in Sessions : copy'[s] = copy[s] \/ (copy'[s] = row /\ row' = row)
           /\ \A s \in Sessions : seen'[s] = seen[s] \/ (seen'[s] = row /\ row' = row)
           /\ \A s \in Sessions : FirstSave(s) => FirstSave(s)'
           /\ FirstSavesMeet => FirstSavesMeet'
<1> USE DEF TypeOK
<1>1. /\ base' = base
      /\ \A s \in Sessions : copy'[s] = copy[s] \/ (copy'[s] = row /\ row' = row)
      /\ \A s \in Sessions : seen'[s] = seen[s] \/ (seen'[s] = row /\ row' = row)
  BY DEF Next, vars, Test, Read, Insert, CommitRead, Save
<1>2. ASSUME NEW s \in Sessions, FirstSave(s)
     PROVE  FirstSave(s)'
  BY <1>2 DEF FirstSave, Next, vars, Test, Read, Insert, CommitRead, Save, Goto
<1> QED
  BY <1>1, <1>2 DEF FirstSavesMeet

\* An accepted save leaves a saved record, with every field that it loaded filled and
\* with none emptied that it loaded so.
LEMMA SavedFields ==
    ASSUME TypeOK, RecordsAreWhole, FilledStaysFilled,
           NEW s \in Sessions, Save(s), Usable(Merged(payload[s], copy[s]))
    PROVE  /\ Saved(row')
           /\ IsRecord(row')
           /\ FirstSave(s)' <=> ~Saved(copy[s])
           /\ \A f \in Fields : Filled(Merged(payload[s], copy[s])[f]) =>
                  Filled(row'[f]) \/ (f = "local_model" /\ FirstSavesMeet)
           /\ \A f \in Fields : Filled(row[f]) =>
                  Filled(row'[f]) \/ (f = "local_model" /\ ~Saved(copy[s]))
<1> DEFINE new == Merged(payload[s], copy[s])
<1>1. /\ payload[s] \in Requests /\ base \in Environments
      /\ IsPartial(row) /\ IsPartial(copy[s])
      /\ \A f \in Fields : row'[f] = IF new[f] # copy[s][f] THEN new[f] ELSE row[f]
  BY SavedRow
<1>2. /\ \A f \in Fields :
             new[f] = IF Filled(payload[s][f]) THEN payload[s][f]
                      ELSE IF f = "openai_api_key" \/ Filled(copy[s][f]) THEN copy[s][f]
                      ELSE IF f = "local_model" THEN Empty ELSE base[f]
      /\ new["ai_provider"] \in Providers
      /\ \A f \in Fields : Settled(f, new[f])
  BY <1>1, MergedFields
<1>3. new = Merged(payload[s], copy[s])
  OBVIOUS
<1> HIDE DEF new
<1>4. /\ IsRecord(row) /\ IsRecord(copy[s])
      /\ \A f \in Fields :
             Filled(copy[s][f]) => Filled(row[f]) \/ (f = "local_model" /\ FirstSavesMeet)
  BY DEF RecordsAreWhole, FilledStaysFilled
<1>5. "ai_provider" \in Fields
  BY DEF Fields
<1>6. Filled(new["ai_provider"])
  BY <1>2, SettingsAssumption DEF Filled
<1>7. Saved(row')
  BY <1>1, <1>4, <1>5, <1>6 DEF Saved
<1>8. \A f \in Fields : Settled(f, row'[f])
  <2> TAKE f \in Fields
  <2>1. CASE new[f] # copy[s][f]
    BY <2>1, <1>1, <1>2
  <2>2. CASE new[f] = copy[s][f] /\ Saved(row)
    BY <2>2, <1>1, <1>4 DEF IsRecord
  <2>3. CASE new[f] = copy[s][f] /\ ~Saved(row)
    <3>1. ~Saved(copy[s])
      BY <2>3, <1>4, <1>5 DEF Saved
    <3>2. copy[s] = Blank /\ row = Blank
      BY <2>3, <3>1, <1>4 DEF IsRecord
    <3> QED
      BY <2>3, <3>2, <1>1, <1>2
  <2> QED
    BY <2>1, <2>2, <2>3
<1>9. FirstSave(s)' <=> ~Saved(copy[s])
  <2>1. pc'[s] = "done" /\ payload'[s] # None /\ copy'[s] = copy[s]
    BY <1>3 DEF Save, Goto, TypeOK
  <2>2. copy[s] = Blank <=> ~Saved(copy[s])
    BY <1>4, <1>5 DEF IsRecord, Saved, Blank, Filled, Unfilled
  <2> QED
    BY <2>1, <2>2 DEF FirstSave
<1>10. \A f \in Fields : Filled(new[f]) => Filled(row'[f]) \/ (f = "local_model" /\ FirstSavesMeet)
  BY <1>1, <1>4
<1>11. ASSUME NEW f \in Fields, Filled(row[f])
       PROVE  Filled(row'[f]) \/ (f = "local_model" /\ ~Saved(copy[s]))
  <2>1. CASE new[f] = copy[s][f] \/ Filled(new[f])
    BY <2>1, <1>1, <1>11
  <2>2. CASE new[f] # copy[s][f] /\ ~Filled(new[f])
    <3>1. /\ f = "local_model" /\ new[f] = Empty /\ ~Filled(copy[s][f])
      <4>1. f # "openai_api_key" /\ ~Filled(payload[s][f]) /\ ~Filled(copy[s][f])
        BY <2>2, <1>2
      <4>2. f \in Fields \ {"openai_api_key", "local_model"} => Filled(base[f])
        BY <1>1, Given DEF Fields
      <4> QED
        BY <2>2, <4>1, <4>2, <1>2
    <3>2. copy[s][f] = None
      BY <2>2, <3>1 DEF Filled, Unfilled
    <3> QED
      BY <3>1, <3>2, <1>4, SettingsAssumption DEF IsRecord, Settled, Filled, Unfilled
  <2> QED
    BY <2>1, <2>2
<1> QED
  BY <1>3, <1>7, <1>8, <1>9, <1>10, <1>11 DEF IsRecord

\* No save leaves a NULL beside a provider.
LEMMA WholeStep ==
    ASSUME TypeOK, RecordsAreWhole, FilledStaysFilled, [Next]_vars
    PROVE  RecordsAreWhole'
<1>1. IsRecord(row')
  BY RowIsKept, SavedFields DEF RecordsAreWhole
<1>2. \A s \in Sessions : IsRecord(copy'[s]) /\ IsRecord(seen'[s])
  BY LoadsTheRow DEF RecordsAreWhole
<1> QED
  BY <1>1, <1>2 DEF RecordsAreWhole

\* Saves come in order: the first that is accepted started from the blank record.
LEMMA OrderStep ==
    ASSUME TypeOK, RecordsAreWhole, FilledStaysFilled, SavesComeInOrder, [Next]_vars
    PROVE  SavesComeInOrder'
<1>1. Saved(row) => Saved(row')
  BY RowIsKept, SavedFields
<1>2. ASSUME Saved(row')
      PROVE  \E s \in Sessions : FirstSave(s)'
  <2>1. CASE Saved(row)
    BY <2>1, LoadsTheRow DEF SavesComeInOrder
  <2>2. CASE ~Saved(row)
    <3>1. PICK s \in Sessions : Save(s) /\ Usable(Merged(payload[s], copy[s]))
      BY <2>2, <1>2, RowIsKept
    <3>2. "ai_provider" \in Fields
      BY DEF Fields
    <3>3. ~Saved(copy[s])
      BY <2>2, <3>2 DEF FilledStaysFilled, Saved
    <3> QED
      BY <3>1, <3>3, SavedFields
  <2> QED
    BY <2>1, <2>2
<1>3. ASSUME NEW s \in Sessions, Saved(seen'[s])
      PROVE  /\ Saved(row')
             /\ pc'[s] \in {"create", "loaded"} => Saved(copy'[s])
  <2>1. ASSUME NEW i \in Sessions, NEW request \in Requests, Test(i, request)
        PROVE  /\ Saved(row')
               /\ pc'[s] \in {"create", "loaded"} => Saved(copy'[s])
    BY <1>3, <2>1 DEF Test, Goto, TypeOK, SavesComeInOrder
  <2>2. ASSUME NEW i \in Sessions, Read(i)
        PROVE  /\ Saved(row')
               /\ pc'[s] \in {"create", "loaded"} => Saved(copy'[s])
    BY <1>3, <2>2 DEF Read, Goto, TypeOK, SavesComeInOrder
  <2>3. ASSUME NEW i \in Sessions, Insert(i) \/ CommitRead(i) \/ Save(i)
        PROVE  /\ Saved(row')
               /\ pc'[s] \in {"create", "loaded"} => Saved(copy'[s])
    <3>1. seen' = seen /\ copy' = copy
      BY <2>3 DEF Insert, CommitRead, Save
    <3>2. pc'[s] \in {"create", "loaded"} => pc[s] \in {"create", "loaded"}
      BY <2>3 DEF Insert, CommitRead, Save, Goto, TypeOK
    <3> QED
      BY <1>1, <1>3, <3>1, <3>2 DEF SavesComeInOrder
  <2>4. CASE UNCHANGED vars
    BY <1>3, <2>4 DEF vars, SavesComeInOrder
  <2> QED
    BY <2>1, <2>2, <2>3, <2>4 DEF Next
<1> QED
  BY <1>2, <1>3 DEF SavesComeInOrder, Saved, FirstSave

\* Where a save from the blank record meets a saved row, another one came first.
LEMMA FirstSavesMeeting ==
    ASSUME TypeOK, RecordsAreWhole, FilledStaysFilled, SavesComeInOrder, [Next]_vars,
           NEW s \in Sessions, Save(s), Usable(Merged(payload[s], copy[s])),
           Saved(row), ~Saved(copy[s])
    PROVE  FirstSavesMeet'
<1>1. FirstSave(s)'
  BY SavedFields
<1>2. PICK t \in Sessions : FirstSave(t)
  BY DEF SavesComeInOrder
<1>3. t # s /\ FirstSave(t)'
  BY <1>2, LoadsTheRow DEF FirstSave, Save
<1> QED
  BY <1>1, <1>3 DEF FirstSavesMeet

\* No save empties a field, but the local model when first saves meet.
LEMMA FilledStep ==
    ASSUME TypeOK, RecordsAreWhole, FilledStaysFilled, SavesComeInOrder, [Next]_vars
    PROVE  /\ FilledStaysFilled'
           /\ \A f \in Fields : Filled(row[f]) =>
                  Filled(row'[f]) \/ (f = "local_model" /\ FirstSavesMeet')
<1>1. ASSUME NEW f \in Fields, Filled(row[f])
      PROVE  Filled(row'[f]) \/ (f = "local_model" /\ FirstSavesMeet')
  <2>1. ASSUME NEW s \in Sessions, Save(s), Usable(Merged(payload[s], copy[s])),
               ~Filled(row'[f])
        PROVE  f = "local_model" /\ FirstSavesMeet'
    <3>1. f = "local_model" /\ ~Saved(copy[s])
      BY <1>1, <2>1, SavedFields
    <3>2. Saved(row)
      BY <1>1, <3>1 DEF RecordsAreWhole, IsRecord, Blank, Filled, Unfilled
    <3> QED
      BY <2>1, <3>1, <3>2, FirstSavesMeeting
  <2> QED
    BY <1>1, <2>1, RowIsKept
<1>2. ASSUME NEW s \in Sessions, NEW f \in Fields, Filled(copy'[s][f])
      PROVE  Filled(row'[f]) \/ (f = "local_model" /\ FirstSavesMeet')
  BY <1>1, <1>2, LoadsTheRow DEF FilledStaysFilled
<1> QED
  BY <1>1, <1>2 DEF FilledStaysFilled

\* An accepted save leaves settings that start an analysis, whichever of its fields the
\* database takes from it and whichever from a save that came in between.
LEMMA UsableStep ==
    ASSUME SettingsInv, [Next]_vars
    PROVE  SavedSettingsAreUsable'
<1> SUFFICES ASSUME Filled(row'["ai_provider"]),
                    ~(row'["ai_provider"] = "local" /\ FirstSavesMeet')
             PROVE  Usable(Resolve(row))'
  BY DEF SavedSettingsAreUsable
<1> USE DEF SettingsInv
<1>1. base' = base /\ (FirstSavesMeet => FirstSavesMeet')
  BY LoadsTheRow
<1>2. CASE row' = row
  <2>1. Resolve(row)' = Resolve(row)
    BY <1>1, <1>2 DEF Resolve
  <2>2. Usable(Resolve(row))
    BY <1>1, <1>2 DEF SavedSettingsAreUsable
  <2> QED
    BY <2>1, <2>2 DEF Usable
<1>3. ASSUME NEW s \in Sessions, Save(s), Usable(Merged(payload[s], copy[s]))
     PROVE  Usable(Resolve(row))'
  <2> DEFINE new == Merged(payload[s], copy[s])
             provider == row'["ai_provider"]
             Key(f) == Filled(row'[f]) \/ Filled(base[f])
  <2>0. IsPartial(row) /\ IsPartial(copy[s]) /\ payload[s] \in Requests /\ base \in Environments
    BY <1>3, SavedRow
  <2>1. /\ Usable(new) /\ new["ai_provider"] \in Providers
        /\ \A f \in Fields : row'[f] = IF new[f] # copy[s][f] THEN new[f] ELSE row[f]
        /\ \A f \in Fields : Filled(new[f]) =>
               Filled(row'[f]) \/ (f = "local_model" /\ FirstSavesMeet)
    BY <1>3, <2>0, SavedRow, SavedFields, MergedFields
  <2> HIDE DEF new
  <2>2. "ai_provider" \in Fields /\ "openai_api_key" \in Fields /\ "local_model" \in Fields
    BY DEF Fields
  <2>3. provider \in Providers /\ (provider = new["ai_provider"] \/ provider = row["ai_provider"])
    BY <2>0, <2>1, <2>2, FieldValues DEF Filled
  <2>4. \A f \in Fields : Filled(row[f]) =>
            Filled(row'[f]) \/ (f = "local_model" /\ FirstSavesMeet')
    BY FilledStep
  <2>5. Filled(row["ai_provider"]) =>
            /\ Resolve(row)["ai_provider"] = row["ai_provider"]
            /\ \A f \in Fields : Resolve(row)[f] = IF Filled(row[f]) THEN row[f] ELSE base[f]
    BY <2>2 DEF Resolve, Over
  <2>6. /\ provider = "fake" => Demo
        /\ provider = "openai" => Key("openai_api_key")
        /\ provider = "local" => Key("local_model")
    <3>1. CASE provider = new["ai_provider"]
      <4>1. /\ provider = "fake" => Demo
            /\ provider = "openai" => Filled(new["openai_api_key"])
            /\ provider = "local" => Filled(new["local_model"])
        BY <3>1, <2>1, UsableCases
      <4> QED
        BY <4>1, <2>1, <2>2, <1>1
    <3>2. CASE provider = row["ai_provider"]
      <4>1. Filled(row["ai_provider"]) /\ row["ai_provider"] \in Providers
        BY <3>2, <2>3
      <4>2. Usable(Resolve(row))
        BY <3>2, <4>1, <1>1 DEF SavedSettingsAreUsable
      <4>3. /\ provider = "fake" => Demo
            /\ provider = "openai" => Filled(row["openai_api_key"]) \/ Filled(base["openai_api_key"])
            /\ provider = "local" => Filled(row["local_model"]) \/ Filled(base["local_model"])
        BY <3>2, <4>1, <4>2, <2>2, <2>5, UsableCases
      <4> QED
        BY <4>3, <2>2, <2>4, <1>1
    <3> QED
      BY <2>3, <3>1, <3>2
  <2> DEFINE resolved == Resolve(row)'
  <2>7. /\ resolved["ai_provider"] = provider
        /\ \A f \in Fields : resolved[f] = IF Filled(row'[f]) THEN row'[f] ELSE base[f]
    BY <1>1, <2>2 DEF Resolve, Over
  <2> HIDE DEF resolved
  <2>8. Usable(resolved)
    BY <2>2, <2>3, <2>6, <2>7, UsableCases
  <2> QED
    BY <2>8 DEF resolved, Usable
<1> QED
  BY <1>2, <1>3, RowIsKept

\* The strengthened invariant is inductive.
THEOREM SettingsInvariant == Spec => []SettingsInv
<1>1. Init => RecordsAreWhole /\ FilledStaysFilled /\ SavesComeInOrder /\ SavedSettingsAreUsable
  <2> SUFFICES ASSUME Init
               PROVE  /\ RecordsAreWhole /\ FilledStaysFilled /\ SavesComeInOrder
                      /\ SavedSettingsAreUsable
    OBVIOUS
  <2>1. row = Blank /\ \A s \in Sessions : copy[s] = Blank /\ seen[s] = Blank
    BY DEF Init
  <2>2. ~Saved(Blank) /\ \A f \in Fields : ~Filled(Blank[f])
    BY DEF Saved, Blank, Fields, Filled, Unfilled
  <2> QED
    BY <2>1, <2>2 DEF RecordsAreWhole, IsRecord, FilledStaysFilled, SavesComeInOrder,
                      SavedSettingsAreUsable, Saved
<1>2. TypeOK /\ SettingsInv /\ [Next]_vars
          => /\ RecordsAreWhole' /\ FilledStaysFilled' /\ SavesComeInOrder'
             /\ SavedSettingsAreUsable'
  BY WholeStep, FilledStep, OrderStep, UsableStep DEF SettingsInv
<1> QED
  BY <1>1, <1>2, TypeCorrect, PTL DEF Spec, SettingsInv

\* Settings that were saved start an analysis, whatever was saved at the same time, up to
\* the local provider's model when first saves meet.
THEOREM SavedAreUsable == Spec => []SavedSettingsAreUsable
  BY SettingsInvariant, PTL DEF SettingsInv

----------------------------------------------------------------------------
(* What an accepted save leaves.                                           *)

\* Who saves is the session whose save is accepted, and the row changes as it says.
LEMMA SavesSave ==
    ASSUME TypeOK, [Next]_vars, NEW s \in Sessions, Saves(s)
    PROVE  Save(s) /\ Usable(Merged(payload[s], copy[s]))
<1>1. ASSUME NEW i \in Sessions, i # s
      PROVE  /\ ~Insert(i) /\ ~CommitRead(i) /\ ~Save(i) /\ ~Read(i)
             /\ \A request \in Requests : ~Test(i, request)
  BY <1>1 DEF Saves, TypeOK, Insert, CommitRead, Save, Read, Test, Goto
<1>2. Save(s)
  BY <1>1 DEF Saves, TypeOK, Next, vars, Insert, CommitRead, Read, Test, Goto
<1> QED
  BY <1>2 DEF Saves, Save, Goto, TypeOK

\* From an accepted save on, analyses get what its connection test has tried, whatever
\* others save in between, up to the fields in which they have overtaken it.
THEOREM TestedIsSaved == Spec => SavesLeaveWhatWasTested
<1> DEFINE Left ==
        \A s \in Sessions, f \in Fields :
            Saves(s) /\ ~Overtaken(s, f) =>
                Resolve(row)'[f] = Effective(payload[s], seen[s])[f]
<1>1. ASSUME SettingsInv, [Next]_vars
     PROVE  Left
  <2> SUFFICES ASSUME NEW s \in Sessions, NEW f \in Fields, Saves(s), ~Overtaken(s, f)
               PROVE  Resolve(row)'[f] = Effective(payload[s], seen[s])[f]
    OBVIOUS
  <2> DEFINE new == Merged(payload[s], copy[s])
  <2>1. Save(s) /\ Usable(new) /\ TypeOK /\ base' = base
    BY <1>1, SavesSave, LoadsTheRow DEF SettingsInv
  <2>2. /\ payload[s] \in Requests /\ base \in Environments
        /\ IsPartial(row) /\ IsPartial(copy[s])
        /\ row'[f] = IF new[f] # copy[s][f] THEN new[f] ELSE row[f]
    BY <2>1, SavedRow
  <2>3. /\ new[f] = IF Filled(payload[s][f]) THEN payload[s][f]
                    ELSE IF f = "openai_api_key" \/ Filled(copy[s][f]) THEN copy[s][f]
                    ELSE IF f = "local_model" THEN Empty ELSE base[f]
        /\ Filled(payload[s][f]) <=> payload[s][f] # None
    BY <2>2, MergedFields, Given
  <2> HIDE DEF new
  <2>4. Effective(payload[s], seen[s])[f] =
            IF Filled(payload[s][f]) THEN payload[s][f]
            ELSE IF Filled(seen[s][f]) THEN seen[s][f] ELSE base[f]
    BY DEF Effective, Over
  <2>5. Resolve(row)'[f] = IF Filled(row'[f]) THEN row'[f] ELSE base[f]
    <3>1. Saved(row')
      BY <1>1, <2>1, SavedFields DEF SettingsInv, new
    <3> QED
      BY <2>1, <3>1 DEF Resolve, Over, Saved
  <2>6. CASE Filled(payload[s][f])
    BY <2>2, <2>3, <2>4, <2>5, <2>6 DEF Overtaken
  <2>7. CASE ~Filled(payload[s][f]) /\ new[f] = copy[s][f]
    <3>1. row[f] = seen[s][f]
      BY <2>3, <2>7 DEF Overtaken
    <3> QED
      BY <2>2, <2>4, <2>5, <2>7, <3>1
  <2>8. CASE ~Filled(payload[s][f]) /\ new[f] # copy[s][f]
    <3>1. ~Filled(copy[s][f]) /\ f # "openai_api_key"
      BY <2>3, <2>8
    <3>2. ~Saved(copy[s])
      <4>1. f = "local_model" => copy[s][f] = None
        BY <3>1, <2>3, <2>8 DEF Filled, Unfilled
      <4>2. ~Settled(f, copy[s][f])
        BY <3>1, <4>1, SettingsAssumption DEF Settled
      <4> QED
        BY <4>2, <1>1 DEF SettingsInv, RecordsAreWhole, IsRecord
    <3>3. ~Filled(seen[s][f])
      BY <1>1, <3>2, <2>1 DEF Saves, SettingsInv, SavesComeInOrder, RecordsAreWhole, IsRecord,
                              Blank, Filled, Unfilled
    <3>4. new[f] = IF f = "local_model" THEN Empty ELSE base[f]
      BY <2>3, <2>8, <3>1
    <3> QED
      BY <2>2, <2>4, <2>5, <2>8, <3>3, <3>4 DEF Filled, Unfilled
  <2> QED
    BY <2>6, <2>7, <2>8
<1>2. Spec => [][Left]_vars
  BY <1>1, SettingsInvariant, PTL DEF Spec
<1> QED
  BY <1>2 DEF SavesLeaveWhatWasTested

\* A save leaves alone what its request does not name and its session found filled.
THEOREM UnnamedAreKept == Spec => UnnamedFieldsAreKept
<1> DEFINE Kept ==
        \A s \in Sessions, f \in Fields :
            Saves(s) /\ payload[s][f] = None /\ Filled(copy[s][f])
                => row'[f] = row[f]
<1>1. ASSUME TypeOK, [Next]_vars
     PROVE  Kept
  <2> SUFFICES ASSUME NEW s \in Sessions, NEW f \in Fields,
                      Saves(s), payload[s][f] = None, Filled(copy[s][f])
               PROVE  row'[f] = row[f]
    OBVIOUS
  <2>1. Save(s) /\ Usable(Merged(payload[s], copy[s]))
    BY <1>1, SavesSave
  <2>2. Merged(payload[s], copy[s])[f] = copy[s][f]
    BY <1>1, <2>1, SavedRow, MergedFields, Given
  <2> QED
    BY <1>1, <2>1, <2>2, SavedRow
<1>2. Spec => [][Kept]_vars
  BY <1>1, TypeCorrect, PTL DEF Spec
<1> QED
  BY <1>2 DEF UnnamedFieldsAreKept
=============================================================================
