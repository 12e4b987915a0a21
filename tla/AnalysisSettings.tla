-------------------------- MODULE AnalysisSettings --------------------------
(***************************************************************************)
(* The one row of analysis_settings, which overrides the environment's     *)
(* provider settings: its creation by whoever asks first, concurrent saves,*)
(* and the three rules that merge it with a request and the environment.   *)
(*                                                                         *)
(* A row, a request and the environment are functions from the fields to   *)
(* values.  In a request None is a field not given or blank; in the row    *)
(* None is NULL and Empty the empty string, which the merge takes for the  *)
(* same and the database does not.                                         *)
(***************************************************************************)
EXTENDS Integers

CONSTANTS
    Sessions,      \* requests, each a GET or a PATCH
    Strings,       \* values of keys, models and addresses
    Requests,      \* bodies of PATCH, as [Fields -> ...] functions
    Environments,  \* possible boot-time settings, as [Fields -> ...] functions
    Demo,          \* environment is "test" or "demo"
    None,
    Empty

Providers == {"openai", "local", "fake"}
Fields == {"ai_provider", "openai_api_key", "openai_model", "local_base_url", "local_model"}

Unfilled == {None, Empty}
Filled(x) == x \notin Unfilled

Values(f) == (IF f = "ai_provider" THEN Providers ELSE Strings) \cup Unfilled
IsPartial(v) ==
    /\ v \in [Fields -> Providers \cup Strings \cup Unfilled]
    /\ \A f \in Fields : v[f] \in Values(f)

\* Fields with a default in Settings always have a value.
Defaulted == {"ai_provider", "openai_model", "local_base_url"}

ASSUME SettingsAssumption ==
    /\ None # Empty
    /\ Unfilled \cap (Providers \cup Strings) = {}
    /\ None \notin Requests
    /\ Demo \in BOOLEAN
    /\ \A r \in Requests : IsPartial(r) /\ \A f \in Fields : r[f] # Empty
    /\ \A e \in Environments : IsPartial(e) /\ \A f \in Defaulted : Filled(e[f])

VARIABLES
    base,      \* the boot-time settings, the same for API and workers
    exists,    \* the row is committed
    row,       \* its fields
    creator,   \* sessions with an uncommitted INSERT of the row, at most one
    pc,        \* where each session is
    copy,      \* the record object each session holds
    payload,   \* the body of each session's PATCH, None for a GET
    seen       \* the row as each session's connection test found it

vars == <<base, exists, row, creator, pc, copy, payload, seen>>

\* AnalysisSettingsRecord(id=1, ai_provider="").
Blank == [f \in Fields |-> IF f = "ai_provider" THEN Empty ELSE None]

\* Nobody has saved settings yet; somebody may have read them.
Init ==
    /\ base \in Environments
    /\ exists \in BOOLEAN /\ row = Blank
    /\ creator = {}
    /\ pc = [s \in Sessions |-> "new"]
    /\ copy = [s \in Sessions |-> Blank]
    /\ payload = [s \in Sessions |-> None]
    /\ seen = [s \in Sessions |-> Blank]

----------------------------------------------------------------------------
(* The three merge rules, and what an analysis can be started with.        *)

Over(v, w) == [f \in Fields |-> IF Filled(v[f]) THEN v[f] ELSE w[f]]

\* resolve_runtime_settings: at the start of every analysis.
Resolve(record) == IF Filled(record["ai_provider"]) THEN Over(record, base) ELSE base

\* Mutant: the environment goes before what is stored.
MergedEnvironment(request, record) == Over(request, Over(base, record))

\* update_analysis_settings: what is not filled becomes the environment's, but the local
\* model empty, and the key stays as it is stored.
Merged(request, record) ==
    Over(request,
         [f \in Fields |->
             IF f = "openai_api_key" \/ Filled(record[f]) THEN record[f]
             ELSE IF f = "local_model" THEN Empty
             ELSE base[f]])

\* _effective_values: what the connection test tries.
Effective(request, record) == Over(request, Over(record, base))

\* create_requirement_provider, and the validation of a save.
Usable(v) ==
    CASE v["ai_provider"] = "fake"   -> Demo
      [] v["ai_provider"] = "openai" -> Filled(v["openai_api_key"])
      [] v["ai_provider"] = "local"  -> Filled(v["local_model"])

\* Mutant: every column is written.
FlushWhole(loaded, new) == new

\* The columns that differ from the loaded object, "" from NULL too, go over the row as
\* it is now.
Flush(loaded, new) == [f \in Fields |-> IF new[f] # loaded[f] THEN new[f] ELSE row[f]]

----------------------------------------------------------------------------
Goto(s, label) == pc' = [pc EXCEPT ![s] = label]

\* check_analysis_connection reads the row for values to try, which a session then
\* saves; to save without a test is to test and not to look at the answer.
Test(s, request) ==
    /\ pc[s] = "new"
    /\ payload' = [payload EXCEPT ![s] = request]
    /\ seen' = [seen EXCEPT ![s] = row]
    /\ Goto(s, "tested")
    /\ UNCHANGED <<base, exists, row, creator, copy>>

\* get_or_create_record: db.get, at once for a GET.
Read(s) ==
    /\ pc[s] \in {"new", "tested"}
    /\ copy' = [copy EXCEPT ![s] = row]
    /\ Goto(s, IF exists THEN "loaded" ELSE "create")
    /\ UNCHANGED <<base, exists, row, creator, payload, seen>>

\* The INSERT of id 1 waits for another uncommitted one and fails after its commit;
\* IntegrityError is not handled.
Insert(s) ==
    /\ pc[s] = "create"
    /\ creator = {}
    /\ IF exists
       THEN Goto(s, "failed") /\ UNCHANGED creator
       ELSE Goto(s, "loaded") /\ creator' = {s}
    /\ UNCHANGED <<base, exists, row, copy, payload, seen>>

\* read_analysis_settings: commit.
CommitRead(s) ==
    /\ pc[s] = "loaded"
    /\ payload[s] = None
    /\ exists' = TRUE
    /\ creator' = creator \ {s}
    /\ Goto(s, "done")
    /\ UNCHANGED <<base, row, copy, payload, seen>>

\* Mutant: the merged values are not validated.
SaveUnvalidated(s) ==
    /\ pc[s] = "loaded"
    /\ payload[s] # None
    /\ exists' = TRUE
    /\ row' = Flush(copy[s], Merged(payload[s], copy[s]))
    /\ Goto(s, "done")
    /\ creator' = creator \ {s}
    /\ UNCHANGED <<base, copy, payload, seen>>

\* update_analysis_settings: 422 rolls back, a new record too.
Save(s) ==
    /\ pc[s] = "loaded"
    /\ payload[s] # None
    /\ IF Usable(Merged(payload[s], copy[s]))
       THEN /\ exists' = TRUE
            /\ row' = Flush(copy[s], Merged(payload[s], copy[s]))
            /\ Goto(s, "done")
       ELSE /\ Goto(s, "refused")
            /\ UNCHANGED <<exists, row>>
    /\ creator' = creator \ {s}
    /\ UNCHANGED <<base, copy, payload, seen>>

Next ==
    \E s \in Sessions :
        \/ \E request \in Requests : Test(s, request)
        \/ Read(s)
        \/ Insert(s)
        \/ CommitRead(s)
        \/ Save(s)

Spec == Init /\ [][Next]_vars

----------------------------------------------------------------------------
(* Properties.                                                             *)

\* Every variable has its type.
TypeOK ==
    /\ base \in Environments
    /\ exists \in BOOLEAN
    /\ IsPartial(row)
    /\ creator \subseteq Sessions
    /\ pc \in [Sessions ->
                   {"new", "tested", "create", "loaded", "done", "refused", "failed"}]
    /\ copy \in [Sessions -> [Fields -> Providers \cup Strings \cup Unfilled]]
    /\ payload \in [Sessions -> Requests \cup {None}]
    /\ seen \in [Sessions -> [Fields -> Providers \cup Strings \cup Unfilled]]
    /\ \A s \in Sessions : IsPartial(copy[s]) /\ IsPartial(seen[s])

\* Accepted saves that started from the record nobody had filled: there can be several
\* when a GET has committed it, and each one flushes every field that it does not name.
FirstSave(s) == pc[s] = "done" /\ payload[s] # None /\ copy[s] = Blank
FirstSavesMeet == \E s, t \in Sessions : s # t /\ FirstSave(s) /\ FirstSave(t)

\* Settings that were saved start an analysis: whatever was saved at the same time
\* from whatever copies, the stored provider comes with the key or model it needs.
\* Only first saves that meet can cost the local provider its model: the later one
\* flushes "" over it, and a third session that still holds it chooses "local".
SavedSettingsAreUsable ==
    Filled(row["ai_provider"]) =>
        Usable(Resolve(row)) \/ (row["ai_provider"] = "local" /\ FirstSavesMeet)

\* A field of a save that others have overtaken: they stored something else since the
\* test, or the request names what its session had loaded, so that nothing is flushed.
Overtaken(s, f) ==
    IF payload[s][f] = None THEN row[f] # seen[s][f]
    ELSE payload[s][f] = copy[s][f] /\ row[f] # copy[s][f]

Saves(s) == pc[s] = "loaded" /\ pc'[s] = "done" /\ payload[s] # None

\* What was tested is what runs: from an accepted save on, analyses get every value
\* that its connection test has tried, although test, save and analysis each merge
\* request, record and environment by a rule of its own and others save in between,
\* up to the fields in which these have overtaken it.
SavesLeaveWhatWasTested ==
    [][\A s \in Sessions, f \in Fields :
           Saves(s) /\ ~Overtaken(s, f) =>
               Resolve(row)'[f] = Effective(payload[s], seen[s])[f]]_vars

\* Two saves from the same copy do not undo each other: a field that a request does
\* not name, and that its session found filled, keeps what others have stored in it.
UnnamedFieldsAreKept ==
    [][\A s \in Sessions, f \in Fields :
           Saves(s) /\ payload[s][f] = None /\ Filled(copy[s][f])
               => row'[f] = row[f]]_vars

----------------------------------------------------------------------------
(* Claims of the repository that the code does not keep.                   *)

\* The settings page: saved settings apply from the next analysis on.
SavedProviderApplies ==
    [][\A s \in Sessions :
           Saves(s) /\ payload[s]["ai_provider"] # None
               => Resolve(row)'["ai_provider"] = payload[s]["ai_provider"]]_vars

\* The tests refuse a save without its key or model: what is stored can be used.
StoredIsUsable == Filled(row["ai_provider"]) => Usable(Resolve(row))

\* The integration test: the settings can be read before anybody has saved any.
ReadsSucceed == \A s \in Sessions : pc[s] = "failed" => payload[s] # None
=============================================================================
