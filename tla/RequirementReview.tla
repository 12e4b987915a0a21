------------------------- MODULE RequirementReview -------------------------
(***************************************************************************)
(* Human review of extracted requirements and the compliance matrix that   *)
(* follows from it: the PATCH handlers for requirements and compliance     *)
(* items, each one transaction under the row lock of what it updates, the  *)
(* clients that send them from copies they loaded earlier, and the         *)
(* pipeline, which adds requirements, removes evidence and deletes         *)
(* documents in the meantime.                                              *)
(*                                                                         *)
(* updated_at is the token of optimistic concurrency.  Every update sets   *)
(* it to the current time, so tokens are drawn here from a counter.        *)
(* A handler that answers 404 or 409 changes nothing: it is a step that    *)
(* the model does not take.                                                *)
(***************************************************************************)
EXTENDS Integers

CONSTANTS
    Clients,        \* browser sessions of the owner of the project
    Requirements,   \* ids of requirement rows
    Documents,      \* documents of the project
    Texts,          \* requirement texts and owner notes
    Extracted,      \* the text that the model returned
    Blank,          \* the note of a new compliance item
    MaxClock,       \* bound on the number of tokens drawn
    None

ASSUME ConstantsAssumption ==
    /\ Extracted \in Texts /\ Blank \in Texts
    /\ None \notin Texts
    /\ MaxClock \in Nat

VARIABLES
    row,        \* requirements
    item,       \* compliance_items, by the requirement they belong to
    clock,      \* the last token or item id drawn
    card,       \* the requirement each client has on its screen, as it loaded it
    draft,      \* the compliance item each client has on its screen
    quoted,     \* history: the verification result of the extracted quote
    consented   \* history: confirm_unverified came with the last confirmation

vars == <<row, item, clock, card, draft, quoted, consented>>

ReviewStates == {"PENDING", "CONFIRMED", "EDITED", "REJECTED"}
MatrixStates == {"CONFIRMED", "EDITED"}
EvidenceKinds == {"none", "verified", "unverified"}

Rows == [doc : Documents, text : Texts, review : ReviewStates,
         evidence : EvidenceKinds, token : Nat]
Items == [id : Nat, note : Texts, token : Nat]
Cards == [id : Requirements, text : Texts, review : ReviewStates, token : Nat]
Drafts == [owner : Requirements, id : Nat, note : Texts, token : Nat]

ASSUME NoneAssumption ==
    /\ None \notin Rows /\ None \notin Items
    /\ None \notin Cards /\ None \notin Drafts

\* RequirementPatch; require_change rules out the patch with neither field.
Patches == [text : Texts \cup {None}, review : ReviewStates \cup {None},
            confirm : BOOLEAN]

Init ==
    /\ row = [r \in Requirements |-> None]
    /\ item = [r \in Requirements |-> None]
    /\ clock = 0
    /\ card = [c \in Clients |-> None]
    /\ draft = [c \in Clients |-> None]
    /\ quoted = [r \in Requirements |-> "none"]
    /\ consented = [r \in Requirements |-> FALSE]

----------------------------------------------------------------------------
(* The pipeline, as far as these tables see it.                            *)

\* run_analysis inserts a requirement with evidence; ids are never used again.
Extract(r, d, kind) ==
    /\ row[r] = None /\ quoted[r] = "none"
    /\ clock < MaxClock /\ clock' = clock + 1
    /\ row' = [row EXCEPT ![r] = [doc |-> d, text |-> Extracted, review |-> "PENDING",
                                  evidence |-> kind, token |-> clock + 1]]
    /\ quoted' = [quoted EXCEPT ![r] = kind]
    /\ UNCHANGED <<item, card, draft, consented>>

\* process_document deletes the blocks of the document, and ON DELETE CASCADE the
\* evidence that cites them.  The requirement rows are not touched.
ReplaceBlocks(d) ==
    /\ row' = [r \in Requirements |->
           IF row[r] # None /\ row[r].doc = d THEN [row[r] EXCEPT !.evidence = "none"]
           ELSE row[r]]
    /\ UNCHANGED <<item, clock, card, draft, quoted, consented>>

OfDocument(d) == {r \in Requirements : row[r] # None /\ row[r].doc = d}

DeleteDocument(d) ==
    /\ row' = [r \in Requirements |-> IF r \in OfDocument(d) THEN None ELSE row[r]]
    /\ item' = [r \in Requirements |-> IF r \in OfDocument(d) THEN None ELSE item[r]]
    /\ UNCHANGED <<clock, card, draft, quoted, consented>>

----------------------------------------------------------------------------
(* Reviewing a requirement.                                                *)

CardOf(r, contents) == [id |-> r, text |-> contents.text, review |-> contents.review,
                        token |-> contents.token]

LoadCard(c, r) ==
    /\ row[r] # None
    /\ card' = [card EXCEPT ![c] = CardOf(r, row[r])]
    /\ UNCHANGED <<row, item, clock, draft, quoted, consented>>

\* _require_fresh on the row as it is under the lock.
AlwaysFresh(token, expected) == TRUE
Fresh(token, expected) == token = expected

\* next_state: a changed text overrides the review state that came with it, and
\* None leaves the state alone.
AskedReview(old, patch) ==
    IF patch.text # None /\ patch.text # old.text THEN "EDITED" ELSE patch.review
NextReview(old, patch) ==
    IF AskedReview(old, patch) = None THEN old.review ELSE AskedReview(old, patch)

\* Evidence that does not verify asks for confirm_unverified; no evidence at all
\* asks for nothing.
ConsentForReviewField(old, patch) ==
    old.evidence = "unverified" /\ patch.review \in MatrixStates => patch.confirm
ConsentGiven(old, patch) ==
    old.evidence = "unverified" /\ AskedReview(old, patch) \in MatrixStates => patch.confirm

RevisedAsAsked(old, patch) ==
    [old EXCEPT !.text = IF patch.text = None THEN old.text ELSE patch.text,
                !.review = AskedReview(old, patch),
                !.token = clock + 1]
Revised(old, patch) ==
    [old EXCEPT !.text = IF patch.text = None THEN old.text ELSE patch.text,
                !.review = NextReview(old, patch),
                !.token = clock + 1]

\* CONFIRMED and EDITED make sure of an item, REJECTED removes it, PENDING leaves
\* whatever there is.
FollowByKeeping(r, review) ==
    IF review \in MatrixStates /\ item[r] = None
    THEN [id |-> clock + 1, note |-> Blank, token |-> clock + 1]
    ELSE item[r]
ItemAfter(r, review) ==
    IF review \in MatrixStates /\ item[r] = None
    THEN [id |-> clock + 1, note |-> Blank, token |-> clock + 1]
    ELSE IF review = "REJECTED" THEN None
    ELSE item[r]

PatchRequirement(c, patch) ==
    LET r == card[c].id IN
    /\ card[c] # None
    /\ row[r] # None
    /\ patch.text # None \/ patch.review # None
    /\ Fresh(row[r].token, card[c].token)
    /\ ConsentGiven(row[r], patch)
    /\ clock < MaxClock /\ clock' = clock + 1
    /\ row' = [row EXCEPT ![r] = Revised(row[r], patch)]
    /\ item' = [item EXCEPT ![r] = ItemAfter(r, NextReview(row[r], patch))]
    /\ card' = [card EXCEPT ![c] = CardOf(r, Revised(row[r], patch))]
    /\ consented' = [consented EXCEPT ![r] =
           IF AskedReview(row[r], patch) = None THEN @ ELSE patch.confirm]
    /\ UNCHANGED <<draft, quoted>>

----------------------------------------------------------------------------
(* Working on the compliance matrix.                                       *)

DraftOf(r, contents) == [owner |-> r, id |-> contents.id, note |-> contents.note,
                         token |-> contents.token]

LoadDraft(c, r) ==
    /\ item[r] # None
    /\ draft' = [draft EXCEPT ![c] = DraftOf(r, item[r])]
    /\ UNCHANGED <<row, item, clock, card, quoted, consented>>

\* The item is looked up by its own id, which a re-created item does not share.
PatchItem(c, note) ==
    LET r == draft[c].owner
        updated == [item[r] EXCEPT !.note = note, !.token = clock + 1]
    IN
    /\ draft[c] # None
    /\ item[r] # None /\ item[r].id = draft[c].id
    /\ Fresh(item[r].token, draft[c].token)
    /\ clock < MaxClock /\ clock' = clock + 1
    /\ item' = [item EXCEPT ![r] = updated]
    /\ draft' = [draft EXCEPT ![c] = DraftOf(r, updated)]
    /\ UNCHANGED <<row, card, quoted, consented>>

----------------------------------------------------------------------------
Pipeline ==
    \/ \E r \in Requirements, d \in Documents, kind \in {"verified", "unverified"} :
           Extract(r, d, kind)
    \/ \E d \in Documents : ReplaceBlocks(d) \/ DeleteDocument(d)

Client(c) ==
    \/ \E r \in Requirements : LoadCard(c, r) \/ LoadDraft(c, r)
    \/ \E patch \in Patches : PatchRequirement(c, patch)
    \/ \E note \in Texts : PatchItem(c, note)

Next == Pipeline \/ \E c \in Clients : Client(c)

Spec == Init /\ [][Next]_vars

----------------------------------------------------------------------------
(* Properties.                                                             *)

\* Every variable has its type, and no token is younger than the clock.
TypeOK ==
    /\ row \in [Requirements -> Rows \cup {None}]
    /\ item \in [Requirements -> Items \cup {None}]
    /\ clock \in 0..MaxClock
    /\ card \in [Clients -> Cards \cup {None}]
    /\ draft \in [Clients -> Drafts \cup {None}]
    /\ quoted \in [Requirements -> EvidenceKinds]
    /\ consented \in [Requirements -> BOOLEAN]
    /\ \A r \in Requirements : row[r] # None => row[r].token <= clock
    /\ \A r \in Requirements : item[r] # None => item[r].token <= clock /\ item[r].id <= clock
    /\ \A c \in Clients : card[c] # None => card[c].token <= clock
    /\ \A c \in Clients : draft[c] # None => draft[c].token <= clock /\ draft[c].id <= clock

\* Through any sequence of decisions, revisions and deletions, a confirmed or
\* edited requirement has its row in the matrix, and a rejected or deleted one
\* has none.
ItemFollowsReview ==
    \A r \in Requirements :
        IF row[r] = None THEN item[r] = None
        ELSE /\ row[r].review \in MatrixStates => item[r] # None
             /\ row[r].review = "REJECTED" => item[r] = None

\* A requirement in the matrix whose quote is known not to be in the document got
\* there, by whatever route, with the reviewer's explicit consent.
UnverifiedNeedsConsent ==
    \A r \in Requirements :
        row[r] # None /\ row[r].review \in MatrixStates /\ row[r].evidence = "unverified"
            => consented[r]

\* A decision replaces only what the session that made it, the one that now shows
\* the new token, had on the screen: neither a text nor a decision of another
\* session is overwritten unseen.
NoDecisionLost ==
    [][\A r \in Requirements :
           row[r] # None /\ row'[r] # None /\ row'[r].token # row[r].token =>
               \E c \in Clients :
                   /\ card'[c] = CardOf(r, row'[r])
                   /\ card[c] # None /\ card[c].id = r
                   /\ card[c].text = row[r].text /\ card[c].review = row[r].review]_vars

\* An owner note is replaced only by a session that had it on the screen, and a
\* note typed for a matrix row that was removed never lands on its successor.
NoNoteLost ==
    [][\A r \in Requirements :
           item[r] # None /\ item'[r] # None /\ item'[r] # item[r] =>
               /\ item'[r].id = item[r].id
               /\ \E c \in Clients :
                      /\ draft'[c] = DraftOf(r, item'[r])
                      /\ draft[c] # None /\ draft[c].owner = r
                      /\ draft[c].id = item[r].id /\ draft[c].note = item[r].note]_vars

----------------------------------------------------------------------------
(* Claims of the documentation that the code does not keep.                *)

\* docs/architecture.md: the compliance domain consumes only confirmed or edited
\* requirements.
MatrixIsOfConfirmed ==
    \A r \in Requirements : item[r] # None => row[r].review \in MatrixStates

\* docs/architecture.md: a requirement with verified=False cannot be confirmed
\* without confirm_unverified=true.
QuotedUnverifiedNeedsConsent ==
    \A r \in Requirements :
        row[r] # None /\ row[r].review \in MatrixStates /\ quoted[r] = "unverified"
            => consented[r]
===========================================================================
