---------------------- MODULE RequirementReviewProofs ----------------------
(***************************************************************************)
(* What holds of RequirementReview for any number of sessions,             *)
(* requirements, documents, texts and tokens, and of the review page over  *)
(* it, ReviewCards.                                                        *)
(***************************************************************************)
EXTENDS ReviewCards, TLAPS

USE DEF ReviewStates, MatrixStates, EvidenceKinds

\* A revised requirement is a requirement, with the token just drawn.
LEMMA RevisedType ==
    ASSUME NEW old \in Rows, NEW patch \in Patches, clock \in Nat
    PROVE  /\ Revised(old, patch) \in Rows
           /\ Revised(old, patch).token = clock + 1
           /\ Revised(old, patch).review = NextReview(old, patch)
           /\ Revised(old, patch).evidence = old.evidence
           /\ Revised(old, patch).doc = old.doc
           /\ NextReview(old, patch) \in ReviewStates
<1> DEFINE text == IF patch.text = None THEN old.text ELSE patch.text
           review == NextReview(old, patch)
           first == [old EXCEPT !.text = text]
           second == [first EXCEPT !.review = review]
<1>1. text \in Texts /\ review \in ReviewStates
  BY DEF Rows, Patches, NextReview, AskedReview
<1> HIDE DEF text, review
<1>2. first \in Rows /\ first.evidence = old.evidence /\ first.doc = old.doc
  BY <1>1 DEF Rows
<1> HIDE DEF first
<1>3. /\ second \in Rows /\ second.review = review
      /\ second.evidence = old.evidence /\ second.doc = old.doc
  BY <1>1, <1>2 DEF Rows
<1> HIDE DEF second
<1>4. LET new == [second EXCEPT !.token = clock + 1]
      IN  /\ new \in Rows /\ new.token = clock + 1 /\ new.review = review
          /\ new.evidence = old.evidence /\ new.doc = old.doc
  BY <1>3 DEF Rows
<1>5. Revised(old, patch) = [second EXCEPT !.token = clock + 1]
  BY DEF Revised, first, second, text, review
<1> QED BY <1>1, <1>4, <1>5 DEF review

\* What update_requirement leaves as the matrix row of requirement r: the new one,
\* none, or the old one.
LEMMA ItemAfterType ==
    ASSUME NEW r, clock \in Nat, item[r] \in Items \cup {None}, NEW review \in ReviewStates
    PROVE  /\ ItemAfter(r, review) \in Items \cup {None}
           /\ review \in MatrixStates => ItemAfter(r, review) # None
           /\ review = "REJECTED" => ItemAfter(r, review) = None
           /\ ItemAfter(r, review) # None /\ ItemAfter(r, review) # item[r] =>
                  /\ item[r] = None
                  /\ ItemAfter(r, review).token = clock + 1
                  /\ ItemAfter(r, review).id = clock + 1
<1> DEFINE fresh == [id |-> clock + 1, note |-> Blank, token |-> clock + 1]
<1>1. fresh \in Items
  BY ConstantsAssumption DEF Items
<1>2. fresh # None
  BY <1>1, NoneAssumption
<1>3. ItemAfter(r, review) = IF review \in MatrixStates /\ item[r] = None THEN fresh
                             ELSE IF review = "REJECTED" THEN None ELSE item[r]
  BY DEF ItemAfter
<1> HIDE DEF fresh
<1>4. fresh.token = clock + 1 /\ fresh.id = clock + 1
  BY DEF fresh
<1> QED BY <1>1, <1>2, <1>3, <1>4

\* A matrix row with another note is a matrix row of the same id.
LEMMA NotedType ==
    ASSUME NEW old \in Items, NEW note \in Texts, clock \in Nat
    PROVE  LET new == [old EXCEPT !.note = note, !.token = clock + 1]
           IN  new \in Items /\ new.token = clock + 1 /\ new.id = old.id
<1> DEFINE noted == [old EXCEPT !.note = note]
<1>1. noted \in Items /\ noted.id = old.id
  BY DEF Items
<1>2. \A i \in Items : LET new == [i EXCEPT !.token = clock + 1]
                       IN  new \in Items /\ new.token = clock + 1 /\ new.id = i.id
  BY DEF Items
<1> QED BY <1>1, <1>2

\* A card shows a requirement.
LEMMA CardType ==
    ASSUME NEW r \in Requirements, NEW contents \in Rows
    PROVE  /\ CardOf(r, contents) \in Cards
           /\ CardOf(r, contents) # None
           /\ CardOf(r, contents).id = r
           /\ CardOf(r, contents).text = contents.text
           /\ CardOf(r, contents).review = contents.review
           /\ CardOf(r, contents).token = contents.token
<1>1. CardOf(r, contents) \in Cards
  BY DEF CardOf, Cards, Rows
<1>2. QED BY <1>1, NoneAssumption DEF CardOf

\* A draft shows a matrix row.
LEMMA DraftType ==
    ASSUME NEW r \in Requirements, NEW contents \in Items
    PROVE  /\ DraftOf(r, contents) \in Drafts
           /\ DraftOf(r, contents) # None
           /\ DraftOf(r, contents).owner = r
           /\ DraftOf(r, contents).id = contents.id
           /\ DraftOf(r, contents).note = contents.note
           /\ DraftOf(r, contents).token = contents.token
<1>1. DraftOf(r, contents) \in Drafts
  BY DEF DraftOf, Drafts, Items
<1>2. QED BY <1>1, NoneAssumption DEF DraftOf

----------------------------------------------------------------------------
(* The tables and the screens have their types.                            *)

\* Empty tables and empty screens have their types.
LEMMA TypeInit == Init => TypeOK
BY ConstantsAssumption DEF Init, TypeOK

\* The steps of the pipeline and of the sessions keep the types.
LEMMA TypeStep == TypeOK /\ [Next]_vars => TypeOK'
<1> SUFFICES ASSUME TypeOK, [Next]_vars PROVE TypeOK'
  OBVIOUS
<1>1. ASSUME NEW r \in Requirements, NEW d \in Documents,
             NEW kind \in {"verified", "unverified"}, Extract(r, d, kind)
      PROVE  TypeOK'
  <2> DEFINE new == [doc |-> d, text |-> Extracted, review |-> "PENDING",
                     evidence |-> kind, token |-> clock + 1]
  <2>1. new \in Rows /\ new.token = clock + 1
    BY ConstantsAssumption DEF Rows, TypeOK
  <2>2. row' = [row EXCEPT ![r] = new]
    BY <1>1 DEF Extract
  <2> HIDE DEF new
  <2>3. /\ clock' \in 0..MaxClock /\ clock' = clock + 1
        /\ UNCHANGED <<item, card, draft, consented>>
    BY <1>1, ConstantsAssumption DEF Extract, TypeOK
  <2>4. quoted' \in [Requirements -> EvidenceKinds]
    BY <1>1 DEF Extract, TypeOK
  <2>5. /\ row' \in [Requirements -> Rows \cup {None}]
        /\ \A q \in Requirements : row'[q] # None => row'[q].token <= clock'
    BY <2>1, <2>2, <2>3, ConstantsAssumption DEF TypeOK, Rows
  <2>6. /\ \A q \in Requirements :
               item'[q] # None => item'[q].token <= clock' /\ item'[q].id <= clock'
        /\ \A c \in Clients : card'[c] # None => card'[c].token <= clock'
        /\ \A c \in Clients :
               draft'[c] # None => draft'[c].token <= clock' /\ draft'[c].id <= clock'
    BY <2>3, ConstantsAssumption DEF TypeOK, Items, Cards, Drafts
  <2> QED BY <2>3, <2>4, <2>5, <2>6 DEF TypeOK
<1>2. ASSUME NEW d \in Documents, ReplaceBlocks(d)
      PROVE  TypeOK'
  <2>1. ASSUME NEW r \in Requirements, row[r] # None
        PROVE  /\ [row[r] EXCEPT !.evidence = "none"] \in Rows
               /\ [row[r] EXCEPT !.evidence = "none"].token = row[r].token
    BY <2>1 DEF TypeOK, Rows
  <2> QED BY <1>2, <2>1 DEF TypeOK, ReplaceBlocks
<1>3. ASSUME NEW d \in Documents, DeleteDocument(d)
      PROVE  TypeOK'
  BY <1>3 DEF TypeOK, DeleteDocument
<1>4. ASSUME NEW c \in Clients, NEW r \in Requirements, LoadCard(c, r)
      PROVE  TypeOK'
  <2>1. row[r] \in Rows /\ row[r].token <= clock
    BY <1>4 DEF LoadCard, TypeOK
  <2> QED BY <1>4, <2>1, CardType DEF TypeOK, LoadCard
<1>5. ASSUME NEW c \in Clients, NEW r \in Requirements, LoadDraft(c, r)
      PROVE  TypeOK'
  <2>1. item[r] \in Items /\ item[r].token <= clock /\ item[r].id <= clock
    BY <1>5 DEF LoadDraft, TypeOK
  <2> QED BY <1>5, <2>1, DraftType DEF TypeOK, LoadDraft
<1>6. ASSUME NEW c \in Clients, NEW patch \in Patches, PatchRequirement(c, patch)
      PROVE  TypeOK'
  <2> DEFINE r == card[c].id
             new == Revised(row[r], patch)
             after == ItemAfter(r, NextReview(row[r], patch))
  <2>1. r \in Requirements /\ row[r] \in Rows /\ clock \in Nat
    BY <1>6, ConstantsAssumption DEF PatchRequirement, TypeOK, Cards
  <2>2. new \in Rows /\ new.token = clock + 1
    BY <2>1, RevisedType
  <2>3. /\ after \in Items \cup {None}
        /\ after # None => after.token <= clock + 1 /\ after.id <= clock + 1
    <3>1. item[r] \in Items \cup {None} /\ NextReview(row[r], patch) \in ReviewStates
      BY <2>1, RevisedType DEF TypeOK
    <3>2. \/ after = item[r] \/ after = None
          \/ after.token = clock + 1 /\ after.id = clock + 1
      BY <2>1, <3>1, ItemAfterType
    <3>3. after \in Items \cup {None}
      BY <2>1, <3>1, ItemAfterType
    <3>4. item[r] # None => item[r].token <= clock + 1 /\ item[r].id <= clock + 1
      BY <2>1 DEF TypeOK, Items
    <3> QED BY <2>1, <3>2, <3>3, <3>4
  <2>4. CardOf(r, new) \in Cards /\ CardOf(r, new).token = clock + 1
    BY <2>1, <2>2, CardType
  <2>5. /\ row' = [row EXCEPT ![r] = new] /\ item' = [item EXCEPT ![r] = after]
        /\ card' = [card EXCEPT ![c] = CardOf(r, new)] /\ clock' = clock + 1
        /\ clock < MaxClock /\ UNCHANGED <<draft, quoted>>
    BY <1>6 DEF PatchRequirement
  <2>6. consented' \in [Requirements -> BOOLEAN]
    BY <1>6, <2>1 DEF PatchRequirement, TypeOK, Patches
  <2> HIDE DEF r, new, after
  <2>7. clock' \in 0..MaxClock
    BY <2>1, <2>5, ConstantsAssumption
  <2>8. /\ row' \in [Requirements -> Rows \cup {None}]
        /\ \A q \in Requirements : row'[q] # None => row'[q].token <= clock'
    BY <2>1, <2>2, <2>5 DEF TypeOK, Rows
  <2>9. /\ item' \in [Requirements -> Items \cup {None}]
        /\ \A q \in Requirements :
               item'[q] # None => item'[q].token <= clock' /\ item'[q].id <= clock'
    BY <2>1, <2>3, <2>5 DEF TypeOK, Items
  <2>10. /\ card' \in [Clients -> Cards \cup {None}]
         /\ \A d \in Clients : card'[d] # None => card'[d].token <= clock'
    BY <2>1, <2>4, <2>5 DEF TypeOK, Cards
  <2>11. \A d \in Clients : draft'[d] # None => draft'[d].token <= clock' /\ draft'[d].id <= clock'
    BY <2>1, <2>5 DEF TypeOK, Drafts
  <2> QED BY <2>5, <2>6, <2>7, <2>8, <2>9, <2>10, <2>11 DEF TypeOK
<1>7. ASSUME NEW c \in Clients, NEW note \in Texts, PatchItem(c, note)
      PROVE  TypeOK'
  <2> DEFINE r == draft[c].owner
             new == [item[r] EXCEPT !.note = note, !.token = clock + 1]
  <2>1. r \in Requirements /\ item[r] \in Items /\ clock \in Nat /\ item[r].id <= clock
    BY <1>7, ConstantsAssumption DEF PatchItem, TypeOK, Drafts
  <2>2. new \in Items /\ new.token = clock + 1 /\ new.id = item[r].id
    BY <2>1, NotedType
  <2>3. /\ DraftOf(r, new) \in Drafts /\ DraftOf(r, new).token = clock + 1
        /\ DraftOf(r, new).id = item[r].id
    BY <2>1, <2>2, DraftType
  <2>4. /\ item' = [item EXCEPT ![r] = new] /\ draft' = [draft EXCEPT ![c] = DraftOf(r, new)]
        /\ clock' = clock + 1 /\ clock < MaxClock
        /\ UNCHANGED <<row, card, quoted, consented>>
    BY <1>7 DEF PatchItem
  <2> HIDE DEF r, new
  <2> QED BY <2>1, <2>2, <2>3, <2>4, ConstantsAssumption DEF TypeOK, Rows, Items, Cards, Drafts
<1>8. CASE UNCHANGED vars
  BY <1>8 DEF TypeOK, vars
<1> QED BY <1>1, <1>2, <1>3, <1>4, <1>5, <1>6, <1>7, <1>8 DEF Next, Pipeline, Client

\* Type correctness: the tables and the copies in the sessions keep their types,
\* and no token is younger than the clock.
THEOREM TypeCorrect == Spec => []TypeOK
BY TypeInit, TypeStep, PTL DEF Spec

----------------------------------------------------------------------------
(* The matrix follows the review.                                          *)

\* Every step keeps the matrix in line with the review.
LEMMA MatrixStep == TypeOK /\ ItemFollowsReview /\ [Next]_vars => ItemFollowsReview'
<1> SUFFICES ASSUME TypeOK, ItemFollowsReview, [Next]_vars PROVE ItemFollowsReview'
  OBVIOUS
<1>1. ASSUME NEW r \in Requirements, NEW d \in Documents,
             NEW kind \in {"verified", "unverified"}, Extract(r, d, kind)
      PROVE  ItemFollowsReview'
  BY <1>1 DEF TypeOK, ItemFollowsReview, Extract
<1>2. ASSUME NEW d \in Documents, ReplaceBlocks(d)
      PROVE  ItemFollowsReview'
  <2>1. \A r \in Requirements : row[r] # None =>
            /\ [row[r] EXCEPT !.evidence = "none"] \in Rows
            /\ [row[r] EXCEPT !.evidence = "none"].review = row[r].review
    BY DEF TypeOK, Rows
  <2>2. \A r \in Requirements :
            /\ row'[r] = None <=> row[r] = None
            /\ row[r] # None => row'[r].review = row[r].review
    BY <1>2, <2>1, NoneAssumption DEF ReplaceBlocks
  <2> QED BY <1>2, <2>2 DEF ItemFollowsReview, ReplaceBlocks
<1>3. ASSUME NEW d \in Documents, DeleteDocument(d)
      PROVE  ItemFollowsReview'
  BY <1>3 DEF ItemFollowsReview, DeleteDocument
<1>4. ASSUME NEW c \in Clients, NEW patch \in Patches, PatchRequirement(c, patch)
      PROVE  ItemFollowsReview'
  <2> DEFINE r == card[c].id
             new == Revised(row[r], patch)
             after == ItemAfter(r, NextReview(row[r], patch))
  <2>1. r \in Requirements /\ row[r] \in Rows /\ clock \in Nat
    BY <1>4, ConstantsAssumption DEF PatchRequirement, TypeOK, Cards
  <2>2. /\ new \in Rows /\ new.review = NextReview(row[r], patch)
        /\ new.review \in ReviewStates
    BY <2>1, RevisedType
  <2>3. /\ new.review \in MatrixStates => after # None
        /\ new.review = "REJECTED" => after = None
    BY <2>1, <2>2, ItemAfterType DEF TypeOK
  <2>4. /\ row' = [row EXCEPT ![r] = new] /\ item' = [item EXCEPT ![r] = after]
    BY <1>4 DEF PatchRequirement
  <2> HIDE DEF r, new, after
  <2>5. row'[r] = new /\ item'[r] = after /\ new # None
    BY <2>1, <2>2, <2>4, NoneAssumption DEF TypeOK
  <2>6. \A q \in Requirements \ {r} : row'[q] = row[q] /\ item'[q] = item[q]
    BY <2>4 DEF TypeOK
  <2> QED BY <2>3, <2>5, <2>6 DEF ItemFollowsReview
<1>5. ASSUME NEW c \in Clients, NEW note \in Texts, PatchItem(c, note)
      PROVE  ItemFollowsReview'
  <2> DEFINE r == draft[c].owner
             new == [item[r] EXCEPT !.note = note, !.token = clock + 1]
  <2>1. r \in Requirements /\ item[r] \in Items /\ clock \in Nat /\ item[r] # None
    BY <1>5, ConstantsAssumption DEF PatchItem, TypeOK, Drafts
  <2>2. new # None
    BY <2>1, NotedType, NoneAssumption
  <2>3. item' = [item EXCEPT ![r] = new] /\ row' = row
    BY <1>5 DEF PatchItem
  <2> HIDE DEF r, new
  <2> QED BY <2>1, <2>2, <2>3 DEF ItemFollowsReview, TypeOK
<1>6. ASSUME NEW c \in Clients, NEW r \in Requirements, LoadCard(c, r) \/ LoadDraft(c, r)
      PROVE  ItemFollowsReview'
  BY <1>6 DEF ItemFollowsReview, LoadCard, LoadDraft
<1>7. CASE UNCHANGED vars
  BY <1>7 DEF ItemFollowsReview, vars
<1> QED BY <1>1, <1>2, <1>3, <1>4, <1>5, <1>6, <1>7 DEF Next, Pipeline, Client

\* update_requirement, the only writer of review states, writes the matrix row in
\* the same transaction, and the deletion of a document removes both.
THEOREM MatrixFollowsReview == Spec => []ItemFollowsReview
<1>1. Init => ItemFollowsReview
  BY DEF Init, ItemFollowsReview
<1> QED BY <1>1, MatrixStep, TypeCorrect, PTL DEF Spec

----------------------------------------------------------------------------
(* Nothing unverified gets into the matrix without consent.                *)

\* Every step keeps to the consent.
LEMMA ConsentStep == TypeOK /\ UnverifiedNeedsConsent /\ [Next]_vars => UnverifiedNeedsConsent'
<1> SUFFICES ASSUME TypeOK, UnverifiedNeedsConsent, [Next]_vars
             PROVE  UnverifiedNeedsConsent'
  OBVIOUS
<1>1. ASSUME NEW r \in Requirements, NEW d \in Documents,
             NEW kind \in {"verified", "unverified"}, Extract(r, d, kind)
      PROVE  UnverifiedNeedsConsent'
  BY <1>1 DEF TypeOK, UnverifiedNeedsConsent, Extract
<1>2. ASSUME NEW d \in Documents, ReplaceBlocks(d)
      PROVE  UnverifiedNeedsConsent'
  <2>1. \A r \in Requirements : row[r] # None =>
            [row[r] EXCEPT !.evidence = "none"].evidence = "none"
    BY DEF TypeOK, Rows
  <2>2. \A r \in Requirements : row'[r] = row[r] \/ row'[r].evidence = "none"
    BY <1>2, <2>1 DEF ReplaceBlocks
  <2> QED BY <1>2, <2>2 DEF UnverifiedNeedsConsent, ReplaceBlocks
<1>3. ASSUME NEW d \in Documents, DeleteDocument(d)
      PROVE  UnverifiedNeedsConsent'
  BY <1>3 DEF UnverifiedNeedsConsent, DeleteDocument
<1>4. ASSUME NEW c \in Clients, NEW patch \in Patches, PatchRequirement(c, patch)
      PROVE  UnverifiedNeedsConsent'
  <2> DEFINE r == card[c].id
             new == Revised(row[r], patch)
             asked == AskedReview(row[r], patch)
  <2>1. r \in Requirements /\ row[r] \in Rows /\ row[r] # None /\ clock \in Nat
    BY <1>4, ConstantsAssumption DEF PatchRequirement, TypeOK, Cards
  <2>2. /\ new.review = IF asked = None THEN row[r].review ELSE asked
        /\ new.evidence = row[r].evidence
    BY <2>1, RevisedType DEF NextReview
  <2>3. row[r].evidence = "unverified" /\ asked \in MatrixStates => patch.confirm
    BY <1>4 DEF PatchRequirement, ConsentGiven
  <2>4. /\ row' = [row EXCEPT ![r] = new]
        /\ consented' = [consented EXCEPT ![r] = IF asked = None THEN @ ELSE patch.confirm]
    BY <1>4 DEF PatchRequirement
  <2> HIDE DEF r, new, asked
  <2>5. row'[r] = new /\ consented'[r] = IF asked = None THEN consented[r] ELSE patch.confirm
    BY <2>1, <2>4 DEF TypeOK
  <2>6. \A q \in Requirements \ {r} : row'[q] = row[q] /\ consented'[q] = consented[q]
    BY <2>4 DEF TypeOK
  <2>7. new.review \in MatrixStates /\ new.evidence = "unverified" => consented'[r]
    <3>1. CASE asked = None
      BY <2>1, <2>2, <2>5, <3>1 DEF UnverifiedNeedsConsent
    <3>2. CASE asked # None
      BY <2>2, <2>3, <2>5, <3>2
    <3> QED BY <3>1, <3>2
  <2> QED BY <2>5, <2>6, <2>7 DEF UnverifiedNeedsConsent
<1>5. ASSUME NEW c \in Clients, NEW note \in Texts, PatchItem(c, note)
      PROVE  UnverifiedNeedsConsent'
  BY <1>5 DEF UnverifiedNeedsConsent, PatchItem
<1>6. ASSUME NEW c \in Clients, NEW r \in Requirements, LoadCard(c, r) \/ LoadDraft(c, r)
      PROVE  UnverifiedNeedsConsent'
  BY <1>6 DEF UnverifiedNeedsConsent, LoadCard, LoadDraft
<1>7. CASE UNCHANGED vars
  BY <1>7 DEF UnverifiedNeedsConsent, vars
<1> QED BY <1>1, <1>2, <1>3, <1>4, <1>5, <1>6, <1>7 DEF Next, Pipeline, Client

\* Every way into CONFIRMED or EDITED passes the check of the evidence, and a patch
\* that leaves the review state alone leaves the recorded consent alone.
THEOREM UnverifiedIsConsented == Spec => []UnverifiedNeedsConsent
<1>1. Init => UnverifiedNeedsConsent
  BY DEF Init, UnverifiedNeedsConsent
<1> QED BY <1>1, ConsentStep, TypeCorrect, PTL DEF Spec

----------------------------------------------------------------------------
(* Nothing is overwritten unseen.                                          *)

\* A session whose token is the current one shows the current contents.
CardsAreSnapshots ==
    \A c \in Clients :
        LET r == card[c].id IN
        card[c] # None /\ row[r] # None /\ card[c].token = row[r].token =>
            card[c].text = row[r].text /\ card[c].review = row[r].review
DraftsAreSnapshots ==
    \A c \in Clients :
        LET r == draft[c].owner IN
        draft[c] # None /\ item[r] # None /\ draft[c].token = item[r].token =>
            draft[c].note = item[r].note

\* Every step keeps the cards snapshots: a requirement gets new contents only
\* together with a new token, which no card shows yet.
LEMMA CardsStep == TypeOK /\ CardsAreSnapshots /\ [Next]_vars => CardsAreSnapshots'
<1> SUFFICES ASSUME TypeOK, CardsAreSnapshots, [Next]_vars, NEW e \in Clients,
                    card'[e] # None, row'[card'[e].id] # None,
                    card'[e].token = row'[card'[e].id].token
             PROVE  /\ card'[e].text = row'[card'[e].id].text
                    /\ card'[e].review = row'[card'[e].id].review
  BY DEF CardsAreSnapshots
<1> DEFINE q == card[e].id
<1>0. card[e] # None => q \in Requirements /\ card[e].token <= clock /\ clock \in Nat
                        /\ card[e].token \in Nat
  BY ConstantsAssumption DEF TypeOK, Cards
<1>1. ASSUME NEW r \in Requirements, NEW d \in Documents,
             NEW kind \in {"verified", "unverified"}, Extract(r, d, kind)
      PROVE  /\ card'[e].text = row'[card'[e].id].text
             /\ card'[e].review = row'[card'[e].id].review
  <2>1. card' = card /\ row'[r].token = clock + 1
    BY <1>1 DEF Extract, TypeOK
  <2>2. q # r
    BY <1>0, <2>1
  <2>3. row'[q] = row[q]
    BY <1>0, <1>1, <2>1, <2>2 DEF Extract, TypeOK
  <2> QED BY <2>1, <2>3 DEF CardsAreSnapshots
<1>2. ASSUME NEW d \in Documents, ReplaceBlocks(d)
      PROVE  /\ card'[e].text = row'[card'[e].id].text
             /\ card'[e].review = row'[card'[e].id].review
  <2>1. \A r \in Requirements : row[r] # None =>
            LET new == [row[r] EXCEPT !.evidence = "none"]
            IN  new.text = row[r].text /\ new.review = row[r].review /\ new.token = row[r].token
    BY DEF TypeOK, Rows
  <2>2. card' = card /\ q \in Requirements
    BY <1>0, <1>2 DEF ReplaceBlocks
  <2>3. /\ row[q] # None
        /\ row'[q].text = row[q].text /\ row'[q].review = row[q].review
        /\ row'[q].token = row[q].token
    BY <1>2, <2>1, <2>2 DEF ReplaceBlocks
  <2> QED BY <2>2, <2>3 DEF CardsAreSnapshots
<1>3. ASSUME NEW d \in Documents, DeleteDocument(d)
      PROVE  /\ card'[e].text = row'[card'[e].id].text
             /\ card'[e].review = row'[card'[e].id].review
  <2>1. card' = card /\ q \in Requirements /\ row'[q] = row[q]
    BY <1>0, <1>3 DEF DeleteDocument
  <2> QED BY <2>1 DEF CardsAreSnapshots
<1>4. ASSUME NEW c \in Clients, NEW r \in Requirements, LoadCard(c, r)
      PROVE  /\ card'[e].text = row'[card'[e].id].text
             /\ card'[e].review = row'[card'[e].id].review
  <2>1. row' = row /\ row[r] \in Rows /\ card' = [card EXCEPT ![c] = CardOf(r, row[r])]
    BY <1>4 DEF LoadCard, TypeOK
  <2>2. CASE e = c
    <3>1. card'[e] = CardOf(r, row[r])
      BY <2>1, <2>2 DEF TypeOK
    <3> QED BY <2>1, <3>1, CardType
  <2>3. CASE e # c
    BY <2>1, <2>3 DEF CardsAreSnapshots, TypeOK
  <2> QED BY <2>2, <2>3
<1>5. ASSUME NEW c \in Clients, NEW patch \in Patches, PatchRequirement(c, patch)
      PROVE  /\ card'[e].text = row'[card'[e].id].text
             /\ card'[e].review = row'[card'[e].id].review
  <2> DEFINE r == card[c].id
             new == Revised(row[r], patch)
  <2>1. r \in Requirements /\ row[r] \in Rows /\ clock \in Nat
    BY <1>5, ConstantsAssumption DEF PatchRequirement, TypeOK, Cards
  <2>2. new \in Rows /\ new.token = clock + 1
    BY <2>1, RevisedType
  <2>3. row' = [row EXCEPT ![r] = new] /\ card' = [card EXCEPT ![c] = CardOf(r, new)]
    BY <1>5 DEF PatchRequirement
  <2> HIDE DEF r, new
  <2>4. row'[r] = new
    BY <2>1, <2>3 DEF TypeOK
  <2>5. CASE e = c
    <3>1. card'[e] = CardOf(r, new)
      BY <2>3, <2>5 DEF TypeOK
    <3> QED BY <2>1, <2>2, <2>4, <3>1, CardType
  <2>6. CASE e # c
    <3>1. card'[e] = card[e]
      BY <2>3, <2>6 DEF TypeOK
    <3>2. q # r
      BY <1>0, <2>2, <2>4, <3>1
    <3>3. row'[q] = row[q]
      BY <1>0, <2>3, <3>1, <3>2 DEF TypeOK
    <3> QED BY <3>1, <3>3 DEF CardsAreSnapshots
  <2> QED BY <2>5, <2>6
<1>6. ASSUME UNCHANGED <<row, card>>
      PROVE  /\ card'[e].text = row'[card'[e].id].text
             /\ card'[e].review = row'[card'[e].id].review
  BY <1>6 DEF CardsAreSnapshots
<1>7. ASSUME NEW c \in Clients, NEW note \in Texts, PatchItem(c, note)
      PROVE  UNCHANGED <<row, card>>
  BY <1>7 DEF PatchItem
<1>8. ASSUME NEW c \in Clients, NEW r \in Requirements, LoadDraft(c, r)
      PROVE  UNCHANGED <<row, card>>
  BY <1>8 DEF LoadDraft
<1>9. CASE UNCHANGED vars
  BY <1>6, <1>9 DEF vars
<1> QED BY <1>1, <1>2, <1>3, <1>4, <1>5, <1>6, <1>7, <1>8, <1>9 DEF Next, Pipeline, Client

\* The token a session sends is fresh only if it shows the current contents, and
\* only update_requirement draws a new token for a requirement that exists.
THEOREM DecisionsAreSeen == Spec => NoDecisionLost
<1>1. Init => CardsAreSnapshots
  BY DEF Init, CardsAreSnapshots
<1>2. TypeOK /\ CardsAreSnapshots /\ [Next]_vars =>
          [\A r \in Requirements :
               row[r] # None /\ row'[r] # None /\ row'[r].token # row[r].token =>
                   \E c \in Clients :
                       /\ card'[c] = CardOf(r, row'[r])
                       /\ card[c] # None /\ card[c].id = r
                       /\ card[c].text = row[r].text /\ card[c].review = row[r].review]_vars
  <2> SUFFICES ASSUME TypeOK, CardsAreSnapshots, Next, NEW q \in Requirements,
                      row[q] # None, row'[q] # None, row'[q].token # row[q].token
               PROVE  \E c \in Clients :
                          /\ card'[c] = CardOf(q, row'[q])
                          /\ card[c] # None /\ card[c].id = q
                          /\ card[c].text = row[q].text /\ card[c].review = row[q].review
    OBVIOUS
  <2>1. ASSUME NEW r \in Requirements, NEW d \in Documents,
               NEW kind \in {"verified", "unverified"}, Extract(r, d, kind)
        PROVE  FALSE
    BY <2>1 DEF Extract, TypeOK
  <2>2. ASSUME NEW d \in Documents, ReplaceBlocks(d)
        PROVE  FALSE
    <3>1. [row[q] EXCEPT !.evidence = "none"].token = row[q].token
      BY DEF TypeOK, Rows
    <3> QED BY <2>2, <3>1 DEF ReplaceBlocks
  <2>3. ASSUME NEW d \in Documents, DeleteDocument(d)
        PROVE  FALSE
    BY <2>3 DEF DeleteDocument
  <2>4. ASSUME NEW c \in Clients, NEW patch \in Patches, PatchRequirement(c, patch)
        PROVE  /\ card'[c] = CardOf(q, row'[q])
               /\ card[c] # None /\ card[c].id = q
               /\ card[c].text = row[q].text /\ card[c].review = row[q].review
    <3> DEFINE r == card[c].id
               new == Revised(row[r], patch)
    <3>1. /\ row' = [row EXCEPT ![r] = new] /\ card' = [card EXCEPT ![c] = CardOf(r, new)]
          /\ card[c] # None /\ row[r].token = card[c].token /\ row[r] # None
      BY <2>4 DEF PatchRequirement, Fresh
    <3>2. card[c].text = row[r].text /\ card[c].review = row[r].review
      BY <3>1 DEF CardsAreSnapshots
    <3>3. r = card[c].id
      OBVIOUS
    <3> HIDE DEF r, new
    <3>4. r = q
      BY <3>1 DEF TypeOK
    <3>5. row'[q] = new /\ card'[c] = CardOf(q, new)
      BY <3>1, <3>4 DEF TypeOK
    <3> QED BY <3>1, <3>2, <3>3, <3>4, <3>5
  <2>5. ASSUME NEW c \in Clients, NEW note \in Texts, PatchItem(c, note)
        PROVE  FALSE
    BY <2>5 DEF PatchItem
  <2>6. ASSUME NEW c \in Clients, NEW r \in Requirements, LoadCard(c, r) \/ LoadDraft(c, r)
        PROVE  FALSE
    BY <2>6 DEF LoadCard, LoadDraft
  <2> QED BY <2>1, <2>2, <2>3, <2>4, <2>5, <2>6 DEF Next, Pipeline, Client
<1> QED BY <1>1, <1>2, CardsStep, TypeCorrect, PTL DEF Spec, NoDecisionLost

\* Every step keeps the drafts snapshots: a matrix row gets a new note only
\* together with a new token, which no draft shows yet.
LEMMA DraftsStep == TypeOK /\ DraftsAreSnapshots /\ [Next]_vars => DraftsAreSnapshots'
<1> SUFFICES ASSUME TypeOK, DraftsAreSnapshots, [Next]_vars, NEW e \in Clients,
                    draft'[e] # None, item'[draft'[e].owner] # None,
                    draft'[e].token = item'[draft'[e].owner].token
             PROVE  draft'[e].note = item'[draft'[e].owner].note
  BY DEF DraftsAreSnapshots
<1> DEFINE q == draft[e].owner
<1>0. draft[e] # None => q \in Requirements /\ draft[e].token <= clock /\ clock \in Nat
                         /\ draft[e].token \in Nat
  BY ConstantsAssumption DEF TypeOK, Drafts
<1>1. ASSUME UNCHANGED <<item, draft>>
      PROVE  draft'[e].note = item'[draft'[e].owner].note
  BY <1>1 DEF DraftsAreSnapshots
<1>2. ASSUME NEW d \in Documents, DeleteDocument(d)
      PROVE  draft'[e].note = item'[draft'[e].owner].note
  <2>1. draft' = draft /\ q \in Requirements /\ item'[q] = item[q]
    BY <1>0, <1>2 DEF DeleteDocument
  <2> QED BY <2>1 DEF DraftsAreSnapshots
<1>3. ASSUME NEW c \in Clients, NEW r \in Requirements, LoadDraft(c, r)
      PROVE  draft'[e].note = item'[draft'[e].owner].note
  <2>1. item' = item /\ item[r] \in Items /\ draft' = [draft EXCEPT ![c] = DraftOf(r, item[r])]
    BY <1>3 DEF LoadDraft, TypeOK
  <2>2. CASE e = c
    <3>1. draft'[e] = DraftOf(r, item[r])
      BY <2>1, <2>2 DEF TypeOK
    <3> QED BY <2>1, <3>1, DraftType
  <2>3. CASE e # c
    BY <2>1, <2>3 DEF DraftsAreSnapshots, TypeOK
  <2> QED BY <2>2, <2>3
<1>4. ASSUME NEW c \in Clients, NEW patch \in Patches, PatchRequirement(c, patch)
      PROVE  draft'[e].note = item'[draft'[e].owner].note
  <2> DEFINE r == card[c].id
             after == ItemAfter(r, NextReview(row[r], patch))
  <2>1. /\ draft' = draft /\ item' = [item EXCEPT ![r] = after]
        /\ r \in Requirements /\ row[r] \in Rows /\ clock \in Nat
    BY <1>4, ConstantsAssumption DEF PatchRequirement, TypeOK, Cards
  <2>2. after = None \/ after = item[r] \/ after.token = clock + 1
    <3>1. item[r] \in Items \cup {None} /\ NextReview(row[r], patch) \in ReviewStates
      BY <2>1, RevisedType DEF TypeOK
    <3> QED BY <2>1, <3>1, ItemAfterType
  <2> HIDE DEF r, after
  <2>3. item'[r] = after
    BY <2>1 DEF TypeOK
  <2>4. q = r => after = item[r]
    BY <1>0, <2>1, <2>2, <2>3
  <2>5. item'[q] = item[q]
    BY <1>0, <2>1, <2>3, <2>4 DEF TypeOK
  <2> QED BY <2>1, <2>5 DEF DraftsAreSnapshots
<1>5. ASSUME NEW c \in Clients, NEW note \in Texts, PatchItem(c, note)
      PROVE  draft'[e].note = item'[draft'[e].owner].note
  <2> DEFINE r == draft[c].owner
             new == [item[r] EXCEPT !.note = note, !.token = clock + 1]
  <2>1. r \in Requirements /\ item[r] \in Items /\ clock \in Nat
    BY <1>5, ConstantsAssumption DEF PatchItem, TypeOK, Drafts
  <2>2. new \in Items /\ new.token = clock + 1
    BY <2>1, NotedType
  <2>3. item' = [item EXCEPT ![r] = new] /\ draft' = [draft EXCEPT ![c] = DraftOf(r, new)]
    BY <1>5 DEF PatchItem
  <2> HIDE DEF r, new
  <2>4. item'[r] = new
    BY <2>1, <2>3 DEF TypeOK
  <2>5. CASE e = c
    <3>1. draft'[e] = DraftOf(r, new)
      BY <2>3, <2>5 DEF TypeOK
    <3> QED BY <2>1, <2>2, <2>4, <3>1, DraftType
  <2>6. CASE e # c
    <3>1. draft'[e] = draft[e]
      BY <2>3, <2>6 DEF TypeOK
    <3>2. q # r
      BY <1>0, <2>2, <2>4, <3>1
    <3>3. item'[q] = item[q]
      BY <1>0, <2>3, <3>1, <3>2 DEF TypeOK
    <3> QED BY <3>1, <3>3 DEF DraftsAreSnapshots
  <2> QED BY <2>5, <2>6
<1>6. ASSUME NEW r \in Requirements, NEW d \in Documents,
             NEW kind \in {"verified", "unverified"}, Extract(r, d, kind)
      PROVE  UNCHANGED <<item, draft>>
  BY <1>6 DEF Extract
<1>7. ASSUME NEW d \in Documents, ReplaceBlocks(d)
      PROVE  UNCHANGED <<item, draft>>
  BY <1>7 DEF ReplaceBlocks
<1>8. ASSUME NEW c \in Clients, NEW r \in Requirements, LoadCard(c, r)
      PROVE  UNCHANGED <<item, draft>>
  BY <1>8 DEF LoadCard
<1>9. CASE UNCHANGED vars
  BY <1>1, <1>9 DEF vars
<1> QED BY <1>1, <1>2, <1>3, <1>4, <1>5, <1>6, <1>7, <1>8, <1>9 DEF Next, Pipeline, Client

\* A matrix row that exists changes only by update_compliance_item, which finds it
\* by its own id and under the token that the session loaded with the note.
THEOREM NotesAreSeen == Spec => NoNoteLost
<1>1. Init => DraftsAreSnapshots
  BY DEF Init, DraftsAreSnapshots
<1>2. TypeOK /\ DraftsAreSnapshots /\ [Next]_vars =>
          [\A r \in Requirements :
               item[r] # None /\ item'[r] # None /\ item'[r] # item[r] =>
                   /\ item'[r].id = item[r].id
                   /\ \E c \in Clients :
                          /\ draft'[c] = DraftOf(r, item'[r])
                          /\ draft[c] # None /\ draft[c].owner = r
                          /\ draft[c].id = item[r].id /\ draft[c].note = item[r].note]_vars
  <2> SUFFICES ASSUME TypeOK, DraftsAreSnapshots, Next, NEW q \in Requirements,
                      item[q] # None, item'[q] # None, item'[q] # item[q]
               PROVE  /\ item'[q].id = item[q].id
                      /\ \E c \in Clients :
                             /\ draft'[c] = DraftOf(q, item'[q])
                             /\ draft[c] # None /\ draft[c].owner = q
                             /\ draft[c].id = item[q].id /\ draft[c].note = item[q].note
    OBVIOUS
  <2>1. ASSUME NEW r \in Requirements, NEW d \in Documents,
               NEW kind \in {"verified", "unverified"}, Extract(r, d, kind)
        PROVE  FALSE
    BY <2>1 DEF Extract
  <2>2. ASSUME NEW d \in Documents, ReplaceBlocks(d) \/ DeleteDocument(d)
        PROVE  FALSE
    BY <2>2 DEF ReplaceBlocks, DeleteDocument
  <2>3. ASSUME NEW c \in Clients, NEW patch \in Patches, PatchRequirement(c, patch)
        PROVE  FALSE
    <3> DEFINE r == card[c].id
               after == ItemAfter(r, NextReview(row[r], patch))
    <3>1. /\ item' = [item EXCEPT ![r] = after]
          /\ r \in Requirements /\ row[r] \in Rows /\ clock \in Nat
      BY <2>3, ConstantsAssumption DEF PatchRequirement, TypeOK, Cards
    <3>2. after # None /\ after # item[r] => item[r] = None
      <4>1. item[r] \in Items \cup {None} /\ NextReview(row[r], patch) \in ReviewStates
        BY <3>1, RevisedType DEF TypeOK
      <4> QED BY <3>1, <4>1, ItemAfterType
    <3> HIDE DEF r, after
    <3> QED BY <3>1, <3>2 DEF TypeOK
  <2>4. ASSUME NEW c \in Clients, NEW note \in Texts, PatchItem(c, note)
        PROVE  /\ item'[q].id = item[q].id
               /\ draft'[c] = DraftOf(q, item'[q])
               /\ draft[c] # None /\ draft[c].owner = q
               /\ draft[c].id = item[q].id /\ draft[c].note = item[q].note
    <3> DEFINE r == draft[c].owner
               new == [item[r] EXCEPT !.note = note, !.token = clock + 1]
    <3>1. /\ item' = [item EXCEPT ![r] = new] /\ draft' = [draft EXCEPT ![c] = DraftOf(r, new)]
          /\ draft[c] # None /\ item[r] # None
          /\ item[r].id = draft[c].id /\ item[r].token = draft[c].token
      BY <2>4 DEF PatchItem, Fresh
    <3>2. draft[c].note = item[r].note
      BY <3>1 DEF DraftsAreSnapshots
    <3>3. r = draft[c].owner /\ r \in Requirements /\ item[r] \in Items /\ clock \in Nat
      BY <3>1, ConstantsAssumption DEF TypeOK, Drafts
    <3>4. new.id = item[r].id
      BY <3>3, NotedType
    <3> HIDE DEF r, new
    <3>5. r = q
      BY <3>1 DEF TypeOK
    <3>6. item'[q] = new /\ draft'[c] = DraftOf(q, new)
      BY <3>1, <3>5 DEF TypeOK
    <3> QED BY <3>1, <3>2, <3>3, <3>4, <3>5, <3>6
  <2>5. ASSUME NEW c \in Clients, NEW r \in Requirements, LoadCard(c, r) \/ LoadDraft(c, r)
        PROVE  FALSE
    BY <2>5 DEF LoadCard, LoadDraft
  <2> QED BY <2>1, <2>2, <2>3, <2>4, <2>5 DEF Next, Pipeline, Client
<1> QED BY <1>1, <1>2, DraftsStep, TypeCorrect, PTL DEF Spec, NoNoteLost

----------------------------------------------------------------------------
(* The page over the tables: every card asks before it sends.              *)

\* What update_requirement sees of a request.
PatchOf(request) ==
    [text |-> request.text, review |-> request.review, confirm |-> request.confirm]

\* A request is handled as the patch in it.
LEMMA RequestIsPatch ==
    ASSUME NEW request \in Requests, NEW old
    PROVE  /\ PatchOf(request) \in Patches
           /\ Revised(old, request) = Revised(old, PatchOf(request))
           /\ AskedReview(old, request) = AskedReview(old, PatchOf(request))
           /\ NextReview(old, request) = NextReview(old, PatchOf(request))
BY DEF Requests, Patches, PatchOf, Revised, AskedReview, NextReview

\* An accepted request revises one requirement and its matrix row.
Revision(c, r, new, review, request) ==
    /\ r = card[c].id /\ row[r] \in Rows /\ row[r] # None
    /\ row' = [row EXCEPT ![r] = new] /\ new # None
    /\ new.token = clock + 1 /\ new.evidence = row[r].evidence /\ new.review = review
    /\ item' = [item EXCEPT ![r] = ItemAfter(r, review)]
    /\ review = IF AskedReview(row[r], request) = None THEN row[r].review
                ELSE AskedReview(row[r], request)
    /\ consented' = [consented EXCEPT ![r] =
           IF AskedReview(row[r], request) = None THEN @ ELSE request.confirm]
    /\ ConsentGiven(row[r], request)
    /\ clock' \in 0..MaxClock /\ clock' = clock + 1
    /\ \E own \in Texts \cup {None} :
           page' = [page EXCEPT ![c] = [page[c] EXCEPT !.sent = None, !.own = own]]
    /\ UNCHANGED <<card, draft, quoted>>

LEMMA AcceptedStep ==
    ASSUME CardsTypeOK, NEW c \in Clients, page[c] \in Pages, Accepted(c)
    PROVE  \E r \in Requirements, new \in Rows, review \in ReviewStates, request \in Requests :
               Revision(c, r, new, review, request)
<1> DEFINE r == card[c].id
           request == page[c].sent
           new == Revised(row[r], request)
           review == NextReview(row[r], request)
<1>1. r \in Requirements /\ row[r] \in Rows /\ row[r] # None /\ clock \in Nat
  BY ConstantsAssumption DEF Accepted, Shown, CardsTypeOK, TypeOK, Cards
<1>2. request \in Requests
  BY DEF Accepted, Pages
<1>3. /\ PatchOf(request) \in Patches /\ new = Revised(row[r], PatchOf(request))
      /\ review = NextReview(row[r], PatchOf(request))
  BY <1>2, RequestIsPatch
<1>4. /\ new \in Rows /\ new.token = clock + 1 /\ new.review = review
      /\ new.evidence = row[r].evidence /\ review \in ReviewStates
  BY <1>1, <1>3, RevisedType
<1>5. new # None
  BY <1>4, NoneAssumption
<1>6. /\ row' = [row EXCEPT ![r] = new]
      /\ item' = [item EXCEPT ![r] = ItemAfter(r, review)]
      /\ consented' = [consented EXCEPT ![r] =
             IF AskedReview(row[r], request) = None THEN @ ELSE request.confirm]
      /\ ConsentGiven(row[r], request)
      /\ clock' = clock + 1 /\ clock < MaxClock
      /\ UNCHANGED <<card, draft, quoted>>
  BY DEF Accepted
<1>7. PICK own \in Texts \cup {None} :
          page' = [page EXCEPT ![c] = [page[c] EXCEPT !.sent = None, !.own = own]]
  <2> DEFINE own == IF request.text = None THEN page[c].own ELSE request.text
  <2>1. own \in Texts \cup {None}
    BY <1>2 DEF Pages, Requests
  <2>2. page' = [page EXCEPT ![c] = [page[c] EXCEPT !.sent = None, !.own = own]]
    BY DEF Accepted, Set
  <2> HIDE DEF own
  <2> QED
    BY <2>1, <2>2
<1>8. clock' \in 0..MaxClock
  BY <1>1, <1>6, ConstantsAssumption
<1>9. review = IF AskedReview(row[r], request) = None THEN row[r].review
               ELSE AskedReview(row[r], request)
  BY DEF NextReview
<1> HIDE DEF r, request, new, review
<1>10. r = card[c].id
  BY DEF r
<1>11. Revision(c, r, new, review, request)
  BY <1>1, <1>4, <1>5, <1>6, <1>7, <1>8, <1>9, <1>10 DEF Revision
<1> QED
  BY <1>1, <1>2, <1>4, <1>11

\* A request that would be refused neither now nor when the evidence is unverified.
Asked(request) ==
    request.confirm \/ (request.text = None /\ request.review \notin MatrixStates)

\* What a card has sent was asked for, if its requirement is unverified; and the card
\* knows that it is, because evidence can get lost but not worse.
RequestsWereAsked ==
    \A c \in Clients :
        Shown(c) =>
            /\ page[c] \in Pages
            /\ quoted[card[c].id] # "none"
            /\ row[card[c].id] # None /\ row[card[c].id].evidence = "unverified" =>
                   /\ page[c].unverified
                   /\ page[c].sent # None => Asked(page[c].sent)

\* What has a row was extracted; its id is never used again.
RowsWereExtracted == \A r \in Requirements : row[r] # None => quoted[r] # "none"

\* The requests of a page are no younger than its copy.
TokensFit(c, contents) ==
    /\ contents.sent # None => contents.sent.token <= card[c].token
    /\ contents.pending # None => contents.pending.token <= card[c].token

\* Nor is the copy younger than the row.
CopiesAreOlder ==
    \A c \in Clients :
        Shown(c) =>
            /\ TokensFit(c, page[c])
            /\ row[card[c].id] # None => card[c].token <= row[card[c].id].token

CardsInv ==
    /\ CardsTypeOK
    /\ RowsWereExtracted
    /\ RequestsWereAsked
    /\ CopiesAreOlder
    /\ CardsAreSnapshots

\* The steps of one card that touch no table: what it holds, and what it sends.
PageStep(c) ==
    /\ UNCHANGED vars /\ Shown(c)
    /\ \E new \in Pages :
           /\ page' = [page EXCEPT ![c] = new]
           /\ new.unverified = page[c].unverified
           /\ \/ new.sent \in {None, page[c].sent}
              \/ new.unverified => Asked(new.sent)
           /\ TokensFit(c, page[c]) => TokensFit(c, new)

\* What requestPatch does.
LEMMA RequestStep ==
    ASSUME CardsTypeOK, NEW c \in Clients, page[c] \in Pages, card[c] \in Cards,
           NEW text \in Texts \cup {None}, NEW review,
           review \in {"CONFIRMED", "REJECTED"} \/ (review = None /\ text # None),
           RequestPatch(c, text, review)
    PROVE  \E new \in Pages :
               /\ page' = [page EXCEPT ![c] = new]
               /\ new.unverified = page[c].unverified
               /\ \/ new.sent \in {None, page[c].sent}
                  \/ new.unverified => Asked(new.sent)
               /\ TokensFit(c, new)
<1> DEFINE patch == [text |-> text, review |-> review, confirm |-> FALSE,
                     token |-> card[c].token, from |-> page[c].opened]
           asks == page[c].unverified /\ (review = "CONFIRMED" \/ text # None)
           new == [page[c] EXCEPT !.opened = None,
                                  !.pending = IF asks THEN patch ELSE None,
                                  !.sent = IF asks THEN None ELSE patch]
<1>1. patch \in Requests
  <2>1. card[c].token \in Nat /\ page[c].opened \in Texts \cup {None}
    BY DEF Cards, Pages
  <2>2. review \in ReviewStates \cup {None}
    OBVIOUS
  <2> QED
    BY <2>1, <2>2 DEF Requests
<1>2. page' = [page EXCEPT ![c] = new]
  BY DEF RequestPatch, Request, Send, Set
<1>3. ~asks /\ page[c].unverified => Asked(patch)
  <2>1. ~asks /\ page[c].unverified => text = None /\ review = "REJECTED"
    OBVIOUS
  <2> QED
    BY <2>1 DEF Asked
<1>7. patch.token = card[c].token /\ card[c].token \in Nat
  BY DEF Cards
<1> HIDE DEF patch
<1>4. new \in Pages /\ new.unverified = page[c].unverified
  BY <1>1 DEF Pages
<1>5. new.sent = IF asks THEN None ELSE patch
  BY DEF Pages
<1>6. new.sent \in {None, page[c].sent} \/ (new.unverified => Asked(new.sent))
  BY <1>3, <1>4, <1>5
<1>8. new.pending = IF asks THEN patch ELSE None
  BY DEF Pages
<1> HIDE DEF new
<1>9. TokensFit(c, new)
  BY <1>5, <1>7, <1>8 DEF TokensFit
<1> QED
  BY <1>2, <1>4, <1>6, <1>9

\* All steps of the page, by what they do to the tables.
LEMMA CardSteps ==
    ASSUME CardsInv, NextCards
    PROVE  \/ Pipeline /\ UNCHANGED page
           \/ \E c \in Clients :
                  \/ PageStep(c)
                  \/ Accepted(c) /\ page[c] \in Pages
                  \/ \E r \in Requirements, new \in Pages :
                         /\ LoadCard(c, r)
                         /\ page' = [page EXCEPT ![c] = new]
                         /\ new.unverified = (row[r].evidence = "unverified")
                         /\ IF Shown(c) THEN /\ r = card[c].id /\ new.sent = page[c].sent
                                             /\ new.pending = page[c].pending
                            ELSE new.sent = None /\ new.pending = None
<1> SUFFICES ASSUME NEW c \in Clients,
                    \/ \E r \in Requirements : Mount(c, r)
                    \/ Refetch(c)
                    \/ ClickEdit(c) \/ CancelEdit(c) \/ SaveEdit(c)
                    \/ \E text \in Texts : Type(c, text)
                    \/ \E review \in {"CONFIRMED", "REJECTED"} : Decide(c, review)
                    \/ \E given \in BOOLEAN : Consent(c, given)
                    \/ Accepted(c) \/ NotAccepted(c)
             PROVE  \/ PageStep(c)
                    \/ Accepted(c) /\ page[c] \in Pages
                    \/ \E r \in Requirements, new \in Pages :
                           /\ LoadCard(c, r)
                           /\ page' = [page EXCEPT ![c] = new]
                           /\ new.unverified = (row[r].evidence = "unverified")
                           /\ IF Shown(c) THEN /\ r = card[c].id /\ new.sent = page[c].sent
                                               /\ new.pending = page[c].pending
                              ELSE new.sent = None /\ new.pending = None
  BY DEF NextCards
<1>0. Shown(c) => page[c] \in Pages /\ card[c] \in Cards
  BY DEF CardsInv, CardsTypeOK, TypeOK, RequestsWereAsked, Shown
<1> USE DEF Set
<1>1. ASSUME NEW r \in Requirements, Mount(c, r)
      PROVE  \E new \in Pages :
                 /\ LoadCard(c, r)
                 /\ page' = [page EXCEPT ![c] = new]
                 /\ new.unverified = (row[r].evidence = "unverified")
                 /\ ~Shown(c) /\ new.sent = None /\ new.pending = None
  <2> DEFINE new == [text |-> row[r].text, opened |-> None, own |-> None,
                     unverified |-> row[r].evidence = "unverified",
                     pending |-> None, sent |-> None]
  <2>1. row[r] \in Rows
    BY <1>1 DEF Mount, LoadCard, CardsInv, CardsTypeOK, TypeOK
  <2>2. new \in Pages
    BY <2>1 DEF Pages, Rows
  <2> QED
    BY <1>1, <2>2 DEF Mount
<1>2. CASE Refetch(c)
  <2> DEFINE r == card[c].id
             new == [page[c] EXCEPT !.unverified = row[r].evidence = "unverified"]
  <2>1. Shown(c) /\ LoadCard(c, r) /\ page' = [page EXCEPT ![c] = new] /\ r \in Requirements
    BY <1>0, <1>2 DEF Refetch, Cards
  <2>2. /\ new \in Pages /\ new.unverified = (row[r].evidence = "unverified")
        /\ new.sent = page[c].sent /\ new.pending = page[c].pending
    BY <1>0, <2>1 DEF Pages
  <2> QED
    BY <2>1, <2>2
<1>3. CASE ClickEdit(c)
  <2> DEFINE new == [page[c] EXCEPT !.opened = card[c].text]
  <2>1. /\ new \in Pages /\ new.unverified = page[c].unverified
        /\ new.sent = page[c].sent /\ new.pending = page[c].pending
    BY <1>0, <1>3 DEF ClickEdit, Idle, Pages, Cards
  <2> QED
    BY <1>3, <2>1 DEF ClickEdit, Idle, PageStep, TokensFit
<1>4. CASE CancelEdit(c)
  <2> DEFINE new == [page[c] EXCEPT !.opened = None]
  <2>1. /\ new \in Pages /\ new.unverified = page[c].unverified
        /\ new.sent = page[c].sent /\ new.pending = page[c].pending
    BY <1>0, <1>4 DEF CancelEdit, Idle, Pages
  <2> QED
    BY <1>4, <2>1 DEF CancelEdit, Idle, PageStep, TokensFit
<1>5. CASE SaveEdit(c)
  <2>1. Shown(c) /\ page[c] \in Pages /\ card[c] \in Cards /\ UNCHANGED vars
    BY <1>0, <1>5 DEF SaveEdit, NotSaving, Idle
  <2>2. CASE page[c].text = card[c].text
    <3> DEFINE new == [page[c] EXCEPT !.opened = None]
    <3>1. /\ new \in Pages /\ new.unverified = page[c].unverified
          /\ new.sent = page[c].sent /\ new.pending = page[c].pending
      BY <2>1 DEF Pages
    <3> QED
      BY <1>5, <2>1, <2>2, <3>1 DEF SaveEdit, PageStep, TokensFit
  <2>3. CASE page[c].text # card[c].text
    <3>1. RequestPatch(c, page[c].text, None)
      BY <1>5, <2>3 DEF SaveEdit
    <3>2. page[c].text \in Texts \cup {None} /\ page[c].text # None
      BY <2>1, ConstantsAssumption DEF Pages
    <3> QED
      BY <2>1, <3>1, <3>2, RequestStep DEF PageStep, CardsInv
  <2> QED
    BY <2>2, <2>3
<1>6. ASSUME NEW text \in Texts, Type(c, text)
      PROVE  PageStep(c)
  <2> DEFINE new == [page[c] EXCEPT !.text = text]
  <2>1. /\ new \in Pages /\ new.unverified = page[c].unverified
        /\ new.sent = page[c].sent /\ new.pending = page[c].pending
    BY <1>0, <1>6 DEF Type, Idle, Pages
  <2> QED
    BY <1>6, <2>1 DEF Type, Idle, PageStep, TokensFit
<1>7. ASSUME NEW review \in {"CONFIRMED", "REJECTED"}, Decide(c, review)
      PROVE  PageStep(c)
  <2>1. Shown(c) /\ page[c] \in Pages /\ card[c] \in Cards /\ UNCHANGED vars
    BY <1>0, <1>7 DEF Decide, NotSaving, Idle
  <2>2. RequestPatch(c, None, review)
    BY <1>7 DEF Decide
  <2>3. CardsTypeOK
    BY DEF CardsInv
  <2> QED
    BY <1>7, <2>1, <2>2, <2>3, RequestStep DEF PageStep
<1>8. ASSUME NEW given \in BOOLEAN, Consent(c, given)
      PROVE  PageStep(c)
  <2> DEFINE yes == [page[c].pending EXCEPT !.confirm = TRUE]
             new == [page[c] EXCEPT !.pending = None, !.sent = IF given THEN yes ELSE None]
  <2>1. Shown(c) /\ page[c] \in Pages /\ page[c].pending \in Requests
    BY <1>0, <1>8 DEF Consent, Pages
  <2>2. yes \in Requests /\ Asked(yes) /\ yes.token = page[c].pending.token
    BY <2>1 DEF Requests, Asked
  <2>3. UNCHANGED vars /\ page' = [page EXCEPT ![c] = new]
    BY <1>8 DEF Consent
  <2> HIDE DEF yes
  <2>4. /\ new \in Pages /\ new.unverified = page[c].unverified
        /\ new.sent = (IF given THEN yes ELSE None) /\ new.pending = None
    BY <2>1, <2>2 DEF Pages
  <2> HIDE DEF new
  <2> QED
    BY <1>8, <2>1, <2>2, <2>3, <2>4 DEF PageStep, TokensFit, Consent
<1>9. CASE NotAccepted(c)
  <2> DEFINE new == [page[c] EXCEPT !.sent = None]
  <2>1. /\ new \in Pages /\ new.unverified = page[c].unverified
        /\ new.sent = None /\ new.pending = page[c].pending
    BY <1>0, <1>9 DEF NotAccepted, Pages
  <2> QED
    BY <1>9, <2>1 DEF NotAccepted, PageStep, TokensFit
<1>10. CASE Accepted(c)
  BY <1>0, <1>10 DEF Accepted
<1> QED
  BY <1>1, <1>2, <1>3, <1>4, <1>5, <1>6, <1>7, <1>8, <1>9, <1>10

\* The steps of the page keep the types of the tables and of the cards.
LEMMA CardsTypeStep ==
    ASSUME CardsInv, [NextCards]_allVars
    PROVE  CardsTypeOK'
<1> USE DEF CardsInv, CardsTypeOK
<1>1. CASE UNCHANGED allVars
  BY <1>1, TypeStep DEF allVars, vars, TypeOK
<1>2. CASE Pipeline /\ UNCHANGED page
  BY <1>2, TypeStep DEF Next
<1>3. ASSUME NEW c \in Clients, PageStep(c)
      PROVE  CardsTypeOK'
  BY <1>3, TypeStep DEF PageStep
<1>4. ASSUME NEW c \in Clients, NEW r \in Requirements, NEW new \in Pages, LoadCard(c, r),
             page' = [page EXCEPT ![c] = new]
      PROVE  CardsTypeOK'
  BY <1>4, TypeStep DEF Next, Client
<1>5. ASSUME NEW c \in Clients, page[c] \in Pages, Accepted(c)
      PROVE  CardsTypeOK'
  <2>0. PICK r \in Requirements, new \in Rows, review \in ReviewStates, request \in Requests :
            Revision(c, r, new, review, request)
    BY <1>5, AcceptedStep
  <2>1. PICK own \in Texts \cup {None} :
            page' = [page EXCEPT ![c] = [page[c] EXCEPT !.sent = None, !.own = own]]
    BY <2>0 DEF Revision
  <2>2. clock \in Nat
    BY ConstantsAssumption DEF TypeOK
  <2>3. [page[c] EXCEPT !.sent = None, !.own = own] \in Pages
    BY <1>5 DEF Pages
  <2>4. page' \in [Clients -> Pages \cup {None}]
    BY <2>1, <2>3
  <2>5. /\ row' \in [Requirements -> Rows \cup {None}]
        /\ \A q \in Requirements : row'[q] # None => row'[q].token <= clock'
    BY <2>0, <2>2 DEF Revision, TypeOK, Rows
  <2>6. /\ ItemAfter(r, review) \in Items \cup {None}
        /\ ItemAfter(r, review) # None => /\ ItemAfter(r, review).token <= clock + 1
                                          /\ ItemAfter(r, review).id <= clock + 1
    BY <2>2, ItemAfterType DEF TypeOK, Items
  <2>7. /\ item' \in [Requirements -> Items \cup {None}]
        /\ \A q \in Requirements : item'[q] # None => item'[q].token <= clock' /\ item'[q].id <= clock'
    <3>1. item' = [item EXCEPT ![r] = ItemAfter(r, review)] /\ clock' = clock + 1
      BY <2>0 DEF Revision
    <3>2. \A q \in Requirements : item'[q] = item[q] \/ item'[q] = ItemAfter(r, review)
      BY <3>1 DEF TypeOK
    <3>3. \A q \in Requirements : item[q] # None =>
              item[q].token <= clock + 1 /\ item[q].id <= clock + 1
      BY <2>2 DEF TypeOK, Items
    <3> QED
      BY <2>6, <3>1, <3>2, <3>3 DEF TypeOK
  <2>8. consented' \in [Requirements -> BOOLEAN]
    BY <2>0 DEF Revision, TypeOK, Requests
  <2>9. /\ \A d \in Clients : card'[d] # None => card'[d].token <= clock'
        /\ \A d \in Clients : draft'[d] # None => draft'[d].token <= clock' /\ draft'[d].id <= clock'
    BY <2>0, <2>2 DEF Revision, TypeOK, Cards, Drafts
  <2> QED
    BY <2>0, <2>4, <2>5, <2>7, <2>8, <2>9 DEF Revision, TypeOK
<1> QED
  BY <1>1, <1>2, <1>3, <1>4, <1>5, CardSteps

\* Evidence only gets lost, and what has a row was extracted.
LEMMA ExtractedStep ==
    ASSUME CardsInv, [NextCards]_allVars
    PROVE  /\ RowsWereExtracted'
           /\ \A r \in Requirements : quoted[r] # "none" => quoted'[r] # "none"
           /\ \A r \in Requirements :
                  quoted[r] # "none" /\ row'[r] # None => row[r] # None
           /\ \A r \in Requirements :
                  /\ row[r] # None /\ row'[r] # None /\ row'[r].evidence = "unverified"
                  => row[r].evidence = "unverified"
<1> USE DEF CardsInv, CardsTypeOK, RowsWereExtracted
<1>1. CASE UNCHANGED <<row, quoted>>
  BY <1>1
<1>2. ASSUME NEW r \in Requirements, NEW d \in Documents,
             NEW kind \in {"verified", "unverified"}, Extract(r, d, kind)
      PROVE  /\ \A q \in Requirements \ {r} : row'[q] = row[q] /\ quoted'[q] = quoted[q]
             /\ row[r] = None /\ quoted[r] = "none" /\ quoted'[r] # "none"
  BY <1>2 DEF Extract, TypeOK
<1>3. ASSUME NEW d \in Documents, ReplaceBlocks(d)
      PROVE  /\ quoted' = quoted
             /\ \A r \in Requirements :
                   row'[r] = row[r] \/ (row[r] # None /\ row'[r].evidence = "none")
  <2>1. \A r \in Requirements : row[r] # None =>
            [row[r] EXCEPT !.evidence = "none"].evidence = "none"
    BY DEF TypeOK, Rows
  <2> QED
    BY <1>3, <2>1 DEF ReplaceBlocks
<1>4. ASSUME NEW d \in Documents, DeleteDocument(d)
      PROVE  /\ quoted' = quoted
             /\ \A r \in Requirements : row'[r] = row[r] \/ row'[r] = None
  BY <1>4 DEF DeleteDocument
<1>5. ASSUME NEW c \in Clients, page[c] \in Pages, Accepted(c)
      PROVE  /\ quoted' = quoted
             /\ \A r \in Requirements :
                    row'[r] = row[r] \/ (row[r] # None /\ row'[r].evidence = row[r].evidence)
  <2>1. PICK r \in Requirements, new \in Rows, review \in ReviewStates, request \in Requests :
            Revision(c, r, new, review, request)
    BY <1>5, AcceptedStep
  <2> QED
    BY <2>1 DEF Revision, TypeOK
<1>6. CASE Pipeline
  BY <1>2, <1>3, <1>4, <1>6 DEF Pipeline
<1>7. CASE \E c \in Clients : PageStep(c) \/ \E r \in Requirements : LoadCard(c, r)
  BY <1>1, <1>7 DEF PageStep, LoadCard, vars
<1>8. CASE UNCHANGED allVars
  BY <1>1, <1>8 DEF allVars, vars
<1> QED
  BY <1>5, <1>6, <1>7, <1>8, CardSteps

\* Whatever becomes of the copies and the row, what is sent was asked for.
LEMMA AskedStep ==
    ASSUME CardsInv, [NextCards]_allVars
    PROVE  RequestsWereAsked'
<1> SUFFICES ASSUME NEW c \in Clients, Shown(c)'
             PROVE  LET r == card[c].id IN
                    (/\ page[c] \in Pages /\ quoted[r] # "none"
                     /\ row[r] # None /\ row[r].evidence = "unverified" =>
                            /\ page[c].unverified
                            /\ page[c].sent # None => Asked(page[c].sent))'
  BY DEF RequestsWereAsked
<1> DEFINE r == card[c].id
           Old(p) == /\ p \in Pages /\ quoted[r] # "none"
                     /\ row[r] # None /\ row[r].evidence = "unverified" =>
                            p.unverified /\ (p.sent # None => Asked(p.sent))
<1>0. card \in [Clients -> Cards \cup {None}] /\ page \in [Clients -> Pages \cup {None}]
  BY DEF CardsInv, CardsTypeOK, TypeOK
<1>1. CASE card'[c] = card[c] /\ Old(page'[c])
  <2>1. r \in Requirements
    BY <1>0, <1>1 DEF Shown, Cards
  <2> QED
    BY <1>1, <2>1, ExtractedStep
<1>2. CASE card'[c] = card[c] /\ page'[c] = page[c]
  BY <1>1, <1>2 DEF CardsInv, RequestsWereAsked, Shown
<1>3. CASE Pipeline /\ UNCHANGED page
  BY <1>2, <1>3 DEF Pipeline, Extract, ReplaceBlocks, DeleteDocument
<1>4. ASSUME NEW d \in Clients, PageStep(d)
      PROVE  Old(page'[c]) \/ page'[c] = page[c]
  <2>1. PICK new \in Pages :
            /\ page' = [page EXCEPT ![d] = new]
            /\ new.unverified = page[d].unverified
            /\ new.sent \in {None, page[d].sent} \/ (new.unverified => Asked(new.sent))
    BY <1>4 DEF PageStep
  <2>2. CASE c # d
    BY <1>0, <2>1, <2>2
  <2>3. CASE c = d
    <3>1. page'[c] = new /\ Old(page[c])
      BY <1>0, <1>4, <2>1, <2>3 DEF PageStep, CardsInv, RequestsWereAsked
    <3> QED
      BY <2>1, <2>3, <3>1
  <2> QED
    BY <2>2, <2>3
<1>5. ASSUME NEW d \in Clients, page[d] \in Pages, Accepted(d)
      PROVE  card' = card /\ (Old(page'[c]) \/ page'[c] = page[c])
  <2>1. PICK own \in Texts \cup {None} :
            page' = [page EXCEPT ![d] = [page[d] EXCEPT !.sent = None, !.own = own]]
    BY <1>5, AcceptedStep DEF CardsInv, Revision
  <2>2. card' = card
    BY <1>5 DEF Accepted
  <2>3. CASE c = d
    <3>1. Old(page[c])
      BY <1>5, <2>3 DEF Accepted, CardsInv, RequestsWereAsked
    <3>2. page'[c] = [page[c] EXCEPT !.sent = None, !.own = own]
      BY <1>0, <2>1, <2>3
    <3>3. page'[c] \in Pages /\ page'[c].unverified = page[c].unverified /\ page'[c].sent = None
      BY <3>1, <3>2 DEF Pages
    <3> QED
      BY <2>2, <3>1, <3>3
  <2> QED
    BY <1>0, <2>1, <2>2, <2>3
<1>6. ASSUME NEW d \in Clients, NEW q \in Requirements, NEW new \in Pages, LoadCard(d, q),
             page' = [page EXCEPT ![d] = new],
             new.unverified = (row[q].evidence = "unverified"),
             IF Shown(d) THEN /\ q = card[d].id /\ new.sent = page[d].sent
                              /\ new.pending = page[d].pending
             ELSE new.sent = None /\ new.pending = None
      PROVE  LET s == card[c].id IN
             (/\ page[c] \in Pages /\ quoted[s] # "none"
              /\ row[s] # None /\ row[s].evidence = "unverified" =>
                     /\ page[c].unverified
                     /\ page[c].sent # None => Asked(page[c].sent))'
  <2>1. /\ row[q] # None /\ row[q] \in Rows /\ row' = row /\ quoted' = quoted
        /\ card' = [card EXCEPT ![d] = CardOf(q, row[q])]
    BY <1>6 DEF LoadCard, CardsInv, CardsTypeOK, TypeOK
  <2>2. CASE c # d
    BY <1>0, <1>2, <1>6, <2>1, <2>2
  <2>3. CASE c = d
    <3>1. card'[c].id = q /\ page'[c] = new
      BY <1>0, <1>6, <2>1, <2>3, CardType
    <3>2. quoted[q] # "none"
      BY <2>1 DEF CardsInv, RowsWereExtracted
    <3>3. row[q].evidence = "unverified" /\ new.sent # None => Asked(new.sent)
      BY <1>6, <2>1 DEF CardsInv, RequestsWereAsked
    <3> QED
      BY <1>6, <2>1, <3>1, <3>2, <3>3
  <2> QED
    BY <2>2, <2>3
<1>7. CASE UNCHANGED allVars
  BY <1>2, <1>7 DEF allVars, vars
<1>8. CASE \E d \in Clients : PageStep(d)
  BY <1>1, <1>2, <1>4, <1>8 DEF PageStep, vars
<1>9. CASE \E d \in Clients : Accepted(d) /\ page[d] \in Pages
  BY <1>1, <1>2, <1>5, <1>9
<1> QED
  BY <1>3, <1>6, <1>7, <1>8, <1>9, CardSteps

\* A row never gets an older token; one that another session writes gets a younger
\* one than any copy has.
LEMMA YoungerStep ==
    ASSUME CardsInv, [NextCards]_allVars
    PROVE  \A r \in Requirements, t \in Nat :
               quoted[r] # "none" /\ row'[r] # None /\ t <= row[r].token => t <= row'[r].token
<1> USE DEF CardsInv, CardsTypeOK
<1>0. clock \in Nat /\ \A r \in Requirements : row[r] # None => row[r].token \in Nat
  BY ConstantsAssumption DEF TypeOK, Rows
<1>1. CASE UNCHANGED row
  BY <1>1
<1>2. ASSUME NEW r \in Requirements, NEW d \in Documents,
             NEW kind \in {"verified", "unverified"}, Extract(r, d, kind)
      PROVE  quoted[r] = "none" /\ \A q \in Requirements \ {r} : row'[q] = row[q]
  BY <1>2 DEF Extract, TypeOK
<1>3. ASSUME NEW d \in Documents, ReplaceBlocks(d)
      PROVE  \A r \in Requirements : row'[r] = row[r] \/ row'[r].token = row[r].token
  <2>1. \A r \in Requirements : row[r] # None =>
            [row[r] EXCEPT !.evidence = "none"].token = row[r].token
    BY DEF TypeOK, Rows
  <2> QED
    BY <1>3, <2>1 DEF ReplaceBlocks
<1>4. ASSUME NEW d \in Documents, DeleteDocument(d)
      PROVE  \A r \in Requirements : row'[r] = row[r] \/ row'[r] = None
  BY <1>4 DEF DeleteDocument
<1>5. ASSUME NEW c \in Clients, page[c] \in Pages, Accepted(c)
      PROVE  \A r \in Requirements : row'[r] = row[r] \/ row'[r].token = clock + 1
  <2>1. PICK r \in Requirements, new \in Rows, review \in ReviewStates, request \in Requests :
            Revision(c, r, new, review, request)
    BY <1>5, AcceptedStep
  <2> QED
    BY <2>1 DEF Revision, TypeOK
<1>6. CASE Pipeline
  BY <1>2, <1>3, <1>4, <1>6 DEF Pipeline
<1>7. CASE \E c \in Clients : PageStep(c) \/ \E r \in Requirements : LoadCard(c, r)
  BY <1>1, <1>7 DEF PageStep, LoadCard, vars
<1>8. CASE UNCHANGED allVars
  BY <1>1, <1>8 DEF allVars, vars
<1>9. CASE \E c \in Clients : Accepted(c) /\ page[c] \in Pages
  <2>1. \A r \in Requirements : row[r] # None => row[r].token <= clock
    BY DEF TypeOK
  <2>2. \A r \in Requirements : quoted[r] # "none" /\ row'[r] # None => row[r] # None
    BY ExtractedStep
  <2>3. \A r \in Requirements : row'[r] = row[r] \/ row'[r].token = clock + 1
    BY <1>5, <1>9
  <2> QED
    BY <1>0, <2>1, <2>2, <2>3
<1> QED
  BY <1>6, <1>7, <1>8, <1>9, CardSteps

\* Fetches only bring younger copies, and requests are made from the copy.
LEMMA OlderStep ==
    ASSUME CardsInv, [NextCards]_allVars
    PROVE  CopiesAreOlder'
<1> SUFFICES ASSUME NEW c \in Clients, Shown(c)'
             PROVE  (/\ TokensFit(c, page[c])
                     /\ row[card[c].id] # None => card[c].token <= row[card[c].id].token)'
  BY DEF CopiesAreOlder
<1>0. /\ card \in [Clients -> Cards \cup {None}] /\ page \in [Clients -> Pages \cup {None}]
      /\ Shown(c) => card[c] \in Cards /\ page[c] \in Pages /\ quoted[card[c].id] # "none"
      /\ Shown(c) => card[c].id \in Requirements /\ card[c].token \in Nat
  BY DEF CardsInv, CardsTypeOK, TypeOK, RequestsWereAsked, Shown, Cards
<1>1. CASE card'[c] = card[c] /\ TokensFit(c, page'[c])
  <2>1. card'[c].id \in Requirements /\ quoted[card'[c].id] # "none" /\ card'[c].token \in Nat
    BY <1>0, <1>1 DEF Shown
  <2>2. row[card[c].id] # None => card[c].token <= row[card[c].id].token
    BY <1>1 DEF CardsInv, CopiesAreOlder, Shown
  <2>3. row'[card[c].id] # None => row[card[c].id] # None
    BY <1>1, <2>1, ExtractedStep
  <2> QED
    BY <1>1, <2>1, <2>2, <2>3, YoungerStep DEF TokensFit
<1>2. CASE card'[c] = card[c] /\ page'[c] = page[c]
  BY <1>1, <1>2 DEF CardsInv, CopiesAreOlder, Shown
<1>3. CASE Pipeline /\ UNCHANGED page
  BY <1>2, <1>3 DEF Pipeline, Extract, ReplaceBlocks, DeleteDocument
<1>4. ASSUME NEW d \in Clients, PageStep(d)
      PROVE  TokensFit(c, page'[c]) \/ page'[c] = page[c]
  BY <1>0, <1>4 DEF PageStep, CardsInv, CopiesAreOlder
<1>5. ASSUME NEW d \in Clients, page[d] \in Pages, Accepted(d)
      PROVE  card' = card /\ (TokensFit(c, page'[c]) \/ page'[c] = page[c])
  <2>1. PICK own \in Texts \cup {None} :
            page' = [page EXCEPT ![d] = [page[d] EXCEPT !.sent = None, !.own = own]]
    BY <1>5, AcceptedStep DEF CardsInv, Revision
  <2>2. card' = card
    BY <1>5 DEF Accepted
  <2>3. CASE c = d
    <3>1. TokensFit(c, page[c])
      BY <1>5, <2>3 DEF Accepted, CardsInv, CopiesAreOlder
    <3>2. page'[c] = [page[c] EXCEPT !.sent = None, !.own = own]
      BY <1>0, <2>1, <2>3
    <3>3. page'[c].sent = None /\ page'[c].pending = page[c].pending
      BY <1>5, <2>3, <3>2 DEF Pages
    <3> QED
      BY <2>2, <3>1, <3>3 DEF TokensFit
  <2> QED
    BY <1>0, <2>1, <2>2, <2>3
<1>6. ASSUME NEW d \in Clients, NEW q \in Requirements, NEW new \in Pages, LoadCard(d, q),
             page' = [page EXCEPT ![d] = new],
             IF Shown(d) THEN /\ q = card[d].id /\ new.sent = page[d].sent
                              /\ new.pending = page[d].pending
             ELSE new.sent = None /\ new.pending = None
      PROVE  (/\ TokensFit(c, page[c])
              /\ row[card[c].id] # None => card[c].token <= row[card[c].id].token)'
  <2>1. /\ row[q] # None /\ row[q] \in Rows /\ row' = row
        /\ card' = [card EXCEPT ![d] = CardOf(q, row[q])]
    BY <1>6 DEF LoadCard, CardsInv, CardsTypeOK, TypeOK
  <2>2. CASE c # d
    BY <1>0, <1>2, <1>6, <2>1, <2>2
  <2>3. CASE c = d
    <3>1. card'[c].id = q /\ page'[c] = new /\ card'[c].token = row[q].token /\ row[q].token \in Nat
      BY <1>0, <1>6, <2>1, <2>3, CardType DEF Rows
    <3>2. Shown(c) => TokensFit(c, page[c]) /\ card[c].token <= row[card[c].id].token
      BY <1>6, <2>1, <2>3 DEF CardsInv, CopiesAreOlder
    <3>3. CASE Shown(c)
      <4>1. /\ new.sent # None => new.sent \in Requests
            /\ new.pending # None => new.pending \in Requests
        BY DEF Pages
      <4>2. \A request \in Requests : request.token \in Nat
        BY DEF Requests
      <4> QED
        BY <1>0, <1>6, <2>1, <2>3, <3>1, <3>2, <3>3, <4>1, <4>2 DEF TokensFit
    <3>4. CASE ~Shown(c)
      BY <1>6, <2>1, <2>3, <3>1, <3>4 DEF TokensFit
    <3> QED
      BY <3>3, <3>4
  <2> QED
    BY <2>2, <2>3
<1>7. CASE UNCHANGED allVars
  BY <1>2, <1>7 DEF allVars, vars
<1>8. CASE \E d \in Clients : PageStep(d)
  BY <1>1, <1>2, <1>4, <1>8 DEF PageStep, vars
<1>9. CASE \E d \in Clients : Accepted(d) /\ page[d] \in Pages
  BY <1>1, <1>2, <1>5, <1>9
<1> QED
  BY <1>3, <1>6, <1>7, <1>8, <1>9, CardSteps

\* An accepted request leaves copies, but with tokens that are no longer current.
LEMMA SnapshotStep ==
    ASSUME CardsInv, [NextCards]_allVars
    PROVE  CardsAreSnapshots'
<1>1. CASE [Next]_vars
  BY <1>1, CardsStep DEF CardsInv, CardsTypeOK
<1>2. ASSUME NEW c \in Clients, page[c] \in Pages, Accepted(c)
      PROVE  CardsAreSnapshots'
  <2>1. PICK r \in Requirements, new \in Rows, review \in ReviewStates, request \in Requests :
            Revision(c, r, new, review, request)
    BY <1>2, AcceptedStep DEF CardsInv
  <2>2. \A d \in Clients : card[d] # None =>
            card[d].token \in Nat /\ clock \in Nat /\ card[d].token # clock + 1
    BY ConstantsAssumption DEF CardsInv, CardsTypeOK, TypeOK, Cards
  <2>3. row'[r].token = clock + 1 /\ \A q \in Requirements \ {r} : row'[q] = row[q]
    BY <2>1 DEF Revision, CardsInv, CardsTypeOK, TypeOK
  <2>4. \A d \in Clients : card[d] # None => card[d].id \in Requirements
    BY DEF CardsInv, CardsTypeOK, TypeOK, Cards
  <2> QED
    BY <2>1, <2>2, <2>3, <2>4 DEF Revision, CardsInv, CardsAreSnapshots
<1> QED
  BY <1>1, <1>2, CardSteps DEF Next, Client, PageStep, allVars, vars

\* The strengthened invariant of the page is inductive.
THEOREM CardsInvariant == SpecCards => []CardsInv
<1>1. InitCards => CardsInv
  BY TypeInit DEF InitCards, Init, CardsInv, CardsTypeOK, RowsWereExtracted,
     RequestsWereAsked, CopiesAreOlder, CardsAreSnapshots, Shown
<1>2. CardsInv /\ [NextCards]_allVars => CardsInv'
  BY CardsTypeStep, ExtractedStep, AskedStep, OlderStep, SnapshotStep DEF CardsInv
<1> QED
  BY <1>1, <1>2, PTL DEF SpecCards

\* No card sends what would be refused for want of consent, however its copy and its
\* text have aged.
THEOREM RefusalsAreAsked == SpecCards => []AskedBeforeRefused
<1>1. CardsInv => AskedBeforeRefused
  <2> SUFFICES ASSUME CardsInv, NEW c \in Clients, Shown(c), page[c].sent # None,
                      row[card[c].id] # None
               PROVE  ConsentGiven(row[card[c].id], page[c].sent)
    BY DEF AskedBeforeRefused
  <2>1. row[card[c].id].evidence = "unverified" => Asked(page[c].sent)
    BY DEF CardsInv, RequestsWereAsked
  <2> QED
    BY <2>1 DEF ConsentGiven, AskedReview, Asked
<1> QED
  BY <1>1, CardsInvariant, PTL

\* The matrix follows the review under the page as well, though the page sends the
\* tokens of old copies.
THEOREM CardsKeepMatrix == SpecCards => []ItemFollowsReview
<1>1. InitCards => ItemFollowsReview
  BY DEF InitCards, Init, ItemFollowsReview
<1>2. CardsInv /\ ItemFollowsReview /\ [NextCards]_allVars => ItemFollowsReview'
  <2> SUFFICES ASSUME CardsInv, ItemFollowsReview, [NextCards]_allVars PROVE ItemFollowsReview'
    OBVIOUS
  <2>1. ASSUME [Next]_vars PROVE ItemFollowsReview'
    BY <2>1, MatrixStep DEF CardsInv, CardsTypeOK
  <2>2. ASSUME NEW c \in Clients, page[c] \in Pages, Accepted(c)
        PROVE  ItemFollowsReview'
    <3>1. PICK r \in Requirements, new \in Rows, review \in ReviewStates, request \in Requests :
              Revision(c, r, new, review, request)
      BY <2>2, AcceptedStep DEF CardsInv
    <3>2. /\ review \in MatrixStates => ItemAfter(r, review) # None
          /\ review = "REJECTED" => ItemAfter(r, review) = None
      BY ItemAfterType, ConstantsAssumption DEF CardsInv, CardsTypeOK, TypeOK
    <3>3. row'[r] = new /\ item'[r] = ItemAfter(r, review)
      BY <3>1 DEF Revision, CardsInv, CardsTypeOK, TypeOK
    <3>4. \A q \in Requirements \ {r} : row'[q] = row[q] /\ item'[q] = item[q]
      BY <3>1 DEF Revision, CardsInv, CardsTypeOK, TypeOK
    <3> QED
      BY <3>1, <3>2, <3>3, <3>4 DEF Revision, ItemFollowsReview
  <2> QED
    BY <2>1, <2>2, CardSteps DEF Next, Client, PageStep, allVars, vars
<1> QED
  BY <1>1, <1>2, CardsInvariant, PTL DEF SpecCards

\* Nor does it confirm anything unverified without consent.
THEOREM CardsAskForUnverified == SpecCards => []UnverifiedNeedsConsent
<1>1. InitCards => UnverifiedNeedsConsent
  BY DEF InitCards, Init, UnverifiedNeedsConsent
<1>2. CardsInv /\ UnverifiedNeedsConsent /\ [NextCards]_allVars => UnverifiedNeedsConsent'
  <2> SUFFICES ASSUME CardsInv, UnverifiedNeedsConsent, [NextCards]_allVars
               PROVE  UnverifiedNeedsConsent'
    OBVIOUS
  <2>1. ASSUME [Next]_vars PROVE UnverifiedNeedsConsent'
    BY <2>1, ConsentStep DEF CardsInv, CardsTypeOK
  <2>2. ASSUME NEW c \in Clients, page[c] \in Pages, Accepted(c)
        PROVE  UnverifiedNeedsConsent'
    <3>1. PICK r \in Requirements, new \in Rows, review \in ReviewStates, request \in Requests :
              Revision(c, r, new, review, request)
      BY <2>2, AcceptedStep DEF CardsInv
    <3>2. /\ row'[r] = new
          /\ consented'[r] = IF AskedReview(row[r], request) = None THEN consented[r]
                             ELSE request.confirm
          /\ \A q \in Requirements \ {r} : row'[q] = row[q] /\ consented'[q] = consented[q]
      BY <3>1 DEF Revision, CardsInv, CardsTypeOK, TypeOK
    <3>3. new.review \in MatrixStates /\ new.evidence = "unverified" => consented'[r]
      BY <3>1, <3>2 DEF Revision, UnverifiedNeedsConsent, ConsentGiven
    <3> QED
      BY <3>1, <3>2, <3>3 DEF Revision, UnverifiedNeedsConsent
  <2> QED
    BY <2>1, <2>2, CardSteps DEF Next, Client, PageStep, allVars, vars
<1> QED
  BY <1>1, <1>2, CardsInvariant, PTL DEF SpecCards

\* What an accepted request replaces is what its session's copy shows, however many
\* fetches and questions lie between the decision and the answer.
THEOREM ReplacedWasShown == SpecCards => ReplacedIsShown
<1> DEFINE Replaced ==
        \A r \in Requirements :
           row[r] # None /\ row'[r] # None /\ row'[r].token # row[r].token =>
               \E c \in Clients :
                   /\ Shown(c) /\ card[c].id = r
                   /\ page[c].sent # None /\ page'[c].sent = None
                   /\ card[c].text = row[r].text /\ card[c].review = row[r].review
<1>1. CardsInv /\ [NextCards]_allVars => [Replaced]_allVars
  <2> SUFFICES ASSUME CardsInv, NextCards PROVE Replaced
    OBVIOUS
  <2> USE DEF CardsInv, CardsTypeOK
  <2>1. CASE UNCHANGED row
    BY <2>1
  <2>2. CASE Pipeline
    <3>1. ASSUME NEW r \in Requirements, NEW d \in Documents,
                 NEW kind \in {"verified", "unverified"}, Extract(r, d, kind)
          PROVE  row[r] = None /\ \A q \in Requirements \ {r} : row'[q] = row[q]
      BY <3>1 DEF Extract, TypeOK
    <3>2. ASSUME NEW d \in Documents, ReplaceBlocks(d)
          PROVE  \A r \in Requirements : row[r] # None => row'[r].token = row[r].token
      <4>1. \A r \in Requirements : row[r] # None =>
                [row[r] EXCEPT !.evidence = "none"].token = row[r].token
        BY DEF TypeOK, Rows
      <4> QED
        BY <3>2, <4>1 DEF ReplaceBlocks
    <3>3. ASSUME NEW d \in Documents, DeleteDocument(d)
          PROVE  \A r \in Requirements : row'[r] = row[r] \/ row'[r] = None
      BY <3>3 DEF DeleteDocument
    <3> QED
      BY <2>2, <3>1, <3>2, <3>3 DEF Pipeline
  <2>3. ASSUME NEW c \in Clients, page[c] \in Pages, Accepted(c)
        PROVE  Replaced
    <3> DEFINE r == card[c].id
    <3>1. /\ Shown(c) /\ page[c].sent # None /\ row[r] # None /\ r \in Requirements
          /\ row[r].token = page[c].sent.token
      BY <2>3 DEF Accepted, Fresh, Shown, TypeOK, Cards
    <3>2. /\ card[c].token \in Nat /\ row[r].token \in Nat
      BY <3>1 DEF Shown, TypeOK, Cards, Rows
    <3>3. page[c].sent.token <= card[c].token /\ card[c].token <= row[r].token
      BY <3>1 DEF CopiesAreOlder, TokensFit
    <3>4. card[c].token = row[r].token
      BY <3>1, <3>2, <3>3
    <3>5. card[c].text = row[r].text /\ card[c].review = row[r].review
      BY <3>1, <3>4 DEF CardsAreSnapshots, Shown
    <3>6. PICK q \in Requirements, new \in Rows, review \in ReviewStates, request \in Requests :
              Revision(c, q, new, review, request)
      BY <2>3, AcceptedStep
    <3>7. \A p \in Requirements \ {r} : row'[p] = row[p]
      BY <3>6 DEF Revision, TypeOK
    <3>8. page'[c].sent = None
      <4>1. PICK own \in Texts \cup {None} :
                page' = [page EXCEPT ![c] = [page[c] EXCEPT !.sent = None, !.own = own]]
        BY <3>6 DEF Revision
      <4>2. [page[c] EXCEPT !.sent = None, !.own = own].sent = None
        BY <2>3 DEF Pages
      <4> QED
        BY <4>1, <4>2
    <3> HIDE DEF r
    <3>9. r = card[c].id
      BY DEF r
    <3> QED
      BY <3>1, <3>5, <3>7, <3>8, <3>9
  <2> QED
    BY <2>1, <2>2, <2>3, CardSteps DEF PageStep, LoadCard, vars
<1>2. [][Replaced]_allVars => ReplacedIsShown
  BY PTL DEF ReplacedIsShown, Replaced
<1> QED
  BY <1>1, <1>2, CardsInvariant, PTL DEF SpecCards
=============================================================================
