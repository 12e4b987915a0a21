----------------------------- MODULE ReviewCards -----------------------------
(***************************************************************************)
(* The review page over RequirementReview: what RequirementCard keeps of a *)
(* requirement besides the copy in the query cache, the dialog that asks   *)
(* for consent, and the request under way.  The list is fetched again      *)
(* after every answer, also to a request for another card, so the copy     *)
(* changes under a card that is being edited.                              *)
(***************************************************************************)
EXTENDS RequirementReview

VARIABLE page   \* what each client's card holds

allVars == <<vars, page>>

\* A request carries the token of the copy it was made from.  History, not sent: the
\* text of the requirement when the edit began.
Requests == [text : Texts \cup {None}, review : ReviewStates \cup {None},
             confirm : BOOLEAN, token : Nat, from : Texts \cup {None}]

\* State text of the card, `unverified` of its copy, pendingPatch, and the mutation.
\* History: the text when the edit began, and the last one the session got accepted.
Pages == [text : Texts, opened : Texts \cup {None}, own : Texts \cup {None}, unverified : BOOLEAN,
          pending : Requests \cup {None}, sent : Requests \cup {None}]

InitCards == Init /\ page = [c \in Clients |-> None]

Set(c, contents) == page' = [page EXCEPT ![c] = contents]
Shown(c) == card[c] # None
Idle(c) == Shown(c) /\ page[c].pending = None
NotSaving(c) == Idle(c) /\ page[c].sent = None

----------------------------------------------------------------------------
\* The card takes its text from the requirement when it is mounted, and only then.
Mount(c, r) ==
    /\ ~Shown(c)
    /\ LoadCard(c, r)
    /\ Set(c, [text |-> row[r].text, opened |-> None, own |-> None,
               unverified |-> row[r].evidence = "unverified",
               pending |-> None, sent |-> None])

Refetch(c) ==
    /\ Shown(c)
    /\ LoadCard(c, card[c].id)
    /\ Set(c, [page[c] EXCEPT !.unverified = row[card[c].id].evidence = "unverified"])

ClickEdit(c) ==
    /\ Idle(c) /\ page[c].opened = None
    /\ Set(c, [page[c] EXCEPT !.opened = card[c].text])
    /\ UNCHANGED vars

Type(c, text) ==
    /\ Idle(c) /\ page[c].opened # None
    /\ Set(c, [page[c] EXCEPT !.text = text])
    /\ UNCHANGED vars

CancelEdit(c) ==
    /\ Idle(c) /\ page[c].opened # None
    /\ Set(c, [page[c] EXCEPT !.opened = None])
    /\ UNCHANGED vars

\* A request is put to the user or sent at once.
Request(c, text, review) ==
    [text |-> text, review |-> review, confirm |-> FALSE,
     token |-> card[c].token, from |-> page[c].opened]
Send(c, patch, asks) ==
    Set(c, [page[c] EXCEPT !.opened = None,
                           !.pending = IF asks THEN patch ELSE None,
                           !.sent = IF asks THEN None ELSE patch])

\* requestPatch: what would confirm an unverified requirement is asked for first.
RequestPatch(c, text, review) ==
    Send(c, Request(c, text, review), page[c].unverified /\ (review = "CONFIRMED" \/ text # None))

SaveEdit(c) ==
    /\ NotSaving(c) /\ page[c].opened # None
    /\ IF page[c].text = card[c].text
       THEN Set(c, [page[c] EXCEPT !.opened = None])
       ELSE RequestPatch(c, page[c].text, None)
    /\ UNCHANGED vars

Decide(c, review) ==
    /\ NotSaving(c) /\ page[c].opened = None
    /\ RequestPatch(c, None, review)
    /\ UNCHANGED vars

Consent(c, given) ==
    /\ Shown(c) /\ page[c].pending # None /\ page[c].sent = None
    /\ Set(c, [page[c] EXCEPT !.pending = None,
                              !.sent = IF given THEN [page[c].pending EXCEPT !.confirm = TRUE]
                                       ELSE None])
    /\ UNCHANGED vars

\* update_requirement, as PatchRequirement does it, for the token that was sent.
Accepted(c) ==
    LET r == card[c].id
        patch == page[c].sent
    IN
    /\ Shown(c) /\ patch # None
    /\ row[r] # None
    /\ Fresh(row[r].token, patch.token)
    /\ ConsentGiven(row[r], patch)
    /\ clock < MaxClock /\ clock' = clock + 1
    /\ row' = [row EXCEPT ![r] = Revised(row[r], patch)]
    /\ item' = [item EXCEPT ![r] = ItemAfter(r, NextReview(row[r], patch))]
    /\ consented' = [consented EXCEPT ![r] =
           IF AskedReview(row[r], patch) = None THEN @ ELSE patch.confirm]
    /\ Set(c, [page[c] EXCEPT !.sent = None,
                              !.own = IF patch.text = None THEN @ ELSE patch.text])
    /\ UNCHANGED <<card, draft, quoted>>

\* Refused with 404 or 409, or lost.
NotAccepted(c) ==
    /\ Shown(c) /\ page[c].sent # None
    /\ Set(c, [page[c] EXCEPT !.sent = None])
    /\ UNCHANGED vars

----------------------------------------------------------------------------
NextCards ==
    \/ Pipeline /\ UNCHANGED page
    \/ \E c \in Clients :
           \/ \E r \in Requirements : Mount(c, r)
           \/ Refetch(c)
           \/ ClickEdit(c) \/ CancelEdit(c) \/ SaveEdit(c)
           \/ \E text \in Texts : Type(c, text)
           \/ \E review \in {"CONFIRMED", "REJECTED"} : Decide(c, review)
           \/ \E given \in BOOLEAN : Consent(c, given)
           \/ Accepted(c) \/ NotAccepted(c)

SpecCards == InitCards /\ [][NextCards]_allVars

----------------------------------------------------------------------------
(* Properties.                                                             *)

\* Every variable has its type.
CardsTypeOK == TypeOK /\ page \in [Clients -> Pages \cup {None}]

\* No request is refused for want of consent: whatever copies the card went through,
\* who decides on an unverified requirement has been asked.
AskedBeforeRefused ==
    \A c \in Clients :
        Shown(c) /\ page[c].sent # None /\ row[card[c].id] # None
            => ConsentGiven(row[card[c].id], page[c].sent)

\* What an accepted request replaces is what the session's copy shows, and showed when
\* the request was made: however many fetches, edits and requests for consent lie
\* between, no decision and no stored text changes that the session has not fetched.
ReplacedIsShown ==
    [][\A r \in Requirements :
           row[r] # None /\ row'[r] # None /\ row'[r].token # row[r].token =>
               \E c \in Clients :
                   /\ Shown(c) /\ card[c].id = r
                   /\ page[c].sent # None /\ page'[c].sent = None
                   /\ card[c].text = row[r].text /\ card[c].review = row[r].review]_allVars

----------------------------------------------------------------------------
(* A claim of the documentation that the code does not keep.               *)

\* The plan of the review services: a PATCH that is stale is refused.  An edit that
\* would be accepted was begun on the text that it replaces, if that is not the
\* session's own.
EditStartsFromStored ==
    \A c \in Clients :
        LET patch == page[c].sent
            stored == row[card[c].id]
        IN  Shown(c) /\ patch # None /\ patch.text # None /\ stored # None
                /\ Fresh(stored.token, patch.token)
                => stored.text \in {patch.from, page[c].own}
=============================================================================
