--------------------------- MODULE BrowserSession ---------------------------
(***************************************************************************)
(* Accounts, access tokens and the session of one browser tab: what        *)
(* AuthProvider keeps, the header that api.ts sends, and the answers of    *)
(* the server, which arrive in any order, late, or not at all.             *)
(*                                                                         *)
(* The sessionStorage and React's `token` are always written together and  *)
(* are one variable here.  A token is named by the form that got it, and   *)
(* Remembered is one from before; two logins of an account within a second *)
(* would get the same token, which is left out.                            *)
(***************************************************************************)
EXTENDS Integers, FiniteSets

CONSTANTS
    Forms,        \* submissions of the login and register forms
    Emails,
    Remembered,   \* the token found in the sessionStorage at the start
    None,
    MaxUses       \* bound: requests of pages and reloads of the tab, together

Tokens == Forms \cup {Remembered}

ASSUME SessionAssumption ==
    /\ Remembered \notin Forms
    /\ None \notin Tokens \cup Emails
    /\ MaxUses \in Nat

VARIABLES
    email,       \* what was typed in each form, and whose the remembered token is
    owners,      \* per email, the registrations that created its account
    expired,     \* tokens past their 60 minutes
    token,       \* token of AuthProvider, and the one in the sessionStorage
    rendered,    \* the token of the last render
    effectDue,   \* its effect has not run yet
    header,      \* accessToken of api.ts
    user,        \* the user shown, None when nobody is
    isLoading,
    stage,       \* of each form
    calls,       \* requests with an access token: sender, token, answer
    uses         \* how many requests pages have sent, and reloads

server == <<email, owners, expired>>
session == <<token, header, user, isLoading>>
react == <<rendered, effectDue>>
vars == <<server, session, react, stage, calls, uses>>

Answers == {"none", "ok", "unauthorized"}
Results == {"ok", "unauthorized", "lost"}
Senders == Forms \cup {"effect", "page"}
Calls == [by : Senders, token : Tokens \cup {None}, answer : Answers]
Stages == {"idle", "check", "insert", "login", "me", "done", "failed"}

Init ==
    /\ email \in [Tokens -> Emails]
    /\ token \in {None, Remembered}
    /\ owners = [m \in Emails |-> {t \in {token} \ {None} : email[t] = m}]
    /\ expired \in {{}, {token} \ {None}}
    /\ rendered = token /\ effectDue = TRUE
    /\ header = None
    /\ user = None
    /\ isLoading = (token # None)
    /\ stage = [f \in Forms |-> "idle"]
    /\ calls = {}
    /\ uses = 0

----------------------------------------------------------------------------
(* Parts of handlers.                                                      *)

Goto(f, label) == stage' = [stage EXCEPT ![f] = label]

Send(sender, t) == calls' = calls \cup {[by |-> sender, token |-> t, answer |-> "none"]}

Logout ==
    /\ token' = None /\ header' = None /\ user' = None
    /\ isLoading' = FALSE

SaveToken(t) ==
    /\ token' = t /\ header' = t
    /\ UNCHANGED <<user, isLoading>>

\* Mutant: the effect has no finally.
SetUserOnly(t) ==
    /\ user' = email[t]
    /\ UNCHANGED <<token, header, isLoading>>

\* With the finally of the effect, or the setIsLoading of login and register; after
\* a logout the finally has nothing left to do.
SetUser(t) ==
    /\ user' = email[t] /\ isLoading' = FALSE
    /\ UNCHANGED <<token, header>>

----------------------------------------------------------------------------
(* React.                                                                  *)

\* Passive effects run before the next render.
Render ==
    /\ ~effectDue
    /\ rendered # token
    /\ rendered' = token /\ effectDue' = TRUE
    /\ UNCHANGED <<server, session, stage, calls, uses>>

\* Mutant: the effect leaves the header alone.
RunEffectUnset ==
    /\ effectDue
    /\ effectDue' = FALSE
    /\ IF rendered = None
       THEN UNCHANGED calls
       ELSE Send("effect", rendered)
    /\ UNCHANGED <<server, session, rendered, stage, uses>>

\* The effect on [logout, token].
RunEffect ==
    /\ effectDue
    /\ effectDue' = FALSE
    /\ IF rendered = None
       THEN UNCHANGED <<header, calls>>
       ELSE header' = rendered /\ Send("effect", rendered)
    /\ UNCHANGED <<server, token, user, isLoading, rendered, stage, uses>>

ClickLogout ==
    /\ user # None
    /\ Logout
    /\ UNCHANGED <<server, react, stage, calls, uses>>

\* A page behind RequireAuth calls the server.
Request ==
    /\ user # None
    /\ uses < MaxUses
    /\ uses' = uses + 1
    /\ Send("page", header)
    /\ UNCHANGED <<server, session, react, stage>>

\* Everything but the sessionStorage is lost.
Reload ==
    /\ uses < MaxUses
    /\ uses' = uses + 1
    /\ rendered' = token /\ effectDue' = TRUE
    /\ header' = None
    /\ user' = None
    /\ isLoading' = (token # None)
    /\ stage' = [f \in Forms |-> IF stage[f] = "idle" THEN "idle" ELSE "failed"]
    /\ calls' = {}
    /\ UNCHANGED <<server, token>>

----------------------------------------------------------------------------
(* The forms.  A guest may leave one while it runs and submit the other.   *)

Submit(f) ==
    /\ stage[f] = "idle"
    /\ user = None /\ ~isLoading
    /\ \E first \in {"check", "login"} : Goto(f, first)
    /\ UNCHANGED <<server, session, react, calls, uses>>

\* register_user: the query for the email, then the insert; register() goes on to log in.
CheckEmail(f) ==
    /\ stage[f] = "check"
    /\ Goto(f, IF owners[email[f]] = {} THEN "insert" ELSE "failed")
    /\ UNCHANGED <<server, session, react, calls, uses>>

InsertUser(f) ==
    /\ stage[f] = "insert"
    /\ IF owners[email[f]] = {}
       THEN /\ owners' = [owners EXCEPT ![email[f]] = @ \cup {f}]
            /\ Goto(f, "login")
       ELSE /\ Goto(f, "failed")
            /\ UNCHANGED owners
    /\ UNCHANGED <<email, expired, session, react, calls, uses>>

\* authenticate_user and create_access_token succeed; saveToken, then me().
LoggedIn(f) ==
    /\ stage[f] = "login"
    /\ owners[email[f]] # {}
    /\ SaveToken(f)
    /\ Send(f, f)
    /\ Goto(f, "me")
    /\ UNCHANGED <<server, react, uses>>

\* INVALID_CREDENTIALS is a 401, too.
WrongPassword(f) ==
    /\ stage[f] = "login"
    /\ Logout
    /\ Goto(f, "failed")
    /\ UNCHANGED <<server, react, calls, uses>>

\* fetch rejects: the answer is lost, whatever the server did.
FormLost(f) ==
    /\ stage[f] \in {"check", "login"}
    /\ Goto(f, "failed")
    /\ UNCHANGED <<server, session, react, calls, uses>>

----------------------------------------------------------------------------
(* Requests with an access token.                                          *)

\* get_current_user and decode_access_token.
Answer(c) ==
    /\ c.answer = "none"
    /\ LET a == IF c.token \in {None} \cup expired THEN "unauthorized" ELSE "ok"
       IN  calls' = (calls \ {c}) \cup {[c EXCEPT !.answer = a]}
    /\ UNCHANGED <<server, session, react, stage, uses>>

\* Mutant: the effect keeps a token that it could not check.
EndsSessionOn401(sender, result) == result = "unauthorized"

\* request() calls the unauthorized handler on every 401, the effect logs out on any
\* failure.
EndsSession(sender, result) ==
    result = "unauthorized" \/ (sender = "effect" /\ result = "lost")

\* What fetch returns: the answer, or an exception at any time.
Deliver(c, result) ==
    /\ result = "lost" \/ result = c.answer
    /\ calls' = calls \ {c}
    /\ IF EndsSession(c.by, result)
       THEN Logout
       ELSE IF c.by # "page" /\ result = "ok"
       THEN SetUser(c.token)
       ELSE UNCHANGED session
    /\ IF c.by \in Forms
       THEN Goto(c.by, IF result = "ok" THEN "done" ELSE "failed")
       ELSE UNCHANGED stage
    /\ UNCHANGED <<server, react, uses>>

Expire(t) ==
    /\ t \in {token, rendered, header} \cup {c.token : c \in calls}
    /\ t \notin expired
    /\ expired' = expired \cup {t}
    /\ UNCHANGED <<email, owners, session, react, stage, calls, uses>>

----------------------------------------------------------------------------
Next ==
    \/ Render
    \/ RunEffect
    \/ ClickLogout
    \/ Request
    \/ Reload
    \/ \E f \in Forms :
           \/ Submit(f)
           \/ CheckEmail(f)
           \/ InsertUser(f)
           \/ LoggedIn(f)
           \/ WrongPassword(f)
           \/ FormLost(f)
    \/ \E c \in calls : Answer(c) \/ \E result \in Results : Deliver(c, result)
    \/ \E t \in Tokens : Expire(t)

\* React renders and runs effects, and a request is answered or rejected in the end.
Fairness ==
    /\ WF_vars(Render)
    /\ WF_vars(RunEffect)
    /\ \A s \in Senders :
           WF_vars(\E c \in calls, result \in Results : c.by = s /\ Deliver(c, result))

Spec == Init /\ [][Next]_vars /\ Fairness

----------------------------------------------------------------------------
(* Properties.                                                             *)

\* Every variable has its type.
TypeOK ==
    /\ email \in [Tokens -> Emails]
    /\ owners \in [Emails -> SUBSET Tokens]
    /\ expired \subseteq Tokens
    /\ {token, rendered, header} \subseteq Tokens \cup {None}
    /\ effectDue \in BOOLEAN
    /\ user \in Emails \cup {None}
    /\ isLoading \in BOOLEAN
    /\ stage \in [Forms -> Stages]
    /\ calls \subseteq Calls
    /\ uses \in 0..MaxUses

\* Once React has caught up, requests carry the token of the session, whatever
\* logouts, logins and effects for older tokens came before.
HeaderFollowsToken == rendered = token /\ ~effectDue /\ token # None => header = token

\* The loading page is shown only while the answer is still to come that ends it.
LoadingHasCause ==
    isLoading => effectDue \/ \E c \in calls : c.by = "effect"

\* The loading page is never the last thing that a user sees.
LoadingEnds == isLoading ~> ~isLoading

\* A tab that holds a token finds out whose it is, or gives the token up.
SessionSettles == (token # None /\ user = None) ~> (user # None \/ token = None)

----------------------------------------------------------------------------
(* A claim of the repository that the code does not keep.                  *)

\* The plan of the frontend: a 401 clears the token and leads to the login page.
\* Whoever has no token is not shown as logged in.
UserHasToken == user # None => token # None
=============================================================================
