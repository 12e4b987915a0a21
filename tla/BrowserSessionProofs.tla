------------------------ MODULE BrowserSessionProofs ------------------------
(***************************************************************************)
(* Safety of one tab's session for any number of forms and requests.       *)
(***************************************************************************)
EXTENDS BrowserSession, TLAPS

USE DEF server, session, react

\* The loading page has an effect to come that will send a request, or the request.
LoadingIsPursued ==
    isLoading => (effectDue /\ rendered # None) \/ \E c \in calls : c.by = "effect"

\* The server confirms no request without a token, so a confirmed one has an owner.
ConfirmedHaveToken == \A c \in calls : c.answer = "ok" => c.token # None

SessionInv == TypeOK /\ ConfirmedHaveToken /\ HeaderFollowsToken /\ LoadingIsPursued

----------------------------------------------------------------------------
\* Every step keeps the types, and the server what it confirms.
LEMMA TypeStep ==
    ASSUME TypeOK, ConfirmedHaveToken, [Next]_vars
    PROVE  (TypeOK /\ ConfirmedHaveToken)'
<1> USE SessionAssumption DEF TypeOK, ConfirmedHaveToken, Goto, Stages, Tokens, Calls, Senders, Answers
<1>1. CASE Render
  BY <1>1 DEF Render
<1>2. CASE RunEffect
  <2>1. CASE rendered = None
    BY <1>2, <2>1 DEF RunEffect
  <2>2. CASE rendered # None
    <3> DEFINE call == [by |-> "effect", token |-> rendered, answer |-> "none"]
    <3>1. call \in Calls /\ call.answer # "ok"
      BY <2>2
    <3>2. calls' = calls \cup {call}
      BY <1>2, <2>2 DEF RunEffect, Send
    <3> HIDE DEF call
    <3>3. calls' \subseteq Calls /\ ConfirmedHaveToken'
      BY <3>1, <3>2
    <3> QED
      BY <1>2, <2>2, <3>3 DEF RunEffect
  <2> QED
    BY <2>1, <2>2
<1>3. CASE ClickLogout
  BY <1>3 DEF ClickLogout, Logout
<1>4. CASE Request
  BY <1>4 DEF Request, Send
<1>5. CASE Reload
  BY <1>5 DEF Reload
<1>6. ASSUME NEW f \in Forms, Submit(f)
     PROVE  (TypeOK /\ ConfirmedHaveToken)'
  BY <1>6 DEF Submit
<1>7. ASSUME NEW f \in Forms, CheckEmail(f)
     PROVE  (TypeOK /\ ConfirmedHaveToken)'
  BY <1>7 DEF CheckEmail
<1>8. ASSUME NEW f \in Forms, InsertUser(f)
     PROVE  (TypeOK /\ ConfirmedHaveToken)'
  BY <1>8 DEF InsertUser
<1>9. ASSUME NEW f \in Forms, LoggedIn(f)
     PROVE  (TypeOK /\ ConfirmedHaveToken)'
  BY <1>9 DEF LoggedIn, SaveToken, Send
<1>10. ASSUME NEW f \in Forms, WrongPassword(f)
     PROVE  (TypeOK /\ ConfirmedHaveToken)'
  BY <1>10 DEF WrongPassword, Logout
<1>11. ASSUME NEW f \in Forms, FormLost(f)
     PROVE  (TypeOK /\ ConfirmedHaveToken)'
  BY <1>11 DEF FormLost
<1>12. ASSUME NEW c \in calls, Answer(c)
     PROVE  (TypeOK /\ ConfirmedHaveToken)'
  <2> DEFINE answer == IF c.token \in {None} \cup expired THEN "unauthorized" ELSE "ok"
             answered == [c EXCEPT !.answer = answer]
  <2>1. answered \in Calls /\ (answered.answer = "ok" => answered.token # None)
    BY <1>12
  <2>2. calls' = (calls \ {c}) \cup {answered}
    BY <1>12 DEF Answer
  <2> HIDE DEF answered
  <2>3. calls' \subseteq Calls /\ ConfirmedHaveToken'
    BY <2>1, <2>2
  <2> QED
    BY <1>12, <2>3 DEF Answer
<1>13. ASSUME NEW c \in calls, NEW result \in Results, Deliver(c, result)
     PROVE  (TypeOK /\ ConfirmedHaveToken)'
  <2>1. user' \in Emails \cup {None}
    <3>1. result = "ok" /\ (result = "lost" \/ result = c.answer) => email[c.token] \in Emails
      BY <1>13
    <3>2. user' = None \/ user' = user \/ (user' = email[c.token] /\ result = "ok")
      BY <1>13 DEF Deliver, Logout, SetUser
    <3> QED
      BY <1>13, <3>1, <3>2 DEF Deliver
  <2>2. {token', header'} \subseteq Tokens \cup {None} /\ isLoading' \in BOOLEAN
    BY <1>13 DEF Deliver, Logout, SetUser
  <2>3. stage' \in [Forms -> Stages]
    BY <1>13 DEF Deliver
  <2> QED
    BY <1>13, <2>1, <2>2, <2>3 DEF Deliver
<1>14. ASSUME NEW t \in Tokens, Expire(t)
     PROVE  (TypeOK /\ ConfirmedHaveToken)'
  BY <1>14 DEF Expire
<1>15. CASE UNCHANGED vars
  BY <1>15 DEF vars
<1> QED
  BY <1>1, <1>2, <1>3, <1>4, <1>5, <1>6, <1>7, <1>8, <1>9, <1>10, <1>11,
     <1>12, <1>13, <1>14, <1>15 DEF Next

\* Logins, logouts and effects for older tokens leave header and token in step.
LEMMA HeaderStep ==
    ASSUME HeaderFollowsToken, [Next]_vars
    PROVE  HeaderFollowsToken'
<1> USE DEF HeaderFollowsToken
<1>1. CASE Render
  BY <1>1 DEF Render
<1>2. CASE RunEffect
  BY <1>2 DEF RunEffect, Send
<1>3. CASE ClickLogout
  BY <1>3 DEF ClickLogout, Logout
<1>4. CASE Request
  BY <1>4 DEF Request, Send
<1>5. CASE Reload
  BY <1>5 DEF Reload
<1>6. ASSUME NEW f \in Forms, Submit(f)
     PROVE  HeaderFollowsToken'
  BY <1>6 DEF Submit
<1>7. ASSUME NEW f \in Forms, CheckEmail(f)
     PROVE  HeaderFollowsToken'
  BY <1>7 DEF CheckEmail
<1>8. ASSUME NEW f \in Forms, InsertUser(f)
     PROVE  HeaderFollowsToken'
  BY <1>8 DEF InsertUser
<1>9. ASSUME NEW f \in Forms, LoggedIn(f)
     PROVE  HeaderFollowsToken'
  BY <1>9 DEF LoggedIn, SaveToken, Send
<1>10. ASSUME NEW f \in Forms, WrongPassword(f)
     PROVE  HeaderFollowsToken'
  BY <1>10 DEF WrongPassword, Logout
<1>11. ASSUME NEW f \in Forms, FormLost(f)
     PROVE  HeaderFollowsToken'
  BY <1>11 DEF FormLost
<1>12. ASSUME NEW c \in calls, Answer(c)
     PROVE  HeaderFollowsToken'
  BY <1>12 DEF Answer
<1>13. ASSUME NEW c \in calls, NEW result \in Results, Deliver(c, result)
     PROVE  HeaderFollowsToken'
  BY <1>13 DEF Deliver, EndsSession, Logout, SetUser
<1>14. ASSUME NEW t \in Tokens, Expire(t)
     PROVE  HeaderFollowsToken'
  BY <1>14 DEF Expire
<1>15. CASE UNCHANGED vars
  BY <1>15 DEF vars
<1> QED
  BY <1>1, <1>2, <1>3, <1>4, <1>5, <1>6, <1>7, <1>8, <1>9, <1>10, <1>11,
     <1>12, <1>13, <1>14, <1>15 DEF Next

\* Who is shown the loading page stays pursued: the effect that is due sends its
\* request, and whatever comes back for it ends the loading.
LEMMA PursuedStep ==
    ASSUME TypeOK, LoadingIsPursued, [Next]_vars
    PROVE  LoadingIsPursued'
<1> USE DEF LoadingIsPursued
<1>1. CASE Render
  BY <1>1 DEF Render
<1>2. CASE RunEffect
  <2>1. CASE rendered = None
    BY <1>2, <2>1 DEF RunEffect
  <2>2. CASE rendered # None
    <3>1. [by |-> "effect", token |-> rendered, answer |-> "none"] \in calls'
      BY <1>2, <2>2 DEF RunEffect, Send
    <3> QED
      BY <3>1
  <2> QED
    BY <2>1, <2>2
<1>3. CASE ClickLogout
  BY <1>3 DEF ClickLogout, Logout
<1>4. CASE Request
  BY <1>4 DEF Request, Send
<1>5. CASE Reload
  BY <1>5 DEF Reload
<1>6. ASSUME NEW f \in Forms, Submit(f)
     PROVE  LoadingIsPursued'
  BY <1>6 DEF Submit
<1>7. ASSUME NEW f \in Forms, CheckEmail(f)
     PROVE  LoadingIsPursued'
  BY <1>7 DEF CheckEmail
<1>8. ASSUME NEW f \in Forms, InsertUser(f)
     PROVE  LoadingIsPursued'
  BY <1>8 DEF InsertUser
<1>9. ASSUME NEW f \in Forms, LoggedIn(f)
     PROVE  LoadingIsPursued'
  BY <1>9 DEF LoggedIn, SaveToken, Send
<1>10. ASSUME NEW f \in Forms, WrongPassword(f)
     PROVE  LoadingIsPursued'
  BY <1>10 DEF WrongPassword, Logout
<1>11. ASSUME NEW f \in Forms, FormLost(f)
     PROVE  LoadingIsPursued'
  BY <1>11 DEF FormLost
<1>12. ASSUME NEW c \in calls, Answer(c)
     PROVE  LoadingIsPursued'
  <2> DEFINE answer == IF c.token \in {None} \cup expired THEN "unauthorized" ELSE "ok"
             answered == [c EXCEPT !.answer = answer]
  <2>1. answered.by = c.by
    BY <1>12 DEF TypeOK, Calls
  <2>2. calls' = (calls \ {c}) \cup {answered}
    BY <1>12 DEF Answer
  <2> HIDE DEF answered
  <2> QED
    BY <1>12, <2>1, <2>2 DEF Answer
<1>13. ASSUME NEW c \in calls, NEW result \in Results, Deliver(c, result)
     PROVE  LoadingIsPursued'
  <2>1. CASE c.by = "effect"
    <3>1. isLoading' = FALSE
      BY <1>13, <2>1 DEF Deliver, EndsSession, Results, Logout, SetUser
    <3> QED
      BY <3>1
  <2>2. CASE c.by # "effect"
    <3>1. isLoading' => isLoading
      BY <1>13 DEF Deliver, Logout, SetUser
    <3> QED
      BY <1>13, <2>2, <3>1 DEF Deliver
  <2> QED
    BY <2>1, <2>2
<1>14. ASSUME NEW t \in Tokens, Expire(t)
     PROVE  LoadingIsPursued'
  BY <1>14 DEF Expire
<1>15. CASE UNCHANGED vars
  BY <1>15 DEF vars
<1> QED
  BY <1>1, <1>2, <1>3, <1>4, <1>5, <1>6, <1>7, <1>8, <1>9, <1>10, <1>11,
     <1>12, <1>13, <1>14, <1>15 DEF Next

\* The strengthened invariant is inductive.
THEOREM SessionInvariant == Spec => []SessionInv
<1>1. Init => TypeOK
  <2> SUFFICES ASSUME Init
               PROVE  TypeOK
    OBVIOUS
  <2>1. owners \in [Emails -> SUBSET Tokens]
    BY DEF Init, Tokens
  <2> QED
    BY <2>1, SessionAssumption DEF Init, TypeOK, Stages, Tokens
<1>2. Init => ConfirmedHaveToken /\ HeaderFollowsToken /\ LoadingIsPursued
  BY DEF Init, ConfirmedHaveToken, HeaderFollowsToken, LoadingIsPursued
<1>3. SessionInv /\ [Next]_vars => SessionInv'
  BY TypeStep, HeaderStep, PursuedStep DEF SessionInv
<1> QED
  BY <1>1, <1>2, <1>3, PTL DEF Spec, SessionInv

\* Every variable has its type in every state of the session; the email of a confirmed
\* request is one because the server confirms none without a token.
THEOREM TypeCorrect == Spec => []TypeOK
  BY SessionInvariant, PTL DEF SessionInv

\* After React has caught up, requests carry the token of the session.
THEOREM HeaderIsOfToken == Spec => []HeaderFollowsToken
  BY SessionInvariant, PTL DEF SessionInv

\* The loading page is shown only while something is to come that ends it.
THEOREM LoadingIsCaused == Spec => []LoadingHasCause
<1>1. SessionInv => LoadingHasCause
  BY DEF SessionInv, LoadingIsPursued, LoadingHasCause
<1> QED
  BY <1>1, SessionInvariant, PTL

=============================================================================
