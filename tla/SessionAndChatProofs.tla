-------------------------- MODULE SessionAndChatProofs --------------------------
(***************************************************************************)
(* Proofs about the web client's session and its chat page, for any number *)
(* of requests, of conversations and of messages.                          *)
(***************************************************************************)
EXTENDS WebSession, ChatPage, FiniteSetTheorems, TLAPS

-------------------------------------------------------------------------------
(* The session.                                                            *)

\* The stages a call may be at.
OwnStages(c) ==
    CASE c = "restore" -> {"idle", "refresh", "found", "expired", "dropped", "refused", "rotated", "me"}
      [] c = "callback" -> {"idle", "me"}
      [] c = "form" -> {"idle", "login", "issued", "denied"}
      [] c = "signOut" -> {"idle", "logout", "staleLogout", "cleared", "denied"}
      [] OTHER -> {"idle", "api", "stale", "refresh", "found", "expired", "dropped", "refused", "rotated",
                   "retry"}

CallTypes == call \in [Calls -> Stages] /\ \A c \in Calls : call[c] \in OwnStages(c)

TokenTypes ==
    /\ issued \in Nat /\ aged \in 0..issued /\ stored \subseteq 1..issued
    /\ sent \in [Calls -> 0..issued] /\ cookie \in 0..issued

ViewTypes ==
    /\ accessToken \in {"none", "live", "expired"}
    /\ user \in BOOLEAN /\ restoring \in BOOLEAN
    /\ route \in Routes
    /\ events \in 0..MaxEvents /\ lossy \in BOOLEAN
    /\ met \subseteq Requests \cup {"signOut"}
    /\ exit \in {"none", "clean", "refused", "raced"}

SessionTypes == CallTypes /\ TokenTypes /\ ViewTypes

\* The call was given a token that the browser does not have yet.
Held(c) == call[c] \in {"rotated", "issued"}

\* Where the user is while a call is under way, and which overlap is recorded.
PlaceOfCalls ==
    /\ call["callback"] # "idle" => route = "callback"
    /\ call["signOut"] # "idle" => user /\ route = "home"
    /\ "signOut" \in met => call["signOut"] # "idle"
    /\ call["signOut"] # "idle" /\ Refreshing # {} => "signOut" \in met

\* A call refused as expired presented a token that is.
ExpiredIsAged == \A c \in Calls : call[c] = "expired" => sent[c] \in 1..aged

\* Nothing was lost, and no sign-out overlaps or overlapped a refresh.
Calm == ~lossy /\ exit # "raced" /\ "signOut" \notin met

\* A token under way to the browser is one the server knows and no other call has.
TokensUnderWay ==
    \A c \in Calls : Held(c) =>
        /\ sent[c] \in stored /\ sent[c] # cookie
        /\ \A d \in Calls \ {c} : sent[d] # sent[c]

\* The browser's token is known, or past its lifetime, or another one is under way
\* to it or about to be issued.
CookieOrSuccessor ==
    (user \/ call["restore"] = "me") /\ call["signOut"] # "cleared" =>
        \/ cookie \in stored \cup 1..aged
        \/ \E c \in Calls : Held(c) \/ call[c] = "dropped"

\* The session has ended on either side.
NothingLeft ==
    /\ ~user /\ stored = {} /\ cookie = NoToken
    /\ call["form"] = "idle" /\ call["signOut"] = "idle"
    /\ \A c \in Refreshing : call[c] \in {"refresh", "refused"} /\ sent[c] = NoToken

SessionInv ==
    /\ SessionTypes
    /\ PlaceOfCalls
    /\ ExpiredIsAged
    /\ Calm => /\ TokensUnderWay /\ CookieOrSuccessor
               /\ call["signOut"] = "cleared" => stored = {}
    /\ ~lossy /\ exit = "clean" => NothingLeft

LEMMA SessionTypesMean == SessionTypes => SessionTypeOK
BY DEF SessionTypes, CallTypes, TokenTypes, ViewTypes, SessionTypeOK

\* A call takes the stages of its own kind.
LEMMA CallTyping ==
  ASSUME SessionAssumption, SessionTypes, [SessionNext]_sessionVars
  PROVE  CallTypes'
<1>1. ASSUME NEW c \in Refreshers, LookUp(c)  PROVE CallTypes'
  BY <1>1 DEF LookUp, view, tokens, history, To, Forget, SessionTypes, CallTypes, OwnStages, Stages, SessionAssumption, Calls, Refreshers
<1>2. ASSUME NEW c \in Refreshers, Drop(c)  PROVE CallTypes'
  BY <1>2 DEF Drop, view, history, To, Forget, Dropped, SessionTypes, CallTypes, OwnStages, Stages, SessionAssumption, Calls, Refreshers
<1>24. ASSUME NEW c \in Refreshers, Issue(c)  PROVE CallTypes'
  BY <1>24 DEF Issue, view, To, SessionTypes, CallTypes, OwnStages, Stages, SessionAssumption, Calls, Refreshers
<1>3. CASE ServerSignsIn
  BY <1>3 DEF ServerSignsIn, view, history, To, SessionTypes, CallTypes, OwnStages, Stages, SessionAssumption, Calls, Refreshers
<1>4. CASE ServerLogsOut
  BY <1>4 DEF ServerLogsOut, view, history, To, SessionTypes, CallTypes, OwnStages, Stages, SessionAssumption, Calls, Refreshers
<1>5. CASE RestoreRefused
  BY <1>5 DEF RestoreRefused, tokens, history, Done, To, Forget, SessionTypes, CallTypes, OwnStages, Stages, SessionAssumption, Calls, Refreshers
<1>6. CASE RestoreRefreshed
  BY <1>6 DEF RestoreRefreshed, history, To, Forget, SessionTypes, CallTypes, OwnStages, Stages, SessionAssumption, Calls, Refreshers
<1>7. CASE RestoreGetsUser
  BY <1>7 DEF RestoreGetsUser, tokens, history, Done, To, Forget, SessionTypes, CallTypes, OwnStages, Stages, SessionAssumption, Calls, Refreshers
<1>8. CASE CallbackGetsUser
  BY <1>8 DEF CallbackGetsUser, tokens, history, Done, To, Forget, SessionTypes, CallTypes, OwnStages, Stages, SessionAssumption, Calls, Refreshers
<1>9. CASE Submit
  BY <1>9 DEF Submit, view, tokens, Event, To, SessionTypes, CallTypes, OwnStages, Stages, SessionAssumption, Calls, Refreshers
<1>10. CASE FormAnswered
  BY <1>10 DEF FormAnswered, LoggedIn, history, Done, To, Forget, SessionTypes, CallTypes, OwnStages, Stages, SessionAssumption, Calls, Refreshers
<1>11. ASSUME NEW r \in Requests, Request(r)  PROVE CallTypes'
  BY <1>11 DEF Request, view, tokens, history, To, SessionTypes, CallTypes, OwnStages, Stages, SessionAssumption, Calls, Refreshers
<1>12. ASSUME NEW r \in Requests, Unauthorised(r)  PROVE CallTypes'
  BY <1>12 DEF Unauthorised, view, tokens, history, To, SessionTypes, CallTypes, OwnStages, Stages, SessionAssumption, Calls, Refreshers
<1>13. ASSUME NEW r \in Requests, Refreshed(r)  PROVE CallTypes'
  BY <1>13 DEF Refreshed, history, To, Forget, SessionTypes, CallTypes, OwnStages, Stages, SessionAssumption, Calls, Refreshers
<1>14. ASSUME NEW r \in Requests, Returned(r)  PROVE CallTypes'
  BY <1>14 DEF Returned, view, tokens, history, Done, To, Forget, SessionTypes, CallTypes, OwnStages, Stages, SessionAssumption, Calls, Refreshers
<1>15. CASE SignOut
  BY <1>15 DEF SignOut, view, tokens, history, To, SessionTypes, CallTypes, OwnStages, Stages, SessionAssumption, Calls, Refreshers
<1>16. CASE SignedOut
  BY <1>16 DEF SignedOut, To, SessionTypes, CallTypes, OwnStages, Stages, SessionAssumption, Calls, Refreshers
<1>17. CASE ReturnToLogin
  BY <1>17 DEF ReturnToLogin, tokens, history, SessionTypes, CallTypes, OwnStages, Stages, SessionAssumption, Calls, Refreshers
<1>18. CASE Expire
  BY <1>18 DEF Expire, tokens, Event, SessionTypes, CallTypes, OwnStages, Stages, SessionAssumption, Calls, Refreshers
<1>19. CASE Reload
  BY <1>19 DEF Reload, tokens, Event, Load, SessionTypes, CallTypes, OwnStages, Stages, SessionAssumption, Calls, Refreshers
<1>20. CASE GoogleReturns
  BY <1>20 DEF GoogleReturns, Event, Load, SessionTypes, CallTypes, OwnStages, Stages, SessionAssumption, Calls, Refreshers
<1>21. CASE GoogleRefuses
  BY <1>21 DEF GoogleRefuses, tokens, Event, Load, SessionTypes, CallTypes, OwnStages, Stages, SessionAssumption, Calls, Refreshers
<1>22. ASSUME NEW c \in Calls, Lose(c)  PROVE CallTypes'
  BY <1>22 DEF Lose, tokens, Event, Done, To, Forget, SessionTypes, CallTypes, OwnStages, Stages, SessionAssumption, Calls, Refreshers
<1>23. CASE UNCHANGED sessionVars
  BY <1>23 DEF sessionVars, view, tokens, history, SessionTypes, CallTypes, OwnStages, Stages, SessionAssumption, Calls, Refreshers
<1>25. CASE Age
  BY <1>25 DEF Age, view, Event, SessionTypes, CallTypes, OwnStages, Stages, SessionAssumption, Calls, Refreshers
<1> QED
  BY <1>1, <1>2, <1>3, <1>4, <1>5, <1>6, <1>7, <1>8, <1>9, <1>10, <1>11, <1>12, <1>13, <1>14, <1>15, <1>16, <1>17, <1>18, <1>19, <1>20, <1>21, <1>22, <1>23, <1>24, <1>25 DEF SessionNext

\* A token is issued to a call.
LEMMA TokenIssued ==
  ASSUME TokenTypes, NEW c \in Calls, issued' = issued + 1, stored' \subseteq stored \cup {issued'},
         sent' = [sent EXCEPT ![c] = issued'], cookie' = cookie, aged' = aged
  PROVE  TokenTypes'
<1>1. issued' \in Nat /\ 0..issued \subseteq 0..issued' /\ 1..issued \subseteq 1..issued' /\ issued' \in 1..issued'
  BY DEF TokenTypes
<1>2. sent' \in [Calls -> 0..issued']
  BY <1>1 DEF TokenTypes
<1> QED  BY <1>1, <1>2 DEF TokenTypes

\* A page that is loaded.
LEMMA PageLoaded ==
  ASSUME SessionAssumption, ViewTypes, NEW r \in Routes, NEW back, Load(r, back),
         exit' \in {"none", "clean", "refused", "raced"}
  PROVE  ViewTypes'
<1>1. lossy' \in BOOLEAN
  BY Zenon DEF Load
<1>2. events' \in 0..MaxEvents
  BY DEF Load, Event, ViewTypes, SessionAssumption
<1>3. /\ accessToken' = (IF back THEN "live" ELSE "none") /\ user' = FALSE /\ restoring' = TRUE
      /\ route' = r /\ met' = {}
  BY Zenon DEF Load
<1> QED  BY <1>1, <1>2, <1>3 DEF ViewTypes

LEMMA TokenTyping ==
  ASSUME SessionAssumption, SessionTypes, [SessionNext]_sessionVars
  PROVE  TokenTypes'
<1>1. ASSUME NEW c \in Refreshers, LookUp(c)  PROVE TokenTypes'
  BY <1>1 DEF LookUp, view, tokens, history, To, Forget, SessionTypes, TokenTypes, SessionAssumption, NoToken, Calls, Refreshers
<1>2. ASSUME NEW c \in Refreshers, Drop(c)  PROVE TokenTypes'
  <2>1. sent' = [sent EXCEPT ![c] = 0] /\ UNCHANGED <<cookie, issued, aged>>
    BY <1>2 DEF Drop, Forget, NoToken
  <2>2. stored' \subseteq stored
    BY <1>2 DEF Drop, Dropped
  <2>3. 0 \in 0..issued
    BY DEF SessionTypes, TokenTypes
  <2>4. sent' \in [Calls -> 0..issued]
    BY <2>1, <2>3 DEF SessionTypes, TokenTypes
  <2> QED  BY <2>1, <2>2, <2>4 DEF SessionTypes, TokenTypes
<1>24. ASSUME NEW c \in Refreshers, Issue(c)  PROVE TokenTypes'
  <2>1. c \in Calls
    BY <1>24 DEF Calls
  <2>2. CASE UNCHANGED <<issued, stored, sent>>
    BY <1>24, <2>2 DEF Issue, SessionTypes, TokenTypes
  <2> QED  BY <1>24, <2>1, <2>2, TokenIssued DEF Issue, SessionTypes
<1>3. CASE ServerSignsIn
  <2>1. "form" \in Calls
    BY DEF Calls
  <2>2. CASE UNCHANGED <<stored, issued, sent>>
    BY <1>3, <2>2 DEF ServerSignsIn, SessionTypes, TokenTypes
  <2> QED  BY <1>3, <2>1, <2>2, TokenIssued DEF ServerSignsIn, SessionTypes
<1>4. CASE ServerLogsOut
  BY <1>4 DEF ServerLogsOut, view, history, To, SessionTypes, TokenTypes, SessionAssumption, NoToken, Calls, Refreshers
<1>5. CASE RestoreRefused
  BY <1>5 DEF RestoreRefused, tokens, history, Done, To, Forget, SessionTypes, TokenTypes, SessionAssumption, NoToken, Calls, Refreshers
<1>6. CASE RestoreRefreshed
  BY <1>6 DEF RestoreRefreshed, history, To, Forget, SessionTypes, TokenTypes, SessionAssumption, NoToken, Calls, Refreshers
<1>7. CASE RestoreGetsUser
  BY <1>7 DEF RestoreGetsUser, tokens, history, Done, To, Forget, SessionTypes, TokenTypes, SessionAssumption, NoToken, Calls, Refreshers
<1>8. CASE CallbackGetsUser
  BY <1>8 DEF CallbackGetsUser, tokens, history, Done, To, Forget, SessionTypes, TokenTypes, SessionAssumption, NoToken, Calls, Refreshers
<1>9. CASE Submit
  BY <1>9 DEF Submit, view, tokens, Event, To, SessionTypes, TokenTypes, SessionAssumption, NoToken, Calls, Refreshers
<1>10. CASE FormAnswered
  <2>1. "form" \in Calls /\ 0 \in 0..issued
    BY DEF Calls, SessionTypes, TokenTypes
  <2>2. sent' \in [Calls -> 0..issued] /\ sent["form"] \in 0..issued
    BY <1>10, <2>1 DEF FormAnswered, LoggedIn, Done, Forget, NoToken, SessionTypes, TokenTypes
  <2> QED  BY <1>10, <2>2 DEF FormAnswered, LoggedIn, SessionTypes, TokenTypes
<1>11. ASSUME NEW r \in Requests, Request(r)  PROVE TokenTypes'
  BY <1>11 DEF Request, view, tokens, history, To, SessionTypes, TokenTypes, SessionAssumption, NoToken, Calls, Refreshers
<1>12. ASSUME NEW r \in Requests, Unauthorised(r)  PROVE TokenTypes'
  BY <1>12 DEF Unauthorised, view, tokens, history, To, SessionTypes, TokenTypes, SessionAssumption, NoToken, Calls, Refreshers
<1>13. ASSUME NEW r \in Requests, Refreshed(r)  PROVE TokenTypes'
  BY <1>13 DEF Refreshed, history, To, Forget, SessionTypes, TokenTypes, SessionAssumption, NoToken, Calls, Refreshers
<1>14. ASSUME NEW r \in Requests, Returned(r)  PROVE TokenTypes'
  BY <1>14 DEF Returned, view, tokens, history, Done, To, Forget, SessionTypes, TokenTypes, SessionAssumption, NoToken, Calls, Refreshers
<1>15. CASE SignOut
  BY <1>15 DEF SignOut, view, tokens, history, To, SessionTypes, TokenTypes, SessionAssumption, NoToken, Calls, Refreshers
<1>16. CASE SignedOut
  BY <1>16 DEF SignedOut, To, SessionTypes, TokenTypes, SessionAssumption, NoToken, Calls, Refreshers
<1>17. CASE ReturnToLogin
  BY <1>17 DEF ReturnToLogin, tokens, history, SessionTypes, TokenTypes, SessionAssumption, NoToken, Calls, Refreshers
<1>18. CASE Expire
  BY <1>18 DEF Expire, tokens, Event, SessionTypes, TokenTypes, SessionAssumption, NoToken, Calls, Refreshers
<1>19. CASE Reload
  BY <1>19 DEF Reload, tokens, Event, Load, SessionTypes, TokenTypes, SessionAssumption, NoToken, Calls, Refreshers
<1>20. CASE GoogleReturns
  BY <1>20 DEF GoogleReturns, Event, Load, SessionTypes, TokenTypes, SessionAssumption, NoToken, Calls, Refreshers
<1>21. CASE GoogleRefuses
  BY <1>21 DEF GoogleRefuses, tokens, Event, Load, SessionTypes, TokenTypes, SessionAssumption, NoToken, Calls, Refreshers
<1>22. ASSUME NEW c \in Calls, Lose(c)  PROVE TokenTypes'
  BY <1>22 DEF Lose, tokens, Event, Done, To, Forget, SessionTypes, TokenTypes, SessionAssumption, NoToken, Calls, Refreshers
<1>23. CASE UNCHANGED sessionVars
  BY <1>23 DEF sessionVars, view, tokens, history, SessionTypes, TokenTypes, SessionAssumption, NoToken, Calls, Refreshers
<1>25. CASE Age
  BY <1>25 DEF Age, view, Event, SessionTypes, TokenTypes
<1> QED
  BY <1>1, <1>2, <1>3, <1>4, <1>5, <1>6, <1>7, <1>8, <1>9, <1>10, <1>11, <1>12, <1>13, <1>14, <1>15, <1>16, <1>17, <1>18, <1>19, <1>20, <1>21, <1>22, <1>23, <1>24, <1>25 DEF SessionNext

LEMMA ViewTyping ==
  ASSUME SessionAssumption, SessionTypes, [SessionNext]_sessionVars
  PROVE  ViewTypes'
<1>1. ASSUME NEW c \in Refreshers, LookUp(c)  PROVE ViewTypes'
  BY <1>1 DEF LookUp, view, tokens, history, To, Forget, SessionTypes, ViewTypes, SessionAssumption, Routes, Land, Upset, Calls, Refreshers
<1>2. ASSUME NEW c \in Refreshers, Drop(c)  PROVE ViewTypes'
  BY <1>2 DEF Drop, view, history, To, Forget, Dropped, SessionTypes, ViewTypes, SessionAssumption, Routes, Land, Upset, Calls, Refreshers
<1>24. ASSUME NEW c \in Refreshers, Issue(c)  PROVE ViewTypes'
  BY <1>24 DEF Issue, view, To, SessionTypes, ViewTypes, SessionAssumption, Routes, Land, Upset, Calls, Refreshers
<1>3. CASE ServerSignsIn
  BY <1>3 DEF ServerSignsIn, view, history, To, SessionTypes, ViewTypes, SessionAssumption, Routes, Land, Upset, Calls, Refreshers
<1>4. CASE ServerLogsOut
  BY <1>4 DEF ServerLogsOut, view, history, To, SessionTypes, ViewTypes, SessionAssumption, Routes, Land, Upset, Calls, Refreshers
<1>5. CASE RestoreRefused
  BY <1>5 DEF RestoreRefused, tokens, history, Done, To, Forget, SessionTypes, ViewTypes, SessionAssumption, Routes, Land, Upset, Calls, Refreshers
<1>6. CASE RestoreRefreshed
  BY <1>6 DEF RestoreRefreshed, history, To, Forget, SessionTypes, ViewTypes, SessionAssumption, Routes, Land, Upset, Calls, Refreshers
<1>7. CASE RestoreGetsUser
  BY <1>7 DEF RestoreGetsUser, tokens, history, Done, To, Forget, SessionTypes, ViewTypes, SessionAssumption, Routes, Land, Upset, Calls, Refreshers
<1>8. CASE CallbackGetsUser
  BY <1>8 DEF CallbackGetsUser, tokens, history, Done, To, Forget, SessionTypes, ViewTypes, SessionAssumption, Routes, Land, Upset, Calls, Refreshers
<1>9. CASE Submit
  BY <1>9 DEF Submit, view, tokens, Event, To, SessionTypes, ViewTypes, SessionAssumption, Routes, Land, Upset, Calls, Refreshers
<1>10. CASE FormAnswered
  BY <1>10 DEF FormAnswered, LoggedIn, history, Done, To, Forget, SessionTypes, ViewTypes, SessionAssumption, Routes, Land, Upset, Calls, Refreshers
<1>11. ASSUME NEW r \in Requests, Request(r)  PROVE ViewTypes'
  BY <1>11 DEF Request, view, tokens, history, To, SessionTypes, ViewTypes, SessionAssumption, Routes, Land, Upset, Calls, Refreshers
<1>12. ASSUME NEW r \in Requests, Unauthorised(r)  PROVE ViewTypes'
  BY <1>12 DEF Unauthorised, view, tokens, history, To, SessionTypes, ViewTypes, SessionAssumption, Routes, Land, Upset, Calls, Refreshers
<1>13. ASSUME NEW r \in Requests, Refreshed(r)  PROVE ViewTypes'
  BY <1>13 DEF Refreshed, history, To, Forget, SessionTypes, ViewTypes, SessionAssumption, Routes, Land, Upset, Calls, Refreshers
<1>14. ASSUME NEW r \in Requests, Returned(r)  PROVE ViewTypes'
  BY <1>14 DEF Returned, view, tokens, history, Done, To, Forget, SessionTypes, ViewTypes, SessionAssumption, Routes, Land, Upset, Calls, Refreshers
<1>15. CASE SignOut
  BY <1>15 DEF SignOut, view, tokens, history, To, SessionTypes, ViewTypes, SessionAssumption, Routes, Land, Upset, Calls, Refreshers
<1>16. CASE SignedOut
  BY <1>16 DEF SignedOut, To, SessionTypes, ViewTypes, SessionAssumption, Routes, Land, Upset, Calls, Refreshers
<1>17. CASE ReturnToLogin
  BY <1>17 DEF ReturnToLogin, tokens, history, SessionTypes, ViewTypes, SessionAssumption, Routes, Land, Upset, Calls, Refreshers
<1>18. CASE Expire
  BY <1>18 DEF Expire, tokens, Event, SessionTypes, ViewTypes, SessionAssumption, Routes, Land, Upset, Calls, Refreshers
<1>19. CASE Reload
  BY <1>19, PageLoaded DEF Reload, tokens, SessionTypes, ViewTypes, Routes
<1>20. CASE GoogleReturns
  BY <1>20, PageLoaded DEF GoogleReturns, tokens, SessionTypes, ViewTypes, Routes
<1>21. CASE GoogleRefuses
  BY <1>21, PageLoaded DEF GoogleRefuses, tokens, SessionTypes, ViewTypes, Routes
<1>22. ASSUME NEW c \in Calls, Lose(c)  PROVE ViewTypes'
  BY <1>22 DEF Lose, tokens, Event, Done, To, Forget, SessionTypes, ViewTypes, SessionAssumption, Routes, Land, Upset, Calls, Refreshers
<1>23. CASE UNCHANGED sessionVars
  BY <1>23 DEF sessionVars, view, tokens, history, SessionTypes, ViewTypes, SessionAssumption, Routes, Land, Upset, Calls, Refreshers
<1>25. CASE Age
  BY <1>25 DEF Age, view, Event, SessionTypes, ViewTypes, SessionAssumption, Routes, Land, Upset, Calls, Refreshers
<1> QED
  BY <1>1, <1>2, <1>3, <1>4, <1>5, <1>6, <1>7, <1>8, <1>9, <1>10, <1>11, <1>12, <1>13, <1>14, <1>15, <1>16, <1>17, <1>18, <1>19, <1>20, <1>21, <1>22, <1>23, <1>24, <1>25 DEF SessionNext

\* A call that is about to be refused as expired presented such a token.
LEMMA ExpiredStays ==
  ASSUME SessionAssumption, SessionTypes, ExpiredIsAged, [SessionNext]_sessionVars
  PROVE  ExpiredIsAged'
<1>1. ASSUME NEW c \in Refreshers, LookUp(c)  PROVE ExpiredIsAged'
  BY <1>1 DEF LookUp, view, tokens, history, To, Forget, SessionTypes, CallTypes, TokenTypes, OwnStages, ExpiredIsAged, SessionAssumption, NoToken, Calls, Refreshers
<1>2. ASSUME NEW c \in Refreshers, Drop(c)  PROVE ExpiredIsAged'
  BY <1>2 DEF Drop, view, history, To, Forget, SessionTypes, CallTypes, TokenTypes, OwnStages, ExpiredIsAged, SessionAssumption, NoToken, Calls, Refreshers
<1>3. CASE ServerSignsIn
  BY <1>3 DEF ServerSignsIn, view, history, To, SessionTypes, CallTypes, TokenTypes, OwnStages, ExpiredIsAged, SessionAssumption, NoToken, Calls, Refreshers
<1>4. CASE ServerLogsOut
  BY <1>4 DEF ServerLogsOut, view, history, To, SessionTypes, CallTypes, TokenTypes, OwnStages, ExpiredIsAged, SessionAssumption, NoToken, Calls, Refreshers
<1>5. CASE RestoreRefused
  BY <1>5 DEF RestoreRefused, tokens, history, Done, To, Forget, SessionTypes, CallTypes, TokenTypes, OwnStages, ExpiredIsAged, SessionAssumption, NoToken, Calls, Refreshers
<1>6. CASE RestoreRefreshed
  BY <1>6 DEF RestoreRefreshed, history, To, Forget, SessionTypes, CallTypes, TokenTypes, OwnStages, ExpiredIsAged, SessionAssumption, NoToken, Calls, Refreshers
<1>7. CASE RestoreGetsUser
  BY <1>7 DEF RestoreGetsUser, tokens, history, Done, To, Forget, SessionTypes, CallTypes, TokenTypes, OwnStages, ExpiredIsAged, SessionAssumption, NoToken, Calls, Refreshers
<1>8. CASE CallbackGetsUser
  BY <1>8 DEF CallbackGetsUser, tokens, history, Done, To, Forget, SessionTypes, CallTypes, TokenTypes, OwnStages, ExpiredIsAged, SessionAssumption, NoToken, Calls, Refreshers
<1>9. CASE Submit
  BY <1>9 DEF Submit, view, tokens, Event, To, SessionTypes, CallTypes, TokenTypes, OwnStages, ExpiredIsAged, SessionAssumption, NoToken, Calls, Refreshers
<1>10. CASE FormAnswered
  BY <1>10 DEF FormAnswered, LoggedIn, history, Done, To, Forget, SessionTypes, CallTypes, TokenTypes, OwnStages, ExpiredIsAged, SessionAssumption, NoToken, Calls, Refreshers
<1>11. ASSUME NEW r \in Requests, Request(r)  PROVE ExpiredIsAged'
  BY <1>11 DEF Request, view, tokens, history, To, SessionTypes, CallTypes, TokenTypes, OwnStages, ExpiredIsAged, SessionAssumption, NoToken, Calls, Refreshers
<1>12. ASSUME NEW r \in Requests, Unauthorised(r)  PROVE ExpiredIsAged'
  BY <1>12 DEF Unauthorised, view, tokens, history, To, SessionTypes, CallTypes, TokenTypes, OwnStages, ExpiredIsAged, SessionAssumption, NoToken, Calls, Refreshers
<1>13. ASSUME NEW r \in Requests, Refreshed(r)  PROVE ExpiredIsAged'
  BY <1>13 DEF Refreshed, history, To, Forget, SessionTypes, CallTypes, TokenTypes, OwnStages, ExpiredIsAged, SessionAssumption, NoToken, Calls, Refreshers
<1>14. ASSUME NEW r \in Requests, Returned(r)  PROVE ExpiredIsAged'
  BY <1>14 DEF Returned, view, tokens, history, Done, To, Forget, SessionTypes, CallTypes, TokenTypes, OwnStages, ExpiredIsAged, SessionAssumption, NoToken, Calls, Refreshers
<1>15. CASE SignOut
  BY <1>15 DEF SignOut, view, tokens, history, To, SessionTypes, CallTypes, TokenTypes, OwnStages, ExpiredIsAged, SessionAssumption, NoToken, Calls, Refreshers
<1>16. CASE SignedOut
  BY <1>16 DEF SignedOut, To, SessionTypes, CallTypes, TokenTypes, OwnStages, ExpiredIsAged, SessionAssumption, NoToken, Calls, Refreshers
<1>17. CASE ReturnToLogin
  BY <1>17 DEF ReturnToLogin, tokens, history, SessionTypes, CallTypes, TokenTypes, OwnStages, ExpiredIsAged, SessionAssumption, NoToken, Calls, Refreshers
<1>18. CASE Expire
  BY <1>18 DEF Expire, tokens, Event, SessionTypes, CallTypes, TokenTypes, OwnStages, ExpiredIsAged, SessionAssumption, NoToken, Calls, Refreshers
<1>19. CASE Reload
  BY <1>19 DEF Reload, tokens, Event, Load, SessionTypes, CallTypes, TokenTypes, OwnStages, ExpiredIsAged, SessionAssumption, NoToken, Calls, Refreshers
<1>20. CASE GoogleReturns
  BY <1>20 DEF GoogleReturns, Event, Load, SessionTypes, CallTypes, TokenTypes, OwnStages, ExpiredIsAged, SessionAssumption, NoToken, Calls, Refreshers
<1>21. CASE GoogleRefuses
  BY <1>21 DEF GoogleRefuses, tokens, Event, Load, SessionTypes, CallTypes, TokenTypes, OwnStages, ExpiredIsAged, SessionAssumption, NoToken, Calls, Refreshers
<1>22. ASSUME NEW c \in Calls, Lose(c)  PROVE ExpiredIsAged'
  BY <1>22 DEF Lose, tokens, Event, Done, To, Forget, SessionTypes, CallTypes, TokenTypes, OwnStages, ExpiredIsAged, SessionAssumption, NoToken, Calls, Refreshers
<1>23. CASE UNCHANGED sessionVars
  BY <1>23 DEF sessionVars, view, tokens, history, SessionTypes, CallTypes, TokenTypes, OwnStages, ExpiredIsAged, SessionAssumption, NoToken, Calls, Refreshers
<1>24. ASSUME NEW c \in Refreshers, Issue(c)  PROVE ExpiredIsAged'
  BY <1>24 DEF Issue, view, To, SessionTypes, CallTypes, TokenTypes, OwnStages, ExpiredIsAged, SessionAssumption, NoToken, Calls, Refreshers
<1>25. CASE Age
  BY <1>25 DEF Age, view, Event, SessionTypes, CallTypes, TokenTypes, OwnStages, ExpiredIsAged, SessionAssumption, NoToken, Calls, Refreshers
<1> QED
  BY <1>1, <1>2, <1>3, <1>4, <1>5, <1>6, <1>7, <1>8, <1>9, <1>10, <1>11, <1>12, <1>13, <1>14, <1>15, <1>16, <1>17, <1>18, <1>19, <1>20, <1>21, <1>22, <1>23, <1>24, <1>25 DEF SessionNext

\* A sign-out runs on the home page, with the overlaps recorded.
LEMMA SessionPlaces ==
  ASSUME SessionAssumption, SessionTypes, PlaceOfCalls, [SessionNext]_sessionVars
  PROVE  PlaceOfCalls'
<1>1. ASSUME NEW c \in Refreshers, LookUp(c)  PROVE PlaceOfCalls'
  BY <1>1 DEF LookUp, view, tokens, history, To, Forget, SessionTypes, CallTypes, ViewTypes, OwnStages, Refreshing, InFlight, Upset, Land, SessionAssumption, PlaceOfCalls, Calls, Refreshers
<1>2. ASSUME NEW c \in Refreshers, Drop(c)  PROVE PlaceOfCalls'
  BY <1>2 DEF Drop, view, history, To, Forget, Dropped, SessionTypes, CallTypes, ViewTypes, OwnStages, Refreshing, InFlight, Upset, Land, SessionAssumption, PlaceOfCalls, Calls, Refreshers
<1>24. ASSUME NEW c \in Refreshers, Issue(c)  PROVE PlaceOfCalls'
  BY <1>24 DEF Issue, view, To, SessionTypes, CallTypes, ViewTypes, OwnStages, Refreshing, InFlight, Upset, Land, SessionAssumption, PlaceOfCalls, Calls, Refreshers
<1>3. CASE ServerSignsIn
  BY <1>3 DEF ServerSignsIn, view, history, To, SessionTypes, CallTypes, ViewTypes, OwnStages, Refreshing, InFlight, Upset, Land, SessionAssumption, PlaceOfCalls, Calls, Refreshers
<1>4. CASE ServerLogsOut
  BY <1>4 DEF ServerLogsOut, view, history, To, SessionTypes, CallTypes, ViewTypes, OwnStages, Refreshing, InFlight, Upset, Land, SessionAssumption, PlaceOfCalls, Calls, Refreshers
<1>5. CASE RestoreRefused
  BY <1>5 DEF RestoreRefused, tokens, history, Done, To, Forget, SessionTypes, CallTypes, ViewTypes, OwnStages, Refreshing, InFlight, Upset, Land, SessionAssumption, PlaceOfCalls, Calls, Refreshers
<1>6. CASE RestoreRefreshed
  BY <1>6 DEF RestoreRefreshed, history, To, Forget, SessionTypes, CallTypes, ViewTypes, OwnStages, Refreshing, InFlight, Upset, Land, SessionAssumption, PlaceOfCalls, Calls, Refreshers
<1>7. CASE RestoreGetsUser
  BY <1>7 DEF RestoreGetsUser, tokens, history, Done, To, Forget, SessionTypes, CallTypes, ViewTypes, OwnStages, Refreshing, InFlight, Upset, Land, SessionAssumption, PlaceOfCalls, Calls, Refreshers
<1>8. CASE CallbackGetsUser
  BY <1>8 DEF CallbackGetsUser, tokens, history, Done, To, Forget, SessionTypes, CallTypes, ViewTypes, OwnStages, Refreshing, InFlight, Upset, Land, SessionAssumption, PlaceOfCalls, Calls, Refreshers
<1>9. CASE Submit
  BY <1>9 DEF Submit, view, tokens, Event, To, SessionTypes, CallTypes, ViewTypes, OwnStages, Refreshing, InFlight, Upset, Land, SessionAssumption, PlaceOfCalls, Calls, Refreshers
<1>10. CASE FormAnswered
  BY <1>10 DEF FormAnswered, LoggedIn, history, Done, To, Forget, SessionTypes, CallTypes, ViewTypes, OwnStages, Refreshing, InFlight, Upset, Land, SessionAssumption, PlaceOfCalls, Calls, Refreshers
<1>11. ASSUME NEW r \in Requests, Request(r)  PROVE PlaceOfCalls'
  BY <1>11 DEF Request, view, tokens, history, To, SessionTypes, CallTypes, ViewTypes, OwnStages, Refreshing, InFlight, Upset, Land, SessionAssumption, PlaceOfCalls, Calls, Refreshers
<1>12. ASSUME NEW r \in Requests, Unauthorised(r)  PROVE PlaceOfCalls'
  BY <1>12 DEF Unauthorised, view, tokens, history, To, SessionTypes, CallTypes, ViewTypes, OwnStages, Refreshing, InFlight, Upset, Land, SessionAssumption, PlaceOfCalls, Calls, Refreshers
<1>13. ASSUME NEW r \in Requests, Refreshed(r)  PROVE PlaceOfCalls'
  BY <1>13 DEF Refreshed, history, To, Forget, SessionTypes, CallTypes, ViewTypes, OwnStages, Refreshing, InFlight, Upset, Land, SessionAssumption, PlaceOfCalls, Calls, Refreshers
<1>14. ASSUME NEW r \in Requests, Returned(r)  PROVE PlaceOfCalls'
  BY <1>14 DEF Returned, view, tokens, history, Done, To, Forget, SessionTypes, CallTypes, ViewTypes, OwnStages, Refreshing, InFlight, Upset, Land, SessionAssumption, PlaceOfCalls, Calls, Refreshers
<1>15. CASE SignOut
  BY <1>15 DEF SignOut, view, tokens, history, To, SessionTypes, CallTypes, ViewTypes, OwnStages, Refreshing, InFlight, Upset, Land, SessionAssumption, PlaceOfCalls, Calls, Refreshers
<1>16. CASE SignedOut
  BY <1>16 DEF SignedOut, To, SessionTypes, CallTypes, ViewTypes, OwnStages, Refreshing, InFlight, Upset, Land, SessionAssumption, PlaceOfCalls, Calls, Refreshers
<1>17. CASE ReturnToLogin
  BY <1>17 DEF ReturnToLogin, tokens, history, SessionTypes, CallTypes, ViewTypes, OwnStages, Refreshing, InFlight, Upset, Land, SessionAssumption, PlaceOfCalls, Calls, Refreshers
<1>18. CASE Expire
  BY <1>18 DEF Expire, tokens, Event, SessionTypes, CallTypes, ViewTypes, OwnStages, Refreshing, InFlight, Upset, Land, SessionAssumption, PlaceOfCalls, Calls, Refreshers
<1>19. CASE Reload
  BY <1>19 DEF Reload, tokens, Event, Load, SessionTypes, CallTypes, ViewTypes, OwnStages, Refreshing, InFlight, Upset, Land, SessionAssumption, PlaceOfCalls, Calls, Refreshers
<1>20. CASE GoogleReturns
  BY <1>20 DEF GoogleReturns, Event, Load, SessionTypes, CallTypes, ViewTypes, OwnStages, Refreshing, InFlight, Upset, Land, SessionAssumption, PlaceOfCalls, Calls, Refreshers
<1>21. CASE GoogleRefuses
  BY <1>21 DEF GoogleRefuses, tokens, Event, Load, SessionTypes, CallTypes, ViewTypes, OwnStages, Refreshing, InFlight, Upset, Land, SessionAssumption, PlaceOfCalls, Calls, Refreshers
<1>22. ASSUME NEW c \in Calls, Lose(c)  PROVE PlaceOfCalls'
  BY <1>22 DEF Lose, tokens, Event, Done, To, Forget, SessionTypes, CallTypes, ViewTypes, OwnStages, Refreshing, InFlight, Upset, Land, SessionAssumption, PlaceOfCalls, Calls, Refreshers
<1>23. CASE UNCHANGED sessionVars
  BY <1>23 DEF sessionVars, view, tokens, history, SessionTypes, CallTypes, ViewTypes, OwnStages, Refreshing, InFlight, Upset, Land, SessionAssumption, PlaceOfCalls, Calls, Refreshers
<1>25. CASE Age
  BY <1>25 DEF Age, view, Event, SessionTypes, CallTypes, ViewTypes, OwnStages, Refreshing, InFlight, Upset, Land, SessionAssumption, PlaceOfCalls, Calls, Refreshers
<1> QED
  BY <1>1, <1>2, <1>3, <1>4, <1>5, <1>6, <1>7, <1>8, <1>9, <1>10, <1>11, <1>12, <1>13, <1>14, <1>15, <1>16, <1>17, <1>18, <1>19, <1>20, <1>21, <1>22, <1>23, <1>24, <1>25 DEF SessionNext

\* A quiet history stays one only if it was one.
LEMMA CalmBefore ==
  ASSUME SessionAssumption, SessionTypes, PlaceOfCalls, Calm', [SessionNext]_sessionVars
  PROVE  Calm
<1>1. ASSUME NEW c \in Refreshers, LookUp(c)  PROVE Calm
  BY <1>1 DEF LookUp, view, tokens, history, To, Forget, SessionTypes, CallTypes, ViewTypes, PlaceOfCalls, OwnStages, Refreshing, InFlight, Upset, SessionAssumption, Calm, Calls, Refreshers
<1>2. ASSUME NEW c \in Refreshers, Drop(c)  PROVE Calm
  BY <1>2 DEF Drop, view, history, To, Forget, Dropped, SessionTypes, CallTypes, ViewTypes, PlaceOfCalls, OwnStages, Refreshing, InFlight, Upset, SessionAssumption, Calm, Calls, Refreshers
<1>24. ASSUME NEW c \in Refreshers, Issue(c)  PROVE Calm
  BY <1>24 DEF Issue, view, To, SessionTypes, CallTypes, ViewTypes, PlaceOfCalls, OwnStages, Refreshing, InFlight, Upset, SessionAssumption, Calm, Calls, Refreshers
<1>3. CASE ServerSignsIn
  BY <1>3 DEF ServerSignsIn, view, history, To, SessionTypes, CallTypes, ViewTypes, PlaceOfCalls, OwnStages, Refreshing, InFlight, Upset, SessionAssumption, Calm, Calls, Refreshers
<1>4. CASE ServerLogsOut
  BY <1>4 DEF ServerLogsOut, view, history, To, SessionTypes, CallTypes, ViewTypes, PlaceOfCalls, OwnStages, Refreshing, InFlight, Upset, SessionAssumption, Calm, Calls, Refreshers
<1>5. CASE RestoreRefused
  BY <1>5 DEF RestoreRefused, tokens, history, Done, To, Forget, SessionTypes, CallTypes, ViewTypes, PlaceOfCalls, OwnStages, Refreshing, InFlight, Upset, SessionAssumption, Calm, Calls, Refreshers
<1>6. CASE RestoreRefreshed
  BY <1>6 DEF RestoreRefreshed, history, To, Forget, SessionTypes, CallTypes, ViewTypes, PlaceOfCalls, OwnStages, Refreshing, InFlight, Upset, SessionAssumption, Calm, Calls, Refreshers
<1>7. CASE RestoreGetsUser
  BY <1>7 DEF RestoreGetsUser, tokens, history, Done, To, Forget, SessionTypes, CallTypes, ViewTypes, PlaceOfCalls, OwnStages, Refreshing, InFlight, Upset, SessionAssumption, Calm, Calls, Refreshers
<1>8. CASE CallbackGetsUser
  BY <1>8 DEF CallbackGetsUser, tokens, history, Done, To, Forget, SessionTypes, CallTypes, ViewTypes, PlaceOfCalls, OwnStages, Refreshing, InFlight, Upset, SessionAssumption, Calm, Calls, Refreshers
<1>9. CASE Submit
  BY <1>9 DEF Submit, view, tokens, Event, To, SessionTypes, CallTypes, ViewTypes, PlaceOfCalls, OwnStages, Refreshing, InFlight, Upset, SessionAssumption, Calm, Calls, Refreshers
<1>10. CASE FormAnswered
  BY <1>10 DEF FormAnswered, LoggedIn, history, Done, To, Forget, SessionTypes, CallTypes, ViewTypes, PlaceOfCalls, OwnStages, Refreshing, InFlight, Upset, SessionAssumption, Calm, Calls, Refreshers
<1>11. ASSUME NEW r \in Requests, Request(r)  PROVE Calm
  BY <1>11 DEF Request, view, tokens, history, To, SessionTypes, CallTypes, ViewTypes, PlaceOfCalls, OwnStages, Refreshing, InFlight, Upset, SessionAssumption, Calm, Calls, Refreshers
<1>12. ASSUME NEW r \in Requests, Unauthorised(r)  PROVE Calm
  BY <1>12 DEF Unauthorised, view, tokens, history, To, SessionTypes, CallTypes, ViewTypes, PlaceOfCalls, OwnStages, Refreshing, InFlight, Upset, SessionAssumption, Calm, Calls, Refreshers
<1>13. ASSUME NEW r \in Requests, Refreshed(r)  PROVE Calm
  BY <1>13 DEF Refreshed, history, To, Forget, SessionTypes, CallTypes, ViewTypes, PlaceOfCalls, OwnStages, Refreshing, InFlight, Upset, SessionAssumption, Calm, Calls, Refreshers
<1>14. ASSUME NEW r \in Requests, Returned(r)  PROVE Calm
  BY <1>14 DEF Returned, view, tokens, history, Done, To, Forget, SessionTypes, CallTypes, ViewTypes, PlaceOfCalls, OwnStages, Refreshing, InFlight, Upset, SessionAssumption, Calm, Calls, Refreshers
<1>15. CASE SignOut
  BY <1>15 DEF SignOut, view, tokens, history, To, SessionTypes, CallTypes, ViewTypes, PlaceOfCalls, OwnStages, Refreshing, InFlight, Upset, SessionAssumption, Calm, Calls, Refreshers
<1>16. CASE SignedOut
  BY <1>16 DEF SignedOut, To, SessionTypes, CallTypes, ViewTypes, PlaceOfCalls, OwnStages, Refreshing, InFlight, Upset, SessionAssumption, Calm, Calls, Refreshers
<1>17. CASE ReturnToLogin
  BY <1>17 DEF ReturnToLogin, tokens, history, SessionTypes, CallTypes, ViewTypes, PlaceOfCalls, OwnStages, Refreshing, InFlight, Upset, SessionAssumption, Calm, Calls, Refreshers
<1>18. CASE Expire
  BY <1>18 DEF Expire, tokens, Event, SessionTypes, CallTypes, ViewTypes, PlaceOfCalls, OwnStages, Refreshing, InFlight, Upset, SessionAssumption, Calm, Calls, Refreshers
<1>19. CASE Reload
  BY <1>19 DEF Reload, tokens, Event, Load, SessionTypes, CallTypes, ViewTypes, PlaceOfCalls, OwnStages, Refreshing, InFlight, Upset, SessionAssumption, Calm, Calls, Refreshers
<1>20. CASE GoogleReturns
  BY <1>20 DEF GoogleReturns, Event, Load, SessionTypes, CallTypes, ViewTypes, PlaceOfCalls, OwnStages, Refreshing, InFlight, Upset, SessionAssumption, Calm, Calls, Refreshers
<1>21. CASE GoogleRefuses
  BY <1>21 DEF GoogleRefuses, tokens, Event, Load, SessionTypes, CallTypes, ViewTypes, PlaceOfCalls, OwnStages, Refreshing, InFlight, Upset, SessionAssumption, Calm, Calls, Refreshers
<1>22. ASSUME NEW c \in Calls, Lose(c)  PROVE Calm
  BY <1>22 DEF Lose, tokens, Event, Done, To, Forget, SessionTypes, CallTypes, ViewTypes, PlaceOfCalls, OwnStages, Refreshing, InFlight, Upset, SessionAssumption, Calm, Calls, Refreshers
<1>23. CASE UNCHANGED sessionVars
  BY <1>23 DEF sessionVars, view, tokens, history, SessionTypes, CallTypes, ViewTypes, PlaceOfCalls, OwnStages, Refreshing, InFlight, Upset, SessionAssumption, Calm, Calls, Refreshers
<1>25. CASE Age
  BY <1>25 DEF Age, view, Event, SessionTypes, CallTypes, ViewTypes, PlaceOfCalls, OwnStages, Refreshing, InFlight, Upset, SessionAssumption, Calm, Calls, Refreshers
<1> QED
  BY <1>1, <1>2, <1>3, <1>4, <1>5, <1>6, <1>7, <1>8, <1>9, <1>10, <1>11, <1>12, <1>13, <1>14, <1>15, <1>16, <1>17, <1>18, <1>19, <1>20, <1>21, <1>22, <1>23, <1>24, <1>25 DEF SessionNext

\* A token under way stays known and another call's never.
LEMMA UnderWayStays ==
  ASSUME SessionAssumption, SessionTypes, PlaceOfCalls, TokensUnderWay, Calm, Calm', [SessionNext]_sessionVars
  PROVE  TokensUnderWay'
<1>1. ASSUME NEW c \in Refreshers, LookUp(c)  PROVE TokensUnderWay'
  BY <1>1 DEF LookUp, view, tokens, history, To, Forget, SessionTypes, CallTypes, TokenTypes, PlaceOfCalls, OwnStages, Refreshing, Calm, TokensUnderWay, Held, SessionAssumption, NoToken, Calls, Refreshers
<1>2. ASSUME NEW c \in Refreshers, Drop(c)  PROVE TokensUnderWay'
  BY <1>2 DEF Drop, view, history, To, Forget, Dropped, SessionTypes, CallTypes, TokenTypes, PlaceOfCalls, OwnStages, Refreshing, Calm, TokensUnderWay, Held, SessionAssumption, NoToken, Calls, Refreshers
<1>24. ASSUME NEW c \in Refreshers, Issue(c)  PROVE TokensUnderWay'
  BY <1>24 DEF Issue, view, To, SessionTypes, CallTypes, TokenTypes, PlaceOfCalls, OwnStages, Refreshing, Calm, TokensUnderWay, Held, SessionAssumption, NoToken, Calls, Refreshers
<1>3. CASE ServerSignsIn
  BY <1>3 DEF ServerSignsIn, view, history, To, SessionTypes, CallTypes, TokenTypes, PlaceOfCalls, OwnStages, Refreshing, Calm, TokensUnderWay, Held, SessionAssumption, NoToken, Calls, Refreshers
<1>4. CASE ServerLogsOut
  BY <1>4 DEF ServerLogsOut, view, history, To, SessionTypes, CallTypes, TokenTypes, PlaceOfCalls, OwnStages, Refreshing, Calm, TokensUnderWay, Held, SessionAssumption, NoToken, Calls, Refreshers
<1>5. CASE RestoreRefused
  BY <1>5 DEF RestoreRefused, tokens, history, Done, To, Forget, SessionTypes, CallTypes, TokenTypes, PlaceOfCalls, OwnStages, Refreshing, Calm, TokensUnderWay, Held, SessionAssumption, NoToken, Calls, Refreshers
<1>6. CASE RestoreRefreshed
  BY <1>6 DEF RestoreRefreshed, history, To, Forget, SessionTypes, CallTypes, TokenTypes, PlaceOfCalls, OwnStages, Refreshing, Calm, TokensUnderWay, Held, SessionAssumption, NoToken, Calls, Refreshers
<1>7. CASE RestoreGetsUser
  BY <1>7 DEF RestoreGetsUser, tokens, history, Done, To, Forget, SessionTypes, CallTypes, TokenTypes, PlaceOfCalls, OwnStages, Refreshing, Calm, TokensUnderWay, Held, SessionAssumption, NoToken, Calls, Refreshers
<1>8. CASE CallbackGetsUser
  BY <1>8 DEF CallbackGetsUser, tokens, history, Done, To, Forget, SessionTypes, CallTypes, TokenTypes, PlaceOfCalls, OwnStages, Refreshing, Calm, TokensUnderWay, Held, SessionAssumption, NoToken, Calls, Refreshers
<1>9. CASE Submit
  BY <1>9 DEF Submit, view, tokens, Event, To, SessionTypes, CallTypes, TokenTypes, PlaceOfCalls, OwnStages, Refreshing, Calm, TokensUnderWay, Held, SessionAssumption, NoToken, Calls, Refreshers
<1>10. CASE FormAnswered
  <2>1. CASE call["form"] = "issued"
    <3>1. sent["form"] # 0 /\ cookie' = sent["form"] /\ UNCHANGED stored
      BY <1>10, <2>1 DEF FormAnswered, LoggedIn, TokensUnderWay, Held, SessionTypes, TokenTypes, Calls, Refreshers
    <3>2. \A d \in Calls \ {"form"} : sent[d] # sent["form"]
      BY <2>1 DEF TokensUnderWay, Held, Calls, Refreshers
    <3>3. /\ call' = [call EXCEPT !["form"] = "idle"] /\ sent' = [sent EXCEPT !["form"] = 0]
      BY <1>10 DEF FormAnswered, LoggedIn, Done, To, Forget, NoToken
    <3>4. ASSUME NEW c \in Calls, Held(c)'
          PROVE  /\ c # "form" /\ Held(c) /\ sent'[c] = sent[c]
      BY <3>3, <3>4 DEF Held, SessionTypes, CallTypes, TokenTypes
    <3>5. ASSUME NEW c \in Calls, Held(c)  PROVE sent[c] # 0
      BY <3>5 DEF TokensUnderWay, SessionTypes, TokenTypes
    <3>6. \A d \in Calls : sent'[d] = IF d = "form" THEN 0 ELSE sent[d]
      BY <3>3 DEF SessionTypes, TokenTypes
    <3> QED  BY <3>1, <3>2, <3>4, <3>5, <3>6 DEF TokensUnderWay
  <2>2. CASE call["form"] = "denied"
    <3>1. UNCHANGED <<cookie, stored>> /\ call' = [call EXCEPT !["form"] = "idle"] /\ sent' = [sent EXCEPT !["form"] = 0]
      BY <1>10, <2>2 DEF FormAnswered, LoggedIn, Done, To, Forget, NoToken
    <3>4. ASSUME NEW c \in Calls, Held(c)'
          PROVE  /\ c # "form" /\ Held(c) /\ sent'[c] = sent[c]
      BY <3>1, <3>4 DEF Held, SessionTypes, CallTypes, TokenTypes
    <3>5. ASSUME NEW c \in Calls, Held(c)  PROVE sent[c] # 0
      BY <3>5 DEF TokensUnderWay, SessionTypes, TokenTypes
    <3>6. \A d \in Calls : sent'[d] = IF d = "form" THEN 0 ELSE sent[d]
      BY <3>1 DEF SessionTypes, TokenTypes
    <3> QED  BY <3>1, <3>4, <3>5, <3>6 DEF TokensUnderWay
  <2> QED  BY <1>10, <2>1, <2>2 DEF FormAnswered, LoggedIn
<1>11. ASSUME NEW r \in Requests, Request(r)  PROVE TokensUnderWay'
  BY <1>11 DEF Request, view, tokens, history, To, SessionTypes, CallTypes, TokenTypes, PlaceOfCalls, OwnStages, Refreshing, Calm, TokensUnderWay, Held, SessionAssumption, NoToken, Calls, Refreshers
<1>12. ASSUME NEW r \in Requests, Unauthorised(r)  PROVE TokensUnderWay'
  BY <1>12 DEF Unauthorised, view, tokens, history, To, SessionTypes, CallTypes, TokenTypes, PlaceOfCalls, OwnStages, Refreshing, Calm, TokensUnderWay, Held, SessionAssumption, NoToken, Calls, Refreshers
<1>13. ASSUME NEW r \in Requests, Refreshed(r)  PROVE TokensUnderWay'
  BY <1>13 DEF Refreshed, history, To, Forget, SessionTypes, CallTypes, TokenTypes, PlaceOfCalls, OwnStages, Refreshing, Calm, TokensUnderWay, Held, SessionAssumption, NoToken, Calls, Refreshers
<1>14. ASSUME NEW r \in Requests, Returned(r)  PROVE TokensUnderWay'
  BY <1>14 DEF Returned, view, tokens, history, Done, To, Forget, SessionTypes, CallTypes, TokenTypes, PlaceOfCalls, OwnStages, Refreshing, Calm, TokensUnderWay, Held, SessionAssumption, NoToken, Calls, Refreshers
<1>15. CASE SignOut
  BY <1>15 DEF SignOut, view, tokens, history, To, SessionTypes, CallTypes, TokenTypes, PlaceOfCalls, OwnStages, Refreshing, Calm, TokensUnderWay, Held, SessionAssumption, NoToken, Calls, Refreshers
<1>16. CASE SignedOut
  BY <1>16 DEF SignedOut, To, SessionTypes, CallTypes, TokenTypes, PlaceOfCalls, OwnStages, Refreshing, Calm, TokensUnderWay, Held, SessionAssumption, NoToken, Calls, Refreshers
<1>17. CASE ReturnToLogin
  BY <1>17 DEF ReturnToLogin, tokens, history, SessionTypes, CallTypes, TokenTypes, PlaceOfCalls, OwnStages, Refreshing, Calm, TokensUnderWay, Held, SessionAssumption, NoToken, Calls, Refreshers
<1>18. CASE Expire
  BY <1>18 DEF Expire, tokens, Event, SessionTypes, CallTypes, TokenTypes, PlaceOfCalls, OwnStages, Refreshing, Calm, TokensUnderWay, Held, SessionAssumption, NoToken, Calls, Refreshers
<1>19. CASE Reload
  BY <1>19 DEF Reload, tokens, Event, Load, SessionTypes, CallTypes, TokenTypes, PlaceOfCalls, OwnStages, Refreshing, Calm, TokensUnderWay, Held, SessionAssumption, NoToken, Calls, Refreshers
<1>20. CASE GoogleReturns
  BY <1>20 DEF GoogleReturns, Event, Load, SessionTypes, CallTypes, TokenTypes, PlaceOfCalls, OwnStages, Refreshing, Calm, TokensUnderWay, Held, SessionAssumption, NoToken, Calls, Refreshers
<1>21. CASE GoogleRefuses
  BY <1>21 DEF GoogleRefuses, tokens, Event, Load, SessionTypes, CallTypes, TokenTypes, PlaceOfCalls, OwnStages, Refreshing, Calm, TokensUnderWay, Held, SessionAssumption, NoToken, Calls, Refreshers
<1>22. ASSUME NEW c \in Calls, Lose(c)  PROVE TokensUnderWay'
  BY <1>22 DEF Lose, tokens, Event, Done, To, Forget, SessionTypes, CallTypes, TokenTypes, PlaceOfCalls, OwnStages, Refreshing, Calm, TokensUnderWay, Held, SessionAssumption, NoToken, Calls, Refreshers
<1>23. CASE UNCHANGED sessionVars
  BY <1>23 DEF sessionVars, view, tokens, history, SessionTypes, CallTypes, TokenTypes, PlaceOfCalls, OwnStages, Refreshing, Calm, TokensUnderWay, Held, SessionAssumption, NoToken, Calls, Refreshers
<1>25. CASE Age
  BY <1>25 DEF Age, view, Event, SessionTypes, CallTypes, TokenTypes, PlaceOfCalls, OwnStages, Refreshing, Calm, TokensUnderWay, Held, SessionAssumption, NoToken, Calls, Refreshers
<1> QED
  BY <1>1, <1>2, <1>3, <1>4, <1>5, <1>6, <1>7, <1>8, <1>9, <1>10, <1>11, <1>12, <1>13, <1>14, <1>15, <1>16, <1>17, <1>18, <1>19, <1>20, <1>21, <1>22, <1>23, <1>24, <1>25 DEF SessionNext

LEMMA SuccessorStays ==
  ASSUME SessionAssumption, SessionTypes, PlaceOfCalls, ExpiredIsAged, TokensUnderWay, CookieOrSuccessor, Calm, Calm',
         [SessionNext]_sessionVars
  PROVE  CookieOrSuccessor'
<1>1. ASSUME NEW c \in Refreshers, LookUp(c)  PROVE CookieOrSuccessor'
  BY <1>1 DEF LookUp, view, tokens, history, To, Forget, SessionTypes, CallTypes, TokenTypes, PlaceOfCalls, OwnStages, Refreshing, Calm, TokensUnderWay, CookieOrSuccessor, Held, SessionAssumption, NoToken, Calls, Refreshers
<1>2. ASSUME NEW c \in Refreshers, Drop(c)  PROVE CookieOrSuccessor'
  <2>1. c \in Calls /\ UNCHANGED <<user, cookie, aged>>
    BY <1>2 DEF Drop, view, Calls
  <2>2. c # "signOut" /\ ~Held(c) /\ call[c] \notin {"dropped", "me"}
    BY <1>2 DEF Drop, Held, Refreshers, SessionAssumption
  <2>3. PICK stage \in {"dropped", "refused"} : call' = [call EXCEPT ![c] = stage]
    BY <1>2 DEF Drop, To
  <2>4. \A d \in Calls \ {c} : call'[d] = call[d]
    BY <2>3 DEF SessionTypes, CallTypes
  <2>5. call'[c] = stage
    BY <2>1, <2>3 DEF SessionTypes, CallTypes
  <2>6. "restore" \in Calls /\ "signOut" \in Calls
    BY DEF Calls, Refreshers
  <2>7. \A d \in Calls : (Held(d) \/ call[d] = "dropped") => (Held(d) \/ call[d] = "dropped")'
    BY <2>2, <2>4 DEF Held
  <2>8. SUFFICES ASSUME cookie \in stored, cookie \notin stored', cookie \notin 1..aged
                 PROVE  stage = "dropped"
    BY <2>1, <2>2, <2>4, <2>5, <2>6, <2>7, <2>8 DEF CookieOrSuccessor
  <2>9. sent[c] = cookie /\ call'[c] = IF call[c] = "found" THEN "dropped" ELSE "refused"
    BY <1>2, <2>1, <2>8 DEF Drop, Dropped, To, SessionTypes, CallTypes
  <2>10. call[c] = "found"
    BY <1>2, <2>1, <2>8, <2>9 DEF Drop, ExpiredIsAged
  <2> QED  BY <2>5, <2>9, <2>10
<1>24. ASSUME NEW c \in Refreshers, Issue(c)  PROVE CookieOrSuccessor'
  BY <1>24 DEF Issue, view, To, SessionTypes, CallTypes, TokenTypes, PlaceOfCalls, OwnStages, Refreshing, Calm, TokensUnderWay, CookieOrSuccessor, Held, SessionAssumption, NoToken, Calls, Refreshers
<1>3. CASE ServerSignsIn
  BY <1>3 DEF ServerSignsIn, view, history, To, SessionTypes, CallTypes, TokenTypes, PlaceOfCalls, OwnStages, Refreshing, Calm, TokensUnderWay, CookieOrSuccessor, Held, SessionAssumption, NoToken, Calls, Refreshers
<1>4. CASE ServerLogsOut
  BY <1>4 DEF ServerLogsOut, view, history, To, SessionTypes, CallTypes, TokenTypes, PlaceOfCalls, OwnStages, Refreshing, Calm, TokensUnderWay, CookieOrSuccessor, Held, SessionAssumption, NoToken, Calls, Refreshers
<1>5. CASE RestoreRefused
  BY <1>5 DEF RestoreRefused, tokens, history, Done, To, Forget, SessionTypes, CallTypes, TokenTypes, PlaceOfCalls, OwnStages, Refreshing, Calm, TokensUnderWay, CookieOrSuccessor, Held, SessionAssumption, NoToken, Calls, Refreshers
<1>6. CASE RestoreRefreshed
  BY <1>6 DEF RestoreRefreshed, history, To, Forget, SessionTypes, CallTypes, TokenTypes, PlaceOfCalls, OwnStages, Refreshing, Calm, TokensUnderWay, CookieOrSuccessor, Held, SessionAssumption, NoToken, Calls, Refreshers
<1>7. CASE RestoreGetsUser
  BY <1>7 DEF RestoreGetsUser, tokens, history, Done, To, Forget, SessionTypes, CallTypes, TokenTypes, PlaceOfCalls, OwnStages, Refreshing, Calm, TokensUnderWay, CookieOrSuccessor, Held, SessionAssumption, NoToken, Calls, Refreshers
<1>8. CASE CallbackGetsUser
  BY <1>8 DEF CallbackGetsUser, tokens, history, Done, To, Forget, SessionTypes, CallTypes, TokenTypes, PlaceOfCalls, OwnStages, Refreshing, Calm, TokensUnderWay, CookieOrSuccessor, Held, SessionAssumption, NoToken, Calls, Refreshers
<1>9. CASE Submit
  BY <1>9 DEF Submit, view, tokens, Event, To, SessionTypes, CallTypes, TokenTypes, PlaceOfCalls, OwnStages, Refreshing, Calm, TokensUnderWay, CookieOrSuccessor, Held, SessionAssumption, NoToken, Calls, Refreshers
<1>10. CASE FormAnswered
  BY <1>10 DEF FormAnswered, LoggedIn, history, Done, To, Forget, SessionTypes, CallTypes, TokenTypes, PlaceOfCalls, OwnStages, Refreshing, Calm, TokensUnderWay, CookieOrSuccessor, Held, SessionAssumption, NoToken, Calls, Refreshers
<1>11. ASSUME NEW r \in Requests, Request(r)  PROVE CookieOrSuccessor'
  BY <1>11 DEF Request, view, tokens, history, To, SessionTypes, CallTypes, TokenTypes, PlaceOfCalls, OwnStages, Refreshing, Calm, TokensUnderWay, CookieOrSuccessor, Held, SessionAssumption, NoToken, Calls, Refreshers
<1>12. ASSUME NEW r \in Requests, Unauthorised(r)  PROVE CookieOrSuccessor'
  BY <1>12 DEF Unauthorised, view, tokens, history, To, SessionTypes, CallTypes, TokenTypes, PlaceOfCalls, OwnStages, Refreshing, Calm, TokensUnderWay, CookieOrSuccessor, Held, SessionAssumption, NoToken, Calls, Refreshers
<1>13. ASSUME NEW r \in Requests, Refreshed(r)  PROVE CookieOrSuccessor'
  BY <1>13 DEF Refreshed, history, To, Forget, SessionTypes, CallTypes, TokenTypes, PlaceOfCalls, OwnStages, Refreshing, Calm, TokensUnderWay, CookieOrSuccessor, Held, SessionAssumption, NoToken, Calls, Refreshers
<1>14. ASSUME NEW r \in Requests, Returned(r)  PROVE CookieOrSuccessor'
  BY <1>14 DEF Returned, view, tokens, history, Done, To, Forget, SessionTypes, CallTypes, TokenTypes, PlaceOfCalls, OwnStages, Refreshing, Calm, TokensUnderWay, CookieOrSuccessor, Held, SessionAssumption, NoToken, Calls, Refreshers
<1>15. CASE SignOut
  BY <1>15 DEF SignOut, view, tokens, history, To, SessionTypes, CallTypes, TokenTypes, PlaceOfCalls, OwnStages, Refreshing, Calm, TokensUnderWay, CookieOrSuccessor, Held, SessionAssumption, NoToken, Calls, Refreshers
<1>16. CASE SignedOut
  BY <1>16 DEF SignedOut, To, SessionTypes, CallTypes, TokenTypes, PlaceOfCalls, OwnStages, Refreshing, Calm, TokensUnderWay, CookieOrSuccessor, Held, SessionAssumption, NoToken, Calls, Refreshers
<1>17. CASE ReturnToLogin
  BY <1>17 DEF ReturnToLogin, tokens, history, SessionTypes, CallTypes, TokenTypes, PlaceOfCalls, OwnStages, Refreshing, Calm, TokensUnderWay, CookieOrSuccessor, Held, SessionAssumption, NoToken, Calls, Refreshers
<1>18. CASE Expire
  BY <1>18 DEF Expire, tokens, Event, SessionTypes, CallTypes, TokenTypes, PlaceOfCalls, OwnStages, Refreshing, Calm, TokensUnderWay, CookieOrSuccessor, Held, SessionAssumption, NoToken, Calls, Refreshers
<1>19. CASE Reload
  BY <1>19 DEF Reload, tokens, Event, Load, SessionTypes, CallTypes, TokenTypes, PlaceOfCalls, OwnStages, Refreshing, Calm, TokensUnderWay, CookieOrSuccessor, Held, SessionAssumption, NoToken, Calls, Refreshers
<1>20. CASE GoogleReturns
  BY <1>20 DEF GoogleReturns, Event, Load, SessionTypes, CallTypes, TokenTypes, PlaceOfCalls, OwnStages, Refreshing, Calm, TokensUnderWay, CookieOrSuccessor, Held, SessionAssumption, NoToken, Calls, Refreshers
<1>21. CASE GoogleRefuses
  BY <1>21 DEF GoogleRefuses, tokens, Event, Load, SessionTypes, CallTypes, TokenTypes, PlaceOfCalls, OwnStages, Refreshing, Calm, TokensUnderWay, CookieOrSuccessor, Held, SessionAssumption, NoToken, Calls, Refreshers
<1>22. ASSUME NEW c \in Calls, Lose(c)  PROVE CookieOrSuccessor'
  BY <1>22 DEF Lose, tokens, Event, Done, To, Forget, SessionTypes, CallTypes, TokenTypes, PlaceOfCalls, OwnStages, Refreshing, Calm, TokensUnderWay, CookieOrSuccessor, Held, SessionAssumption, NoToken, Calls, Refreshers
<1>23. CASE UNCHANGED sessionVars
  BY <1>23 DEF sessionVars, view, tokens, history, SessionTypes, CallTypes, TokenTypes, PlaceOfCalls, OwnStages, Refreshing, Calm, TokensUnderWay, CookieOrSuccessor, Held, SessionAssumption, NoToken, Calls, Refreshers
<1>25. CASE Age
  BY <1>25 DEF Age, view, Event, SessionTypes, CallTypes, TokenTypes, PlaceOfCalls, OwnStages, Refreshing, Calm, TokensUnderWay, CookieOrSuccessor, Held, SessionAssumption, NoToken, Calls, Refreshers
<1> QED
  BY <1>1, <1>2, <1>3, <1>4, <1>5, <1>6, <1>7, <1>8, <1>9, <1>10, <1>11, <1>12, <1>13, <1>14, <1>15, <1>16, <1>17, <1>18, <1>19, <1>20, <1>21, <1>22, <1>23, <1>24, <1>25 DEF SessionNext

LEMMA ClearedStays ==
  ASSUME SessionAssumption, SessionTypes, PlaceOfCalls, Calm, Calm', (call["signOut"] = "cleared" => stored = {}), [SessionNext]_sessionVars
  PROVE  (call["signOut"] = "cleared" => stored = {})'
<1>1. ASSUME NEW c \in Refreshers, LookUp(c)  PROVE (call["signOut"] = "cleared" => stored = {})'
  BY <1>1 DEF LookUp, view, tokens, history, To, Forget, SessionTypes, CallTypes, TokenTypes, PlaceOfCalls, OwnStages, Refreshing, Calm, SessionAssumption, NoToken, Calls, Refreshers
<1>2. ASSUME NEW c \in Refreshers, Drop(c)  PROVE (call["signOut"] = "cleared" => stored = {})'
  BY <1>2 DEF Drop, view, history, To, Forget, Dropped, SessionTypes, CallTypes, TokenTypes, PlaceOfCalls, OwnStages, Refreshing, Calm, SessionAssumption, NoToken, Calls, Refreshers
<1>24. ASSUME NEW c \in Refreshers, Issue(c)  PROVE (call["signOut"] = "cleared" => stored = {})'
  BY <1>24 DEF Issue, view, To, SessionTypes, CallTypes, TokenTypes, PlaceOfCalls, OwnStages, Refreshing, Calm, SessionAssumption, NoToken, Calls, Refreshers
<1>3. CASE ServerSignsIn
  BY <1>3 DEF ServerSignsIn, view, history, To, SessionTypes, CallTypes, TokenTypes, PlaceOfCalls, OwnStages, Refreshing, Calm, SessionAssumption, NoToken, Calls, Refreshers
<1>4. CASE ServerLogsOut
  BY <1>4 DEF ServerLogsOut, view, history, To, SessionTypes, CallTypes, TokenTypes, PlaceOfCalls, OwnStages, Refreshing, Calm, SessionAssumption, NoToken, Calls, Refreshers
<1>5. CASE RestoreRefused
  BY <1>5 DEF RestoreRefused, tokens, history, Done, To, Forget, SessionTypes, CallTypes, TokenTypes, PlaceOfCalls, OwnStages, Refreshing, Calm, SessionAssumption, NoToken, Calls, Refreshers
<1>6. CASE RestoreRefreshed
  BY <1>6 DEF RestoreRefreshed, history, To, Forget, SessionTypes, CallTypes, TokenTypes, PlaceOfCalls, OwnStages, Refreshing, Calm, SessionAssumption, NoToken, Calls, Refreshers
<1>7. CASE RestoreGetsUser
  BY <1>7 DEF RestoreGetsUser, tokens, history, Done, To, Forget, SessionTypes, CallTypes, TokenTypes, PlaceOfCalls, OwnStages, Refreshing, Calm, SessionAssumption, NoToken, Calls, Refreshers
<1>8. CASE CallbackGetsUser
  BY <1>8 DEF CallbackGetsUser, tokens, history, Done, To, Forget, SessionTypes, CallTypes, TokenTypes, PlaceOfCalls, OwnStages, Refreshing, Calm, SessionAssumption, NoToken, Calls, Refreshers
<1>9. CASE Submit
  BY <1>9 DEF Submit, view, tokens, Event, To, SessionTypes, CallTypes, TokenTypes, PlaceOfCalls, OwnStages, Refreshing, Calm, SessionAssumption, NoToken, Calls, Refreshers
<1>10. CASE FormAnswered
  BY <1>10 DEF FormAnswered, LoggedIn, history, Done, To, Forget, SessionTypes, CallTypes, TokenTypes, PlaceOfCalls, OwnStages, Refreshing, Calm, SessionAssumption, NoToken, Calls, Refreshers
<1>11. ASSUME NEW r \in Requests, Request(r)  PROVE (call["signOut"] = "cleared" => stored = {})'
  BY <1>11 DEF Request, view, tokens, history, To, SessionTypes, CallTypes, TokenTypes, PlaceOfCalls, OwnStages, Refreshing, Calm, SessionAssumption, NoToken, Calls, Refreshers
<1>12. ASSUME NEW r \in Requests, Unauthorised(r)  PROVE (call["signOut"] = "cleared" => stored = {})'
  BY <1>12 DEF Unauthorised, view, tokens, history, To, SessionTypes, CallTypes, TokenTypes, PlaceOfCalls, OwnStages, Refreshing, Calm, SessionAssumption, NoToken, Calls, Refreshers
<1>13. ASSUME NEW r \in Requests, Refreshed(r)  PROVE (call["signOut"] = "cleared" => stored = {})'
  BY <1>13 DEF Refreshed, history, To, Forget, SessionTypes, CallTypes, TokenTypes, PlaceOfCalls, OwnStages, Refreshing, Calm, SessionAssumption, NoToken, Calls, Refreshers
<1>14. ASSUME NEW r \in Requests, Returned(r)  PROVE (call["signOut"] = "cleared" => stored = {})'
  BY <1>14 DEF Returned, view, tokens, history, Done, To, Forget, SessionTypes, CallTypes, TokenTypes, PlaceOfCalls, OwnStages, Refreshing, Calm, SessionAssumption, NoToken, Calls, Refreshers
<1>15. CASE SignOut
  BY <1>15 DEF SignOut, view, tokens, history, To, SessionTypes, CallTypes, TokenTypes, PlaceOfCalls, OwnStages, Refreshing, Calm, SessionAssumption, NoToken, Calls, Refreshers
<1>16. CASE SignedOut
  BY <1>16 DEF SignedOut, To, SessionTypes, CallTypes, TokenTypes, PlaceOfCalls, OwnStages, Refreshing, Calm, SessionAssumption, NoToken, Calls, Refreshers
<1>17. CASE ReturnToLogin
  BY <1>17 DEF ReturnToLogin, tokens, history, SessionTypes, CallTypes, TokenTypes, PlaceOfCalls, OwnStages, Refreshing, Calm, SessionAssumption, NoToken, Calls, Refreshers
<1>18. CASE Expire
  BY <1>18 DEF Expire, tokens, Event, SessionTypes, CallTypes, TokenTypes, PlaceOfCalls, OwnStages, Refreshing, Calm, SessionAssumption, NoToken, Calls, Refreshers
<1>19. CASE Reload
  BY <1>19 DEF Reload, tokens, Event, Load, SessionTypes, CallTypes, TokenTypes, PlaceOfCalls, OwnStages, Refreshing, Calm, SessionAssumption, NoToken, Calls, Refreshers
<1>20. CASE GoogleReturns
  BY <1>20 DEF GoogleReturns, Event, Load, SessionTypes, CallTypes, TokenTypes, PlaceOfCalls, OwnStages, Refreshing, Calm, SessionAssumption, NoToken, Calls, Refreshers
<1>21. CASE GoogleRefuses
  BY <1>21 DEF GoogleRefuses, tokens, Event, Load, SessionTypes, CallTypes, TokenTypes, PlaceOfCalls, OwnStages, Refreshing, Calm, SessionAssumption, NoToken, Calls, Refreshers
<1>22. ASSUME NEW c \in Calls, Lose(c)  PROVE (call["signOut"] = "cleared" => stored = {})'
  BY <1>22 DEF Lose, tokens, Event, Done, To, Forget, SessionTypes, CallTypes, TokenTypes, PlaceOfCalls, OwnStages, Refreshing, Calm, SessionAssumption, NoToken, Calls, Refreshers
<1>23. CASE UNCHANGED sessionVars
  BY <1>23 DEF sessionVars, view, tokens, history, SessionTypes, CallTypes, TokenTypes, PlaceOfCalls, OwnStages, Refreshing, Calm, SessionAssumption, NoToken, Calls, Refreshers
<1>25. CASE Age
  BY <1>25 DEF Age, view, Event, SessionTypes, CallTypes, TokenTypes, PlaceOfCalls, OwnStages, Refreshing, Calm, SessionAssumption, NoToken, Calls, Refreshers
<1> QED
  BY <1>1, <1>2, <1>3, <1>4, <1>5, <1>6, <1>7, <1>8, <1>9, <1>10, <1>11, <1>12, <1>13, <1>14, <1>15, <1>16, <1>17, <1>18, <1>19, <1>20, <1>21, <1>22, <1>23, <1>24, <1>25 DEF SessionNext

LEMMA NothingStays ==
  ASSUME SessionAssumption, SessionTypes, PlaceOfCalls, (~lossy /\ exit = "clean" => NothingLeft), (Calm => (call["signOut"] = "cleared" => stored = {})), ~lossy', exit' = "clean", [SessionNext]_sessionVars
  PROVE  NothingLeft'
<1>1. ASSUME NEW c \in Refreshers, LookUp(c)  PROVE NothingLeft'
  BY <1>1 DEF LookUp, view, tokens, history, To, Forget, SessionTypes, CallTypes, TokenTypes, ViewTypes, PlaceOfCalls, OwnStages, Refreshing, InFlight, Calm, NothingLeft, SessionAssumption, NoToken, Calls, Refreshers
<1>2. ASSUME NEW c \in Refreshers, Drop(c)  PROVE NothingLeft'
  BY <1>2 DEF Drop, view, history, To, Forget, Dropped, SessionTypes, CallTypes, TokenTypes, ViewTypes, PlaceOfCalls, OwnStages, Refreshing, InFlight, Calm, NothingLeft, SessionAssumption, NoToken, Calls, Refreshers
<1>24. ASSUME NEW c \in Refreshers, Issue(c)  PROVE NothingLeft'
  BY <1>24 DEF Issue, view, To, SessionTypes, CallTypes, TokenTypes, ViewTypes, PlaceOfCalls, OwnStages, Refreshing, InFlight, Calm, NothingLeft, SessionAssumption, NoToken, Calls, Refreshers
<1>3. CASE ServerSignsIn
  BY <1>3 DEF ServerSignsIn, view, history, To, SessionTypes, CallTypes, TokenTypes, ViewTypes, PlaceOfCalls, OwnStages, Refreshing, InFlight, Calm, NothingLeft, SessionAssumption, NoToken, Calls, Refreshers
<1>4. CASE ServerLogsOut
  BY <1>4 DEF ServerLogsOut, view, history, To, SessionTypes, CallTypes, TokenTypes, ViewTypes, PlaceOfCalls, OwnStages, Refreshing, InFlight, Calm, NothingLeft, SessionAssumption, NoToken, Calls, Refreshers
<1>5. CASE RestoreRefused
  BY <1>5 DEF RestoreRefused, tokens, history, Done, To, Forget, SessionTypes, CallTypes, TokenTypes, ViewTypes, PlaceOfCalls, OwnStages, Refreshing, InFlight, Calm, NothingLeft, SessionAssumption, NoToken, Calls, Refreshers
<1>6. CASE RestoreRefreshed
  BY <1>6 DEF RestoreRefreshed, history, To, Forget, SessionTypes, CallTypes, TokenTypes, ViewTypes, PlaceOfCalls, OwnStages, Refreshing, InFlight, Calm, NothingLeft, SessionAssumption, NoToken, Calls, Refreshers
<1>7. CASE RestoreGetsUser
  BY <1>7 DEF RestoreGetsUser, tokens, history, Done, To, Forget, SessionTypes, CallTypes, TokenTypes, ViewTypes, PlaceOfCalls, OwnStages, Refreshing, InFlight, Calm, NothingLeft, SessionAssumption, NoToken, Calls, Refreshers
<1>8. CASE CallbackGetsUser
  BY <1>8 DEF CallbackGetsUser, tokens, history, Done, To, Forget, SessionTypes, CallTypes, TokenTypes, ViewTypes, PlaceOfCalls, OwnStages, Refreshing, InFlight, Calm, NothingLeft, SessionAssumption, NoToken, Calls, Refreshers
<1>9. CASE Submit
  BY <1>9 DEF Submit, view, tokens, Event, To, SessionTypes, CallTypes, TokenTypes, ViewTypes, PlaceOfCalls, OwnStages, Refreshing, InFlight, Calm, NothingLeft, SessionAssumption, NoToken, Calls, Refreshers
<1>10. CASE FormAnswered
  BY <1>10 DEF FormAnswered, LoggedIn, history, Done, To, Forget, SessionTypes, CallTypes, TokenTypes, ViewTypes, PlaceOfCalls, OwnStages, Refreshing, InFlight, Calm, NothingLeft, SessionAssumption, NoToken, Calls, Refreshers
<1>11. ASSUME NEW r \in Requests, Request(r)  PROVE NothingLeft'
  BY <1>11 DEF Request, view, tokens, history, To, SessionTypes, CallTypes, TokenTypes, ViewTypes, PlaceOfCalls, OwnStages, Refreshing, InFlight, Calm, NothingLeft, SessionAssumption, NoToken, Calls, Refreshers
<1>12. ASSUME NEW r \in Requests, Unauthorised(r)  PROVE NothingLeft'
  BY <1>12 DEF Unauthorised, view, tokens, history, To, SessionTypes, CallTypes, TokenTypes, ViewTypes, PlaceOfCalls, OwnStages, Refreshing, InFlight, Calm, NothingLeft, SessionAssumption, NoToken, Calls, Refreshers
<1>13. ASSUME NEW r \in Requests, Refreshed(r)  PROVE NothingLeft'
  BY <1>13 DEF Refreshed, history, To, Forget, SessionTypes, CallTypes, TokenTypes, ViewTypes, PlaceOfCalls, OwnStages, Refreshing, InFlight, Calm, NothingLeft, SessionAssumption, NoToken, Calls, Refreshers
<1>14. ASSUME NEW r \in Requests, Returned(r)  PROVE NothingLeft'
  BY <1>14 DEF Returned, view, tokens, history, Done, To, Forget, SessionTypes, CallTypes, TokenTypes, ViewTypes, PlaceOfCalls, OwnStages, Refreshing, InFlight, Calm, NothingLeft, SessionAssumption, NoToken, Calls, Refreshers
<1>15. CASE SignOut
  BY <1>15 DEF SignOut, view, tokens, history, To, SessionTypes, CallTypes, TokenTypes, ViewTypes, PlaceOfCalls, OwnStages, Refreshing, InFlight, Calm, NothingLeft, SessionAssumption, NoToken, Calls, Refreshers
<1>16. CASE SignedOut
  BY <1>16 DEF SignedOut, To, SessionTypes, CallTypes, TokenTypes, ViewTypes, PlaceOfCalls, OwnStages, Refreshing, InFlight, Calm, NothingLeft, SessionAssumption, NoToken, Calls, Refreshers
<1>17. CASE ReturnToLogin
  BY <1>17 DEF ReturnToLogin, tokens, history, SessionTypes, CallTypes, TokenTypes, ViewTypes, PlaceOfCalls, OwnStages, Refreshing, InFlight, Calm, NothingLeft, SessionAssumption, NoToken, Calls, Refreshers
<1>18. CASE Expire
  BY <1>18 DEF Expire, tokens, Event, SessionTypes, CallTypes, TokenTypes, ViewTypes, PlaceOfCalls, OwnStages, Refreshing, InFlight, Calm, NothingLeft, SessionAssumption, NoToken, Calls, Refreshers
<1>19. CASE Reload
  BY <1>19 DEF Reload, tokens, Event, Load, SessionTypes, CallTypes, TokenTypes, ViewTypes, PlaceOfCalls, OwnStages, Refreshing, InFlight, Calm, NothingLeft, SessionAssumption, NoToken, Calls, Refreshers
<1>20. CASE GoogleReturns
  BY <1>20 DEF GoogleReturns, Event, Load, SessionTypes, CallTypes, TokenTypes, ViewTypes, PlaceOfCalls, OwnStages, Refreshing, InFlight, Calm, NothingLeft, SessionAssumption, NoToken, Calls, Refreshers
<1>21. CASE GoogleRefuses
  BY <1>21 DEF GoogleRefuses, tokens, Event, Load, SessionTypes, CallTypes, TokenTypes, ViewTypes, PlaceOfCalls, OwnStages, Refreshing, InFlight, Calm, NothingLeft, SessionAssumption, NoToken, Calls, Refreshers
<1>22. ASSUME NEW c \in Calls, Lose(c)  PROVE NothingLeft'
  BY <1>22 DEF Lose, tokens, Event, Done, To, Forget, SessionTypes, CallTypes, TokenTypes, ViewTypes, PlaceOfCalls, OwnStages, Refreshing, InFlight, Calm, NothingLeft, SessionAssumption, NoToken, Calls, Refreshers
<1>23. CASE UNCHANGED sessionVars
  BY <1>23 DEF sessionVars, view, tokens, history, SessionTypes, CallTypes, TokenTypes, ViewTypes, PlaceOfCalls, OwnStages, Refreshing, InFlight, Calm, NothingLeft, SessionAssumption, NoToken, Calls, Refreshers
<1>25. CASE Age
  BY <1>25 DEF Age, view, Event, SessionTypes, CallTypes, TokenTypes, ViewTypes, PlaceOfCalls, OwnStages, Refreshing, InFlight, Calm, NothingLeft, SessionAssumption, NoToken, Calls, Refreshers
<1> QED
  BY <1>1, <1>2, <1>3, <1>4, <1>5, <1>6, <1>7, <1>8, <1>9, <1>10, <1>11, <1>12, <1>13, <1>14, <1>15, <1>16, <1>17, <1>18, <1>19, <1>20, <1>21, <1>22, <1>23, <1>24, <1>25 DEF SessionNext

LEMMA SessionBegins == SessionAssumption /\ SessionInit => SessionInv
<1> SUFFICES ASSUME SessionAssumption, SessionInit  PROVE SessionInv
  OBVIOUS
<1>1. CallTypes
  BY DEF SessionInit, CallTypes, OwnStages, Stages, SessionAssumption, Calls, Refreshers
<1>2. TokenTypes
  BY DEF SessionInit, TokenTypes, NoToken
<1>3. ViewTypes
  <2>1. events \in 0..MaxEvents /\ met \subseteq Requests \cup {"signOut"}
    BY DEF SessionInit, SessionAssumption
  <2>2. user \in BOOLEAN /\ restoring \in BOOLEAN /\ lossy \in BOOLEAN
    BY Zenon DEF SessionInit
  <2> QED  BY <2>1, <2>2 DEF SessionInit, ViewTypes, Routes
<1>4. PlaceOfCalls /\ ExpiredIsAged
  BY DEF SessionInit, PlaceOfCalls, ExpiredIsAged, Calls, Refreshers
<1>5. /\ \A c \in Calls : ~Held(c)
      /\ ~user /\ call["restore"] # "me" /\ call["signOut"] # "cleared" /\ exit # "clean"
  BY DEF SessionInit, Held, Calls, Refreshers
<1> QED
  BY <1>1, <1>2, <1>3, <1>4, <1>5 DEF SessionInv, SessionTypes, TokensUnderWay, CookieOrSuccessor

LEMMA SessionStep ==
  ASSUME SessionAssumption, SessionInv, [SessionNext]_sessionVars
  PROVE  SessionInv'
<1>1. SessionTypes /\ PlaceOfCalls /\ ExpiredIsAged
  BY DEF SessionInv
<1>2. SessionTypes' /\ PlaceOfCalls' /\ ExpiredIsAged'
  BY <1>1, CallTyping, TokenTyping, ViewTyping, SessionPlaces, ExpiredStays DEF SessionTypes
<1>3. ASSUME Calm'
      PROVE  TokensUnderWay' /\ CookieOrSuccessor' /\ (call["signOut"] = "cleared" => stored = {})'
  <2>1. Calm
    BY <1>1, <1>3, CalmBefore
  <2> QED  BY <1>1, <1>3, <2>1, UnderWayStays, SuccessorStays, ClearedStays DEF SessionInv
<1>4. ASSUME ~lossy', exit' = "clean"  PROVE NothingLeft'
  BY <1>1, <1>4, NothingStays DEF SessionInv
<1> QED  BY <1>2, <1>3, <1>4 DEF SessionInv

LEMMA SessionMeans == SessionInv => CookieIsLive /\ SignOutLeavesNothing
<1> SUFFICES ASSUME SessionInv  PROVE CookieIsLive /\ SignOutLeavesNothing
  OBVIOUS
<1>1. ASSUME user, InFlight = {}, ~lossy, exit # "raced"  PROVE cookie \in stored \cup 1..aged
  <2>1. \A c \in Calls : call[c] = "idle"
    BY <1>1 DEF InFlight
  <2>2. "signOut" \in Calls
    BY DEF Calls
  <2>3. Calm
    BY <1>1, <2>1, <2>2 DEF SessionInv, Calm, PlaceOfCalls
  <2> QED  BY <1>1, <2>1, <2>2, <2>3 DEF SessionInv, CookieOrSuccessor, Held
<1>2. SignOutLeavesNothing
  BY DEF SessionInv, SignOutLeavesNothing, NothingLeft
<1> QED  BY <1>1, <1>2 DEF CookieIsLive

LEMMA SessionKept == SessionSpec => []SessionInv
<1>1. SessionInit => SessionInv
  BY SessionAssumption, SessionBegins
<1>2. SessionInv /\ [SessionNext]_sessionVars => SessionInv'
  BY SessionAssumption, SessionStep
<1> QED  BY <1>1, <1>2, PTL DEF SessionSpec

\* While somebody is signed in and no call is under way, the cookie is a refresh
\* token the server knows, whatever refreshes of authFetch overlapped: the token
\* a call was given is its own until the browser has it.
THEOREM CookieStaysLive == SessionSpec => []CookieIsLive
BY SessionKept, SessionMeans, PTL

\* A sign-out that the server accepted and that no refresh overlapped leaves no
\* refresh token of the account, neither in the browser nor on the server.
THEOREM SignOutIsComplete == SessionSpec => []SignOutLeavesNothing
BY SessionKept, SessionMeans, PTL

\* The calls of a tab, its tokens and its routes: a call is only ever at a stage
\* of its own kind.
THEOREM SessionTyping == SessionSpec => []SessionTypeOK
<1>1. SessionInv => SessionTypeOK
  BY SessionTypesMean DEF SessionInv
<1> QED  BY <1>1, SessionKept, PTL

-------------------------------------------------------------------------------
(* The chat page.                                                          *)

LoadRecords == [chat : Chats \cup {NoChat}, stage : {"none", "asked", "read"}, rows : Seq(Messages)]

ServerTypes ==
    /\ run \in [Sends -> {"none", "received", "stored", "answered", "refused"}]
    /\ target \in [Sends -> Chats \cup {NoChat}]
    /\ sends \in 0..MaxSends /\ failures \in 0..MaxFailures

PageTypes ==
    /\ streaming \in BOOLEAN /\ loading \in BOOLEAN /\ drawn \in BOOLEAN /\ disturbed \in BOOLEAN
    /\ selected \in Chats \cup {NoChat} /\ sentTo \in Chats \cup {NoChat}
    /\ awaiting \in 0..MaxSends /\ toSelect \subseteq Chats
    /\ listings \in 0..MaxSends /\ relisted \in BOOLEAN

RowTypes ==
    /\ log \in [Chats -> Seq(Messages)] /\ shown \in Seq(Messages)
    /\ loads \in [Slots -> LoadRecords]

ChatTypes == ServerTypes /\ PageTypes /\ RowTypes

\* What the counters say of the sends ...
SendBooks ==
    /\ loading <=> awaiting # 0
    /\ awaiting <= sends
    /\ listings + (IF awaiting # 0 THEN 1 ELSE 0) <= sends
    /\ \A n \in Sends : /\ n > sends => run[n] = "none"
                        /\ run[n] \in {"stored", "answered"} => target[n] \in Chats

\* ... and of the loads.
LoadBooks ==
    /\ opened \in Nat
    /\ \A i \in Slots : /\ i > opened => loads[i] = NoLoad
                        /\ i \in Loading => loads[i].chat \in Chats

ChatBooks == SendBooks /\ LoadBooks

\* A conversation the page may still open by itself: one that is looked for in
\* the list, or one that the awaited answer names.
AnswerMayOpen == awaiting # 0 /\ ~drawn

ToOpen == Cardinality(toSelect) + (IF AnswerMayOpen THEN 1 ELSE 0)

SlotsSuffice == 
    /\ IsFiniteSet(toSelect)
    /\ ToOpen <= sends /\ opened + ToOpen <= MaxLoads + sends

\* The phases of a page that is not disturbed: nothing is under way but what a
\* page that was left had sent; ...
Idle ==
    /\ awaiting = 0 /\ toSelect = {} /\ Loading = {}
    /\ Running = {} \/ selected = NoChat
    /\ shown = IF selected = NoChat THEN <<>> ELSE log[selected]

\* ... the selected conversation is being loaded; ...
Opening ==
    /\ awaiting = 0 /\ toSelect = {} /\ Running = {}
    /\ selected \in Chats
    /\ \E i \in Slots : /\ Loading = {i} /\ loads[i].chat = selected
                        /\ loads[i].stage = "read" => loads[i].rows = log[selected]

\* ... an answer is awaited; ...
Sending ==
    /\ awaiting # 0 /\ toSelect = {} /\ Loading = {} /\ Running \subseteq {awaiting}
    /\ sentTo = selected /\ ~drawn
    /\ run[awaiting] # "none"
    /\ run[awaiting] = "received" =>
          /\ target[awaiting] = selected
          /\ selected # NoChat => shown = Append(log[selected], Human(awaiting))
    /\ run[awaiting] = "stored" /\ selected # NoChat =>
          target[awaiting] = selected /\ shown = log[selected]
    /\ run[awaiting] = "answered" /\ selected # NoChat =>
          target[awaiting] = selected /\ log[selected] = Append(shown, Answer(awaiting))

\* ... the list with the new conversation is.
Listing ==
    /\ selected = NoChat /\ Running = {} /\ Loading = {}
    /\ \E c \in Chats : toSelect = {c}
    /\ awaiting # 0 /\ drawn /\ target[awaiting] \in toSelect

Phases == Idle \/ Opening \/ Sending \/ Listing

ChatInv ==
    /\ ChatTypes
    /\ ChatBooks
    /\ SlotsSuffice
    /\ ~disturbed => Phases

\* The sends and where their handling is.
LEMMA ServerTyping ==
  ASSUME ChatAssumption, ServerTypes, PageTypes, SendBooks, [ChatNext]_chatVars
  PROVE  ServerTypes'
<1>1. ASSUME NEW n \in Sends, StoreQuestion(n)  PROVE ServerTypes'
  BY <1>1 DEF StoreQuestion, page, turn, list, fetches, ServerTypes, PageTypes, SendBooks, Sends, ChatAssumption
<1>2. ASSUME NEW n \in Sends, StoreAnswer(n)  PROVE ServerTypes'
  BY <1>2 DEF StoreAnswer, page, turn, list, fetches, ServerTypes, PageTypes, SendBooks, Sends, ChatAssumption
<1>3. ASSUME NEW i \in Slots, ReadMessages(i)  PROVE ServerTypes'
  BY <1>3 DEF ReadMessages, server, list, page, turn, ServerTypes, PageTypes, SendBooks, Sends, ChatAssumption
<1>4. ASSUME NEW i \in Slots, ShowMessages(i)  PROVE ServerTypes'
  BY <1>4 DEF ShowMessages, server, list, turn, ServerTypes, PageTypes, SendBooks, Sends, ChatAssumption
<1>5. ASSUME NEW i \in Slots, LoadFails(i)  PROVE ServerTypes'
  BY <1>5 DEF LoadFails, server, list, page, turn, ServerTypes, PageTypes, SendBooks, Sends, ChatAssumption
<1>6. ASSUME NEW c \in Chats, Select(c)  PROVE ServerTypes'
  BY <1>6 DEF Select, server, turn, Open, ServerTypes, PageTypes, SendBooks, Sends, ChatAssumption
<1>7. ASSUME NEW c \in Chats, SelectNew(c)  PROVE ServerTypes'
  BY <1>7 DEF SelectNew, server, turn, Open, Settle, ServerTypes, PageTypes, SendBooks, Sends, ChatAssumption
<1>8. ASSUME NEW c \in Chats, NewNotFound(c)  PROVE ServerTypes'
  BY <1>8 DEF NewNotFound, server, list, turn, fetches, Settle, ServerTypes, PageTypes, SendBooks, Sends, ChatAssumption
<1>9. ASSUME NEW withText \in BOOLEAN, Send(withText)  PROVE ServerTypes'
  BY <1>9 DEF Send, list, fetches, MaySubmit, ServerTypes, PageTypes, SendBooks, Sends, ChatAssumption
<1>10. CASE NewChat
  BY <1>10 DEF NewChat, server, turn, fetches, ServerTypes, PageTypes, SendBooks, Sends, ChatAssumption
<1>11. CASE Relist
  BY <1>11 DEF Relist, server, page, turn, list, fetches, ServerTypes, PageTypes, SendBooks, Sends, ChatAssumption
<1>13. CASE ShowAnswer
  BY <1>13 DEF ShowAnswer, server, fetches, Settle, ServerTypes, PageTypes, SendBooks, Sends, ChatAssumption
<1>14. CASE SendRefused
  BY <1>14 DEF SendRefused, server, list, fetches, Fail, Settle, ServerTypes, PageTypes, SendBooks, Sends, ChatAssumption
<1>15. CASE SendFails
  BY <1>15 DEF SendFails, server, list, fetches, Fail, Settle, ServerTypes, PageTypes, SendBooks, Sends, ChatAssumption
<1>16. CASE Leave
  BY <1>16 DEF Leave, server, Settle, ServerTypes, PageTypes, SendBooks, Sends, ChatAssumption
<1>17. CASE UNCHANGED chatVars
  BY <1>17 DEF chatVars, server, page, turn, list, fetches, ServerTypes, PageTypes, SendBooks, Sends, ChatAssumption
<1> QED
  BY <1>1, <1>2, <1>3, <1>4, <1>5, <1>6, <1>7, <1>8, <1>9, <1>10, <1>11, <1>13, <1>14, <1>15, <1>16, <1>17 DEF ChatNext

LEMMA SettledTyping ==
  ASSUME ChatAssumption, Settle
  PROVE  awaiting' \in 0..MaxSends /\ sentTo' \in Chats \cup {NoChat} /\ drawn' \in BOOLEAN
<1>1. drawn' \in BOOLEAN
  BY Zenon DEF Settle
<1> QED  BY <1>1 DEF Settle, ChatAssumption

LEMMA PageTyping ==
  ASSUME ChatAssumption, PageTypes, ServerTypes, SendBooks, [ChatNext]_chatVars
  PROVE  PageTypes'
<1>1. ASSUME NEW n \in Sends, StoreQuestion(n)  PROVE PageTypes'
  BY <1>1 DEF StoreQuestion, page, turn, list, fetches, PageTypes, ChatAssumption
<1>2. ASSUME NEW n \in Sends, StoreAnswer(n)  PROVE PageTypes'
  BY <1>2 DEF StoreAnswer, page, turn, list, fetches, PageTypes, ChatAssumption
<1>3. ASSUME NEW i \in Slots, ReadMessages(i)  PROVE PageTypes'
  BY <1>3 DEF ReadMessages, server, list, page, turn, PageTypes, ChatAssumption
<1>4. ASSUME NEW i \in Slots, ShowMessages(i)  PROVE PageTypes'
  BY <1>4 DEF ShowMessages, server, list, turn, PageTypes, ChatAssumption
<1>5. ASSUME NEW i \in Slots, LoadFails(i)  PROVE PageTypes'
  BY <1>5 DEF LoadFails, server, list, page, turn, PageTypes, ChatAssumption
<1>6. ASSUME NEW c \in Chats, Select(c)  PROVE PageTypes'
  <2>1. disturbed' \in BOOLEAN
    BY <1>6, Zenon DEF Select
  <2> QED  BY <1>6, <2>1 DEF Select, server, turn, Open, PageTypes, ChatAssumption
<1>7. ASSUME NEW c \in Chats, SelectNew(c)  PROVE PageTypes'
  <2>1. disturbed' \in BOOLEAN /\ loading' \in BOOLEAN
    BY <1>7, Zenon DEF SelectNew, PageTypes
  <2> QED  BY <1>7, <2>1, SettledTyping DEF SelectNew, Open, server, turn, PageTypes
<1>8. ASSUME NEW c \in Chats, NewNotFound(c)  PROVE PageTypes'
  BY <1>8, SettledTyping DEF NewNotFound, server, list, turn, fetches, PageTypes, ChatAssumption
<1>9. ASSUME NEW withText \in BOOLEAN, Send(withText)  PROVE PageTypes'
  <2>1. disturbed' \in BOOLEAN /\ loading' \in BOOLEAN /\ drawn' \in BOOLEAN
    BY <1>9, Zenon DEF Send
  <2>2. sends' \in 0..MaxSends
    BY <1>9 DEF Send, MaySubmit, ServerTypes, ChatAssumption
  <2> QED  BY <1>9, <2>1, <2>2 DEF Send, list, fetches, PageTypes
<1>10. CASE NewChat
  <2>1. disturbed' \in BOOLEAN
    BY <1>10, Zenon DEF NewChat
  <2> QED  BY <1>10, <2>1 DEF NewChat, server, turn, fetches, PageTypes, ChatAssumption
<1>11. CASE Relist
  <2>1. relisted' \in BOOLEAN
    BY <1>11, Zenon DEF Relist, PageTypes
  <2>2. listings' \in 0..MaxSends
    BY <1>11 DEF Relist, PageTypes, ChatAssumption
  <2> QED  BY <1>11, <2>1, <2>2 DEF Relist, page, turn, PageTypes
<1>13. CASE ShowAnswer
  <2>1. target[awaiting] \in Chats
    BY <1>13 DEF ShowAnswer, SendBooks, PageTypes, Sends
  <2>2. loading' \in BOOLEAN /\ drawn' \in BOOLEAN
    BY <1>13, SettledTyping, Zenon DEF ShowAnswer, PageTypes
  <2>3. disturbed' \in BOOLEAN
    BY <1>13, Zenon DEF ShowAnswer, PageTypes
  <2>4. listings' \in 0..MaxSends
    BY <1>13 DEF ShowAnswer, PageTypes, SendBooks, ServerTypes, ChatAssumption
  <2> QED  BY <1>13, <2>1, <2>2, <2>3, <2>4, SettledTyping DEF ShowAnswer, server, fetches, PageTypes, ChatAssumption
<1>14. CASE SendRefused
  BY <1>14, SettledTyping DEF SendRefused, server, list, fetches, Fail, PageTypes, ChatAssumption
<1>15. CASE SendFails
  BY <1>15, SettledTyping DEF SendFails, server, list, fetches, Fail, PageTypes, ChatAssumption
<1>16. CASE Leave
  <2>1. loading' \in BOOLEAN /\ disturbed' \in BOOLEAN /\ relisted' \in BOOLEAN
    BY <1>16, Zenon DEF Leave
  <2> QED  BY <1>16, <2>1, SettledTyping DEF Leave, PageTypes, ChatAssumption
<1>17. CASE UNCHANGED chatVars
  BY <1>17 DEF chatVars, server, page, turn, list, fetches, PageTypes, ChatAssumption
<1> QED
  BY <1>1, <1>2, <1>3, <1>4, <1>5, <1>6, <1>7, <1>8, <1>9, <1>10, <1>11, <1>13, <1>14, <1>15, <1>16, <1>17 DEF ChatNext

\* An awaited send is one of the sends.
LEMMA AwaitedSend ==
  ASSUME ServerTypes, PageTypes, SendBooks, awaiting # 0
  PROVE  awaiting \in Sends
BY DEF PageTypes, Sends

LEMMA MessageTyping ==
  ASSUME NEW n \in 0..MaxSends
  PROVE  Human(n) \in Messages /\ Answer(n) \in Messages /\ Blank(n) \in Messages /\ Failure(n) \in Messages
BY DEF Human, Answer, Blank, Failure, Messages

LEMMA Appended ==
  ASSUME NEW S, NEW s \in Seq(S), NEW e \in S
  PROVE  Append(s, e) \in Seq(S)
OBVIOUS

LEMMA LoadTyping ==
  /\ NoLoad \in LoadRecords
  /\ \A c \in Chats : [chat |-> c, stage |-> "asked", rows |-> <<>>] \in LoadRecords
  /\ \A l \in LoadRecords, rows \in Seq(Messages) :
        [l EXCEPT !.stage = "read", !.rows = rows] \in LoadRecords
<1>1. <<>> \in Seq(Messages)
  OBVIOUS
<1>2. ASSUME NEW l \in LoadRecords, NEW rows \in Seq(Messages)
      PROVE  [l EXCEPT !.stage = "read", !.rows = rows] \in LoadRecords
  <2>1. PICK R : R = Seq(Messages)
    OBVIOUS
  <2>2. l \in [chat : Chats \cup {NoChat}, stage : {"none", "asked", "read"}, rows : R] /\ rows \in R
    BY <1>2, <2>1 DEF LoadRecords
  <2>3. [l EXCEPT !.stage = "read", !.rows = rows]
          \in [chat : Chats \cup {NoChat}, stage : {"none", "asked", "read"}, rows : R]
    BY <2>2
  <2> QED  BY <2>1, <2>3 DEF LoadRecords
<1> QED  BY <1>1, <1>2 DEF NoLoad, LoadRecords

\* Only the server's steps store a message.
LEMMA LogTyping ==
  ASSUME ChatAssumption, ServerTypes, SendBooks, RowTypes, [ChatNext]_chatVars
  PROVE  log' \in [Chats -> Seq(Messages)]
<1>1. ASSUME NEW n \in Sends, StoreQuestion(n)  PROVE log' \in [Chats -> Seq(Messages)]
  <2>1. PICK c : log' = [log EXCEPT ![c] = Append(@, Human(n))]
    BY <1>1 DEF StoreQuestion
  <2>2. Human(n) \in Messages
    BY MessageTyping DEF Sends
  <2> QED  BY <2>1, <2>2, Appended DEF RowTypes
<1>2. ASSUME NEW n \in Sends, StoreAnswer(n)  PROVE log' \in [Chats -> Seq(Messages)]
  <2>1. log' = [log EXCEPT ![target[n]] = Append(@, Answer(n))]
    BY <1>2 DEF StoreAnswer
  <2>2. Answer(n) \in Messages
    BY MessageTyping DEF Sends
  <2> QED  BY <2>1, <2>2, Appended DEF RowTypes
<1>3. CASE ~\E n \in Sends : StoreQuestion(n) \/ StoreAnswer(n)
  <2>1. log' = log
    BY <1>3 DEF ChatNext, chatVars, server, ReadMessages, ShowMessages, LoadFails, Select, SelectNew,
      NewNotFound, Send, NewChat, Relist, ShowAnswer, SendRefused, SendFails, Fail, Leave
  <2> QED  BY <2>1 DEF RowTypes
<1> QED  BY <1>1, <1>2, <1>3

\* What the page shows are messages.
LEMMA ShownTyping ==
  ASSUME ChatAssumption, ServerTypes, PageTypes, SendBooks, RowTypes, [ChatNext]_chatVars
  PROVE  shown' \in Seq(Messages)
<1>1. shown \in Seq(Messages)
  BY DEF RowTypes
<1>2. ASSUME NEW i \in Slots, ShowMessages(i)  PROVE shown' \in Seq(Messages)
  BY <1>2 DEF ShowMessages, Loaded, RowTypes, LoadRecords
<1>3. ASSUME NEW withText \in BOOLEAN, Send(withText)  PROVE shown' \in Seq(Messages)
  <2>1. sends' \in 0..MaxSends /\ shown' = Append(shown, Human(sends'))
    BY <1>3 DEF Send, MaySubmit, ServerTypes, ChatAssumption
  <2> QED  BY <1>1, <2>1, MessageTyping, Appended
<1>4. CASE ShowAnswer
  <2>1. shown' = Append(shown, Answer(awaiting)) \/ shown' = Append(shown, Blank(awaiting))
    BY <1>4 DEF ShowAnswer, Reply
  <2> QED  BY <1>1, <2>1, MessageTyping, Appended DEF PageTypes
<1>5. CASE Fail
  <2>1. shown' = Append(shown, Failure(awaiting))
    BY <1>5 DEF Fail
  <2> QED  BY <1>1, <2>1, MessageTyping, Appended DEF PageTypes
<1>6. CASE NewChat \/ Leave
  <2>1. <<>> \in Seq(Messages)
    OBVIOUS
  <2> QED  BY <1>6, <2>1 DEF NewChat, Leave
<1>7. CASE UNCHANGED shown
  BY <1>1, <1>7
<1> QED
  BY <1>2, <1>3, <1>4, <1>5, <1>6, <1>7 DEF ChatNext, chatVars, page, StoreQuestion, StoreAnswer,
    ReadMessages, LoadFails, Select, SelectNew, NewNotFound, Relist, SendRefused, SendFails

\* The loads.
LEMMA LoadsTyping ==
  ASSUME ChatAssumption, RowTypes, LoadBooks, [ChatNext]_chatVars
  PROVE  loads' \in [Slots -> LoadRecords]
<1>1. loads \in [Slots -> LoadRecords]
  BY DEF RowTypes
<1>2. ASSUME NEW i \in Slots, ReadMessages(i)  PROVE loads' \in [Slots -> LoadRecords]
  <2>1. loads[i].chat \in Chats
    BY <1>2 DEF ReadMessages, LoadBooks, Loading
  <2>2. log[loads[i].chat] \in Seq(Messages)
    BY <2>1 DEF RowTypes
  <2>3. loads' = [loads EXCEPT ![i] = [loads[i] EXCEPT !.stage = "read", !.rows = log[loads[i].chat]]]
    BY <1>1, <1>2 DEF ReadMessages
  <2> QED  BY <1>1, <2>2, <2>3, LoadTyping
<1>3. ASSUME NEW i \in Slots, ShowMessages(i) \/ LoadFails(i)  PROVE loads' \in [Slots -> LoadRecords]
  BY <1>1, <1>3, LoadTyping DEF ShowMessages, LoadFails
<1>4. ASSUME NEW c \in Chats, Select(c) \/ SelectNew(c)  PROVE loads' \in [Slots -> LoadRecords]
  <2>1. loads' = [loads EXCEPT ![opened'] = [chat |-> c, stage |-> "asked", rows |-> <<>>]]
    BY <1>4 DEF Select, SelectNew, Open
  <2> QED  BY <1>1, <2>1, LoadTyping
<1>5. CASE Leave
  BY <1>5, LoadTyping DEF Leave
<1>6. CASE UNCHANGED loads
  BY <1>1, <1>6
<1> QED
  BY <1>2, <1>3, <1>4, <1>5, <1>6 DEF ChatNext, chatVars, fetches, StoreQuestion, StoreAnswer, NewNotFound,
    Send, NewChat, Relist, ShowAnswer, SendRefused, SendFails, Fail

LEMMA SendsCounted ==
  ASSUME ChatAssumption, ServerTypes, PageTypes, SendBooks, [ChatNext]_chatVars
  PROVE  SendBooks'
<1>1. ASSUME NEW n \in Sends, StoreQuestion(n)  PROVE SendBooks'
  <2>1. PICK c \in Chats : target' = [target EXCEPT ![n] = c]
    <3>1. CASE target[n] = NoChat
      <4>1. \E d \in Chats \ Existing : TRUE
        BY <1>1, <3>1 DEF StoreQuestion, Existing
      <4>2. (CHOOSE d \in Chats \ Existing : TRUE) \in Chats \ Existing
        BY <4>1
      <4> QED  BY <1>1, <3>1, <4>2 DEF StoreQuestion
    <3>2. CASE target[n] # NoChat
      BY <1>1, <3>2 DEF StoreQuestion, ServerTypes
    <3> QED  BY <3>1, <3>2
  <2>2. run[n] = "received" /\ run' = [run EXCEPT ![n] = "stored"] /\ UNCHANGED <<loading, awaiting, sends, listings>>
    BY <1>1 DEF StoreQuestion, page, turn, list
  <2> QED  BY <2>1, <2>2 DEF SendBooks, ServerTypes
<1>2. ASSUME NEW n \in Sends, StoreAnswer(n)  PROVE SendBooks'
  BY <1>2 DEF StoreAnswer, page, turn, list, fetches, ServerTypes, PageTypes, SendBooks, Sends, ChatAssumption
<1>3. ASSUME NEW i \in Slots, ReadMessages(i)  PROVE SendBooks'
  BY <1>3 DEF ReadMessages, server, list, page, turn, ServerTypes, PageTypes, SendBooks, Sends, ChatAssumption
<1>4. ASSUME NEW i \in Slots, ShowMessages(i)  PROVE SendBooks'
  BY <1>4 DEF ShowMessages, server, list, turn, ServerTypes, PageTypes, SendBooks, Sends, ChatAssumption
<1>5. ASSUME NEW i \in Slots, LoadFails(i)  PROVE SendBooks'
  BY <1>5 DEF LoadFails, server, list, page, turn, ServerTypes, PageTypes, SendBooks, Sends, ChatAssumption
<1>6. ASSUME NEW c \in Chats, Select(c)  PROVE SendBooks'
  BY <1>6 DEF Select, server, turn, Open, ServerTypes, PageTypes, SendBooks, Sends, ChatAssumption
<1>7. ASSUME NEW c \in Chats, SelectNew(c)  PROVE SendBooks'
  BY <1>7 DEF SelectNew, server, turn, Open, Settle, ServerTypes, PageTypes, SendBooks, Sends, ChatAssumption
<1>8. ASSUME NEW c \in Chats, NewNotFound(c)  PROVE SendBooks'
  BY <1>8 DEF NewNotFound, server, list, turn, fetches, Settle, ServerTypes, PageTypes, SendBooks, Sends, ChatAssumption
<1>9. ASSUME NEW withText \in BOOLEAN, Send(withText)  PROVE SendBooks'
  BY <1>9 DEF Send, list, fetches, MaySubmit, ServerTypes, PageTypes, SendBooks, Sends, ChatAssumption
<1>10. CASE NewChat
  BY <1>10 DEF NewChat, server, turn, fetches, ServerTypes, PageTypes, SendBooks, Sends, ChatAssumption
<1>11. CASE Relist
  BY <1>11 DEF Relist, server, page, turn, list, fetches, ServerTypes, PageTypes, SendBooks, Sends, ChatAssumption
<1>13. CASE ShowAnswer
  BY <1>13 DEF ShowAnswer, server, fetches, Settle, ServerTypes, PageTypes, SendBooks, Sends, ChatAssumption
<1>14. CASE SendRefused
  BY <1>14 DEF SendRefused, server, list, fetches, Fail, Settle, ServerTypes, PageTypes, SendBooks, Sends, ChatAssumption
<1>15. CASE SendFails
  BY <1>15 DEF SendFails, server, list, fetches, Fail, Settle, ServerTypes, PageTypes, SendBooks, Sends, ChatAssumption
<1>16. CASE Leave
  BY <1>16 DEF Leave, server, Settle, ServerTypes, PageTypes, SendBooks, Sends, ChatAssumption
<1>17. CASE UNCHANGED chatVars
  BY <1>17 DEF chatVars, server, page, turn, list, fetches, ServerTypes, PageTypes, SendBooks, Sends, ChatAssumption
<1> QED
  BY <1>1, <1>2, <1>3, <1>4, <1>5, <1>6, <1>7, <1>8, <1>9, <1>10, <1>11, <1>13, <1>14, <1>15, <1>16, <1>17 DEF ChatNext

\* A load that is under way was asked for, for a conversation.
LEMMA LoadsCounted ==
  ASSUME ChatAssumption, PageTypes, RowTypes, LoadBooks, [ChatNext]_chatVars
  PROVE  LoadBooks'
<1>1. loads \in [Slots -> LoadRecords] /\ opened \in Nat
  BY DEF RowTypes, LoadBooks
<1>2. NoLoad.stage = "none"
  BY DEF NoLoad
<1>3. ASSUME NEW i \in Slots, ReadMessages(i)  PROVE LoadBooks'
  <2>1. /\ loads' = [loads EXCEPT ![i] = [loads[i] EXCEPT !.stage = "read", !.rows = log[loads[i].chat]]]
        /\ opened' = opened /\ loads[i].stage = "asked"
    BY <1>1, <1>3 DEF ReadMessages
  <2>2. loads[i].chat \in Chats /\ ~(i > opened)
    BY <1>2, <2>1 DEF LoadBooks, Loading
  <2>3. loads'[i].chat = loads[i].chat /\ \A j \in Slots \ {i} : loads'[j] = loads[j]
    BY <1>1, <2>1 DEF LoadRecords
  <2> QED  BY <2>1, <2>2, <2>3 DEF LoadBooks, Loading
<1>4. ASSUME NEW i \in Slots, ShowMessages(i) \/ LoadFails(i)  PROVE LoadBooks'
  BY <1>1, <1>2, <1>4 DEF ShowMessages, LoadFails, LoadBooks, Loading
<1>5. ASSUME NEW c \in Chats, Select(c) \/ SelectNew(c)  PROVE LoadBooks'
  <2>1. /\ loads' = [loads EXCEPT ![opened'] = [chat |-> c, stage |-> "asked", rows |-> <<>>]]
        /\ opened' = opened + 1
    BY <1>5 DEF Select, SelectNew, Open
  <2> QED  BY <1>1, <2>1, SMTT(30) DEF LoadBooks, Loading
<1>6. CASE Leave
  BY <1>1, <1>2, <1>6 DEF Leave, LoadBooks, Loading
<1>7. CASE UNCHANGED fetches
  BY <1>7 DEF fetches, LoadBooks, Loading
<1> QED
  BY <1>3, <1>4, <1>5, <1>6, <1>7 DEF ChatNext, chatVars, StoreQuestion, StoreAnswer, NewNotFound,
    Send, NewChat, Relist, ShowAnswer, SendRefused, SendFails, Fail

\* A number of sets that differ in one conversation.
LEMMA OneMore ==
  ASSUME NEW S, IsFiniteSet(S), NEW c
  PROVE  /\ Cardinality(S) \in Nat
         /\ IsFiniteSet(S \cup {c}) /\ Cardinality(S \cup {c}) \in Nat
         /\ Cardinality(S \cup {c}) <= Cardinality(S) + 1
         /\ IsFiniteSet(S \ {c}) /\ Cardinality(S \ {c}) \in Nat
         /\ c \in S => Cardinality(S \ {c}) = Cardinality(S) - 1
<1>1. Cardinality(S) \in Nat /\ IsFiniteSet(S \cup {c}) /\ IsFiniteSet(S \ {c})
  BY FS_CardinalityType, FS_AddElement, FS_RemoveElement
<1>2. Cardinality(S \cup {c}) = IF c \in S THEN Cardinality(S) ELSE Cardinality(S) + 1
  BY FS_AddElement
<1>3. Cardinality(S \ {c}) = IF c \in S THEN Cardinality(S) - 1 ELSE Cardinality(S)
  BY FS_RemoveElement
<1>4. Cardinality(S \cup {c}) \in Nat /\ Cardinality(S \ {c}) \in Nat
  BY <1>1, FS_CardinalityType
<1> QED  BY <1>1, <1>2, <1>3, <1>4

\* The slots last: every conversation that is opened by itself was sent to.
LEMMA SlotsLast ==
  ASSUME ChatAssumption, ServerTypes, PageTypes, SendBooks, LoadBooks, SlotsSuffice, [ChatNext]_chatVars
  PROVE  SlotsSuffice'
<1> DEFINE one == IF AnswerMayOpen THEN 1 ELSE 0
           two == IF AnswerMayOpen' THEN 1 ELSE 0
<1>1. /\ Cardinality(toSelect) \in Nat /\ opened \in Nat /\ sends \in Nat /\ MaxLoads \in Nat /\ MaxSends \in Nat
      /\ Cardinality(toSelect) + one <= sends /\ opened + (Cardinality(toSelect) + one) <= MaxLoads + sends
  BY FS_CardinalityType DEF SlotsSuffice, ToOpen, LoadBooks, ServerTypes, ChatAssumption
<1>2. ASSUME IsFiniteSet(toSelect'), NEW m \in Nat, m = Cardinality(toSelect'),
             sends' \in Nat, m + two <= sends', opened' + (m + two) <= MaxLoads + sends'
      PROVE  SlotsSuffice'
  BY <1>2 DEF SlotsSuffice, ToOpen
<1>3. ASSUME UNCHANGED <<turn, toSelect, sends>>, opened' = opened \/ (opened' = opened + 1 /\ opened < MaxLoads)
      PROVE  SlotsSuffice'
  <2>1. two = one
    BY <1>3 DEF AnswerMayOpen, turn
  <2> QED  BY <1>1, <1>2, <1>3, <2>1 DEF SlotsSuffice
<1>4. ASSUME NEW c \in Chats, SelectNew(c) \/ NewNotFound(c)  PROVE SlotsSuffice'
  <2>1. /\ c \in toSelect /\ toSelect' = toSelect \ {c} /\ UNCHANGED sends
        /\ opened' = opened + 1 \/ opened' = opened
        /\ awaiting' = 0
    BY <1>4 DEF SelectNew, NewNotFound, Open, Settle, fetches
  <2>2. two = 0
    BY <2>1 DEF AnswerMayOpen
  <2>3. IsFiniteSet(toSelect') /\ Cardinality(toSelect') \in Nat /\ Cardinality(toSelect') = Cardinality(toSelect) - 1
    BY <2>1, OneMore DEF SlotsSuffice
  <2> QED  BY <1>1, <1>2, <2>1, <2>2, <2>3
<1>5. ASSUME NEW withText \in BOOLEAN, Send(withText)  PROVE SlotsSuffice'
  <2>1. awaiting = 0 /\ sends' = sends + 1 /\ UNCHANGED <<toSelect, opened>>
    BY <1>5 DEF Send, MaySubmit, SendBooks, fetches
  <2>2. one = 0 /\ two <= 1
    BY <2>1 DEF AnswerMayOpen
  <2> QED  BY <1>1, <1>2, <2>1, <2>2 DEF SlotsSuffice
<1>6. CASE Relist
  <2>1. two = one /\ UNCHANGED <<toSelect, opened, sends>>
    BY <1>6 DEF Relist, page, turn, fetches, AnswerMayOpen
  <2> QED  BY <1>1, <1>2, <2>1 DEF SlotsSuffice
<1>7. CASE ShowAnswer
  <2>1. /\ toSelect' = toSelect \/ \E c \in Chats \cup {NoChat} : toSelect' = toSelect \cup {c}
        /\ UNCHANGED <<opened, sends>>
    <3>1. target[awaiting] \in Chats \cup {NoChat}
      BY <1>7, AwaitedSend DEF ShowAnswer, ServerTypes
    <3> QED  BY <1>7, <3>1 DEF ShowAnswer, fetches
  <2>2. one = 1 /\ two = 0
    BY <1>7 DEF ShowAnswer, Settle, AnswerMayOpen
  <2>3. IsFiniteSet(toSelect') /\ Cardinality(toSelect') \in Nat /\ Cardinality(toSelect') <= Cardinality(toSelect) + 1
    BY <1>1, <2>1, OneMore DEF SlotsSuffice
  <2> QED  BY <1>1, <1>2, <2>1, <2>2, <2>3
<1>8. CASE Fail
  <2>1. two <= one /\ UNCHANGED <<toSelect, opened, sends>>
    BY <1>8 DEF Fail, Settle, fetches, AnswerMayOpen
  <2> QED  BY <1>1, <1>2, <2>1 DEF SlotsSuffice
<1>9. CASE Leave
  <2>1. two = 0 /\ toSelect' = {} /\ UNCHANGED <<opened, sends>>
    BY <1>9 DEF Leave, Settle, AnswerMayOpen
  <2>2. IsFiniteSet(toSelect') /\ Cardinality(toSelect') = 0
    BY <2>1, FS_EmptySet
  <2> QED  BY <1>1, <1>2, <2>1, <2>2
<1>10. CASE \/ \E n \in Sends : StoreQuestion(n) \/ StoreAnswer(n)
            \/ \E i \in Slots : ReadMessages(i) \/ ShowMessages(i) \/ LoadFails(i)
            \/ \E c \in Chats : Select(c)
            \/ NewChat \/ UNCHANGED chatVars
  <2>1. /\ UNCHANGED <<turn, toSelect, sends>>
        /\ opened' = opened \/ (opened' = opened + 1 /\ opened < MaxLoads)
    BY <1>10 DEF chatVars, page, fetches, StoreQuestion, StoreAnswer, ReadMessages, ShowMessages, LoadFails,
      Select, Open, NewChat
  <2> QED  BY <1>3, <2>1
<1> QED
  BY <1>4, <1>5, <1>6, <1>7, <1>8, <1>9, <1>10 DEF ChatNext, SendRefused, SendFails

\* A load that is asked for is the only one if there was none.
LEMMA OneLoad ==
  ASSUME ChatAssumption, ServerTypes, PageTypes, LoadBooks, SlotsSuffice, loads \in [Slots -> LoadRecords],
         NEW c \in Chats, Open(c), opened < MaxLoads \/ toSelect # {}, Loading = {}
  PROVE  opened' \in Slots /\ Loading' = {opened'} /\ loads'[opened'].chat = c /\ loads'[opened'].stage = "asked"
<1>1. opened \in Nat /\ opened' = opened + 1 /\ MaxLoads \in Nat /\ MaxSends \in Nat /\ sends <= MaxSends /\ sends \in Nat
  BY DEF Open, LoadBooks, ServerTypes, ChatAssumption
<1>2. opened' <= MaxLoads + MaxSends
  <2>1. CASE toSelect # {}
    <3>1. Cardinality(toSelect) \in Nat /\ Cardinality(toSelect) # 0
      BY <2>1, FS_CardinalityType, FS_EmptySet DEF SlotsSuffice
    <3>2. ToOpen \in Nat /\ ToOpen >= 1
      BY <3>1 DEF ToOpen
    <3> QED  BY <1>1, <3>2 DEF SlotsSuffice
  <2> QED  BY <1>1, <2>1
<1>3. opened' \in Slots
  BY <1>1, <1>2 DEF Slots
<1>4. loads' = [loads EXCEPT ![opened'] = [chat |-> c, stage |-> "asked", rows |-> <<>>]]
  BY DEF Open
<1> QED  BY <1>3, <1>4 DEF Loading

\* A page that is not disturbed passes from phase to phase.
LEMMA PhaseKept ==
  ASSUME ChatAssumption, ServerTypes, PageTypes, RowTypes, SendBooks, LoadBooks, SlotsSuffice, (~disturbed => Phases), ~disturbed', [ChatNext]_chatVars
  PROVE  Phases'
<1> log \in [Chats -> Seq(Messages)] /\ loads \in [Slots -> LoadRecords]
  BY DEF RowTypes
<1>1. ASSUME NEW n \in Sends, StoreQuestion(n)  PROVE Phases'
  BY <1>1 DEF StoreQuestion, page, turn, list, fetches, ServerTypes, PageTypes, SendBooks, Sends, Phases, Idle, Opening, Sending, Listing, Running, Loading, Quiet
<1>2. ASSUME NEW n \in Sends, StoreAnswer(n)  PROVE Phases'
  BY <1>2 DEF StoreAnswer, page, turn, list, fetches, ServerTypes, PageTypes, SendBooks, Sends, Phases, Idle, Opening, Sending, Listing, Running, Loading, Quiet
<1>3. ASSUME NEW i \in Slots, ReadMessages(i)  PROVE Phases'
  <2>1. /\ i \in Loading /\ ~disturbed
        /\ UNCHANGED <<log, run, target, streaming, selected, shown, loading, awaiting, sentTo, drawn, toSelect>>
    BY <1>3 DEF ReadMessages, Loading, server, page, turn
  <2>2. Opening /\ Loading = {i} /\ loads[i].chat = selected
    BY <2>1 DEF Phases, Idle, Opening, Sending, Listing
  <2>3. loads' = [loads EXCEPT ![i] = [loads[i] EXCEPT !.stage = "read", !.rows = log[loads[i].chat]]]
    BY <1>3 DEF ReadMessages
  <2>4. /\ loads'[i].chat = selected /\ loads'[i].stage = "read" /\ loads'[i].rows = log[selected]
        /\ \A j \in Slots \ {i} : loads'[j] = loads[j]
    BY <2>2, <2>3 DEF LoadRecords
  <2>5. Loading' = {i}
    BY <2>2, <2>4 DEF Loading
  <2> QED  BY <2>1, <2>2, <2>4, <2>5 DEF Phases, Opening, Running
<1>4. ASSUME NEW i \in Slots, ShowMessages(i)  PROVE Phases'
  <2>1. /\ i \in Loading /\ ~disturbed
        /\ UNCHANGED <<log, run, selected, awaiting, toSelect>>
    BY <1>4 DEF ShowMessages, Loading, server, turn
  <2>2. Opening /\ Loading = {i} /\ loads[i].chat = selected
    BY <2>1 DEF Phases, Idle, Opening, Sending, Listing
  <2>3. shown' = log[selected] /\ loads' = [loads EXCEPT ![i] = NoLoad]
    BY <1>4, <2>2 DEF ShowMessages, Loaded, Opening
  <2>4. Loading' = {}
    BY <2>2, <2>3 DEF Loading, NoLoad
  <2> QED  BY <2>1, <2>2, <2>3, <2>4 DEF Phases, Idle, Opening, Running, ChatAssumption
<1>5. ASSUME NEW i \in Slots, LoadFails(i)  PROVE Phases'
  BY <1>5 DEF LoadFails, server, list, page, turn, ServerTypes, PageTypes, SendBooks, Sends, Phases, Idle, Opening, Sending, Listing, Running, Loading, Quiet
<1>6. ASSUME NEW c \in Chats, Select(c)  PROVE Phases'
  <2>1. Quiet /\ Open(c) /\ opened < MaxLoads /\ selected' = c /\ UNCHANGED <<log, run, awaiting, toSelect>>
    BY <1>6 DEF Select, server, turn
  <2>2. opened' \in Slots /\ Loading' = {opened'} /\ loads'[opened'].chat = c /\ loads'[opened'].stage = "asked"
    BY <2>1, OneLoad DEF Quiet
  <2> QED  BY <2>1, <2>2 DEF Phases, Opening, Quiet, Running
<1>7. ASSUME NEW c \in Chats, SelectNew(c)  PROVE Phases'
  <2>1. /\ c \in toSelect /\ ~disturbed /\ toSelect' = toSelect \ {c} /\ Open(c) /\ selected' = c
        /\ UNCHANGED <<log, run>>
        /\ Settle
    BY <1>7 DEF SelectNew, server
  <2>2. Listing
    BY <2>1 DEF Phases, Idle, Opening, Sending
  <2>3. toSelect' = {} /\ awaiting' = 0 /\ Running' = {}
    BY <2>1, <2>2 DEF Listing, Settle, Running
  <2>4. opened' \in Slots /\ Loading' = {opened'} /\ loads'[opened'].chat = c /\ loads'[opened'].stage = "asked"
    BY <2>1, <2>2, OneLoad DEF Listing
  <2> QED  BY <2>1, <2>3, <2>4 DEF Phases, Opening
<1>8. ASSUME NEW c \in Chats, NewNotFound(c)  PROVE Phases'
  BY <1>8 DEF NewNotFound, server, list, turn, fetches, Settle, ServerTypes, PageTypes, SendBooks, Sends, Phases, Idle, Opening, Sending, Listing, Running, Loading, Quiet
<1>9. ASSUME NEW withText \in BOOLEAN, Send(withText)  PROVE Phases'
  <2>1. ~disturbed /\ Quiet
    BY <1>9 DEF Send
  <2>2. Idle
    BY <2>1 DEF Phases, Opening, Sending, Listing, Quiet
  <2>3. /\ sends' = sends + 1 /\ awaiting' = sends' /\ sentTo' = selected /\ drawn' = FALSE
        /\ shown' = Append(shown, Human(sends')) /\ UNCHANGED <<log, selected, toSelect, loads>>
        /\ run' = [run EXCEPT ![sends'] = IF withText THEN "received" ELSE "refused"]
        /\ target' = [target EXCEPT ![sends'] = selected] /\ sends < MaxSends
    BY <1>9 DEF Send, MaySubmit, fetches
  <2>4. sends' \in Sends /\ awaiting' # 0
    BY <2>3 DEF ServerTypes, Sends, ChatAssumption
  <2>5. Running' \subseteq {awaiting'} /\ Loading' = {} /\ toSelect' = {}
    BY <2>1, <2>3 DEF Quiet, Running, Loading, ServerTypes
  <2>6. run'[awaiting'] \in {"received", "refused"} /\ target'[awaiting'] = selected
    BY <2>3, <2>4 DEF ServerTypes
  <2>7. selected # NoChat => shown' = Append(log[selected], Human(awaiting'))
    BY <2>2, <2>3 DEF Idle
  <2> QED  BY <2>3, <2>4, <2>5, <2>6, <2>7 DEF Phases, Sending
<1>10. CASE NewChat
  BY <1>10 DEF NewChat, server, turn, fetches, ServerTypes, PageTypes, SendBooks, Sends, Phases, Idle, Opening, Sending, Listing, Running, Loading, Quiet
<1>11. CASE Relist
  BY <1>11 DEF Relist, server, page, turn, list, fetches, ServerTypes, PageTypes, SendBooks, Sends, Phases, Idle, Opening, Sending, Listing, Running, Loading, Quiet
<1>13. CASE ShowAnswer
  <2>1. /\ ~disturbed /\ awaiting # 0 /\ run[awaiting] = "answered" /\ ~drawn
        /\ shown' = Append(shown, Reply(awaiting))
        /\ UNCHANGED <<log, run, target, selected, loads>>
    <3>1. ~disturbed
      BY <1>13, Zenon DEF ShowAnswer
    <3> QED  BY <1>13, <3>1 DEF ShowAnswer, server, fetches
  <2>2. Sending
    BY <2>1 DEF Phases, Idle, Opening, Listing
  <2>3. Running' = {} /\ Loading' = {}
    BY <2>1, <2>2 DEF Sending, Running, Loading
  <2>4. CASE selected = NoChat
    <3>1. target[awaiting] \in Chats
      BY <2>1, AwaitedSend DEF SendBooks
    <3>2. toSelect' = {target[awaiting]} /\ awaiting' = awaiting /\ drawn'
      BY <1>13, <2>2, <2>4 DEF ShowAnswer, Sending
    <3> QED  BY <2>1, <2>3, <2>4, <3>1, <3>2 DEF Phases, Listing
  <2>5. CASE selected # NoChat
    <3>1. toSelect' = {} /\ awaiting' = 0
      BY <1>13, <2>2, <2>5 DEF ShowAnswer, Sending, Settle
    <3>2. ~streaming
      BY <1>13, <2>2, <2>5 DEF ShowAnswer, Sending
    <3>3. shown' = log[selected]
      BY <2>1, <2>2, <2>5, <3>2 DEF Sending, Reply
    <3> QED  BY <2>1, <2>3, <2>5, <3>1, <3>3 DEF Phases, Idle
  <2> QED  BY <2>4, <2>5
<1>14. CASE SendRefused
  BY <1>14 DEF SendRefused, server, list, fetches, Fail, Settle, ServerTypes, PageTypes, SendBooks, Sends, Phases, Idle, Opening, Sending, Listing, Running, Loading, Quiet
<1>15. CASE SendFails
  BY <1>15 DEF SendFails, server, list, fetches, Fail, Settle, ServerTypes, PageTypes, SendBooks, Sends, Phases, Idle, Opening, Sending, Listing, Running, Loading, Quiet
<1>16. CASE Leave
  <2>1. selected' = NoChat /\ shown' = <<>> /\ awaiting' = 0 /\ toSelect' = {} /\ loads' = [j \in Slots |-> NoLoad]
    BY <1>16 DEF Leave, Settle
  <2>2. Loading' = {}
    BY <2>1 DEF Loading, NoLoad
  <2> QED  BY <2>1, <2>2 DEF Phases, Idle
<1>17. CASE UNCHANGED chatVars
  BY <1>17 DEF chatVars, server, page, turn, list, fetches, ServerTypes, PageTypes, SendBooks, Sends, Phases, Idle, Opening, Sending, Listing, Running, Loading, Quiet
<1> QED
  BY <1>1, <1>2, <1>3, <1>4, <1>5, <1>6, <1>7, <1>8, <1>9, <1>10, <1>11, <1>13, <1>14, <1>15, <1>16, <1>17 DEF ChatNext

LEMMA ChatStarts == ChatAssumption /\ ChatInit => ChatInv
<1> SUFFICES ASSUME ChatAssumption, ChatInit  PROVE ChatInv
  OBVIOUS
<1>1. ServerTypes
  BY DEF ChatInit, ServerTypes, ChatAssumption
<1>2. PageTypes
  <2>1. /\ streaming \in BOOLEAN /\ loading \in BOOLEAN /\ drawn \in BOOLEAN
        /\ disturbed \in BOOLEAN /\ relisted \in BOOLEAN
    BY Zenon DEF ChatInit
  <2> QED  BY <2>1 DEF ChatInit, PageTypes, ChatAssumption
<1>3. RowTypes
  <2>1. Human(0) \in Messages /\ Answer(0) \in Messages
    BY MessageTyping DEF ChatAssumption
  <2>2. <<>> \in Seq(Messages) /\ <<Human(0), Answer(0)>> \in Seq(Messages)
    BY <2>1
  <2> QED  BY <2>2, LoadTyping DEF ChatInit, RowTypes
<1>4. Loading = {} /\ Running = {} /\ toSelect = {} /\ awaiting = 0
  BY DEF ChatInit, Loading, Running, NoLoad
<1>5. SendBooks
  BY DEF ChatInit, SendBooks, Sends, ChatAssumption
<1>6. LoadBooks
  BY <1>4 DEF ChatInit, LoadBooks
<1>7. SlotsSuffice
  BY <1>4, FS_EmptySet DEF ChatInit, SlotsSuffice, ToOpen, AnswerMayOpen, ChatAssumption
<1>8. Phases
  BY <1>4 DEF ChatInit, Phases, Idle
<1> QED  BY <1>1, <1>2, <1>3, <1>5, <1>6, <1>7, <1>8 DEF ChatInv, ChatTypes, ChatBooks

LEMMA ChatStep ==
  ASSUME ChatAssumption, ChatInv, [ChatNext]_chatVars
  PROVE  ChatInv'
<1>1. ServerTypes /\ PageTypes /\ RowTypes /\ SendBooks /\ LoadBooks /\ SlotsSuffice /\ (~disturbed => Phases)
  BY DEF ChatInv, ChatTypes, ChatBooks
<1>2. ServerTypes' /\ PageTypes' /\ RowTypes'
  BY <1>1, ServerTyping, PageTyping, LogTyping, ShownTyping, LoadsTyping DEF RowTypes
<1>3. SendBooks' /\ LoadBooks' /\ SlotsSuffice'
  BY <1>1, SendsCounted, LoadsCounted, SlotsLast
<1>4. ASSUME ~disturbed'  PROVE Phases'
  BY <1>1, <1>4, PhaseKept
<1> QED  BY <1>2, <1>3, <1>4 DEF ChatInv, ChatTypes, ChatBooks

LEMMA ChatMeans == ChatInv => ChatTypes /\ QuietViewIsLog /\ FollowUpStays
<1> SUFFICES ASSUME ChatInv  PROVE ChatTypes /\ QuietViewIsLog /\ FollowUpStays
  OBVIOUS
<1>1. ASSUME Quiet, ~disturbed  PROVE shown = (IF selected = NoChat THEN <<>> ELSE log[selected])
  BY <1>1 DEF ChatInv, Quiet, Phases, Idle, Opening, Sending, Listing
<1>2. ASSUME ~disturbed, ~loading, shown # <<>>  PROVE selected # NoChat
  <2>1. awaiting = 0
    BY <1>2 DEF ChatInv, ChatBooks, SendBooks
  <2> QED  BY <1>2, <2>1, ChatAssumption DEF ChatInv, Phases, Idle, Opening, Sending, Listing, ChatAssumption
<1> QED  BY <1>1, <1>2 DEF ChatInv, QuietViewIsLog, FollowUpStays

LEMMA ChatTypesMean == ChatTypes /\ ChatBooks /\ SlotsSuffice => ChatTypeOK
<1> SUFFICES ASSUME ChatTypes, ChatBooks, SlotsSuffice  PROVE ChatTypeOK
  OBVIOUS
<1>1. opened \in 0..(MaxLoads + MaxSends)
  <2>1. ToOpen \in Nat
    BY FS_CardinalityType DEF SlotsSuffice, ToOpen
  <2> QED  BY <2>1, ChatAssumption DEF ChatTypes, ServerTypes, ChatBooks, LoadBooks, SlotsSuffice, ChatAssumption
<1>2. \A i \in Slots : /\ loads[i].chat \in Chats \cup {NoChat}
                       /\ loads[i].stage \in {"none", "asked", "read"}
                       /\ loads[i].rows \in Seq(Messages)
  BY DEF ChatTypes, RowTypes, LoadRecords
<1> QED  BY <1>1, <1>2 DEF ChatTypes, ServerTypes, PageTypes, RowTypes, ChatTypeOK

LEMMA ChatKept == ChatSpec => []ChatInv
<1>1. ChatInit => ChatInv
  BY ChatAssumption, ChatStarts
<1>2. ChatInv /\ [ChatNext]_chatVars => ChatInv'
  BY ChatAssumption, ChatStep
<1> QED  BY <1>1, <1>2, PTL DEF ChatSpec

\* With nothing in flight the page shows the selected conversation as the server
\* stored it, for every interleaving of sends, loads and the server's steps that
\* did not disturb it: it is idle, opening, sending or waiting for the list.
THEOREM QuietPageShowsLog == ChatSpec => []QuietViewIsLog
BY ChatKept, ChatMeans, PTL

\* Undisturbed, the input is open only on a page that has a conversation
\* selected or shows nothing: a follow-up belongs to what is shown.
THEOREM FollowUpsStay == ChatSpec => []FollowUpStays
BY ChatKept, ChatMeans, PTL

\* What is shown, stored and under way are messages, and a page opens at most as
\* many loads as clicks and answers ask for.
THEOREM ChatTyping == ChatSpec => []ChatTypeOK
<1>1. ChatInv => ChatTypeOK
  BY ChatTypesMean DEF ChatInv
<1> QED  BY <1>1, ChatKept, PTL
=================================================================================
