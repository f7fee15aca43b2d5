------------------------------ MODULE WebSession ------------------------------
(***************************************************************************)
(* The web client's session: lib/auth-client.ts, hooks/useAuth.tsx, the    *)
(* routes of App.tsx, AuthForm and AuthCallback, with the token endpoints  *)
(* of auth_router.py they call.  One account, one tab.                     *)
(*                                                                         *)
(* The cookie holds a refresh token, `stored` are the server's.  The       *)
(* access token is live, expired or absent.  Every fetch is a call with a  *)
(* stage, so that calls overlap as they do in the browser; `sent` is the   *)
(* refresh token a call presented and, once answered, was given.           *)
(***************************************************************************)
EXTENDS Naturals, FiniteSets

CONSTANTS Requests,      \* authenticated calls a page makes (authFetch)
          MaxEvents      \* bound: expiries, sign-ins, page loads and losses together

ASSUME SessionAssumption ==
    /\ Requests \cap {"restore", "callback", "form", "signOut"} = {}
    /\ MaxEvents \in Nat

VARIABLES accessToken,   \* auth-client's module variable
          user,          \* useAuth: is a user set
          restoring,     \* useAuth: loading
          route,         \* the page shown
          call,          \* the stage of every call
          sent,          \* the refresh token of every call
          cookie,        \* the browser's refresh token
          stored,        \* the server's refresh tokens
          issued,        \* refresh tokens issued so far
          aged,          \* the first ones of them, which are past their seven days
          events,        \* events so far
          lossy,         \* history: an answer was lost, or a statement of a rotation
          met,           \* history: calls in flight that another one may upset
          exit           \* history: how the last session ended; once raced, raced

NoToken == 0

view == <<accessToken, user, restoring, route>>
tokens == <<cookie, stored, issued, aged>>
history == <<events, lossy, exit>>
sessionVars == <<view, call, sent, tokens, met, history>>

Refreshers == Requests \cup {"restore"}
Calls == Refreshers \cup {"callback", "form", "signOut"}
Stages == {"idle", "api", "stale", "refresh", "found", "expired", "dropped",
           "refused", "rotated", "me", "retry", "login", "issued", "denied", "logout", "staleLogout", "cleared"}
Routes == {"login", "home", "callback", "callbackError"}

SessionTypeOK ==
    /\ accessToken \in {"none", "live", "expired"}
    /\ user \in BOOLEAN /\ restoring \in BOOLEAN
    /\ route \in Routes
    /\ call \in [Calls -> Stages]
    /\ issued \in Nat /\ aged \in 0..issued /\ stored \subseteq 1..issued
    /\ sent \in [Calls -> 0..issued] /\ cookie \in 0..issued
    /\ events \in 0..MaxEvents /\ lossy \in BOOLEAN
    /\ met \subseteq Requests \cup {"signOut"}
    /\ exit \in {"none", "clean", "refused", "raced"}

\* Calls that are getting tokens, from the fetch to the end of their handler.
Refreshing == {c \in Refreshers \cup {"form"} :
                 call[c] \notin {"idle", "api", "stale", "retry"}}
InFlight == {c \in Calls : call[c] # "idle"}

\* Of the calls that overlap, the ones that fare differently for it.
Upset(calls) == calls \cap (Requests \cup {"signOut"})

Event == events < MaxEvents /\ events' = events + 1

\* ProtectedRoute sends a visitor without a user to /login, once nothing is
\* being restored; /login sends a user to /.
Land(r, u, l) == IF r = "home" /\ ~l /\ ~u THEN "login"
                 ELSE IF r = "login" /\ u THEN "home"
                 ELSE r

To(c, stage) == call' = [call EXCEPT ![c] = stage]

Forget(c) == sent' = [sent EXCEPT ![c] = NoToken]

\* A call's handler is through.
Done(c) == To(c, "idle") /\ Forget(c) /\ met' = met \ {c}

SessionInit ==
    /\ accessToken = "none" /\ user = FALSE /\ restoring = TRUE
    /\ route \in {"home", "login"}
    /\ call = [c \in Calls |-> IF c = "restore" THEN "refresh" ELSE "idle"]
    /\ cookie \in {1, NoToken} /\ stored = {1} /\ issued = 1 /\ aged = 0
    /\ sent = [c \in Calls |-> IF c = "restore" THEN cookie ELSE NoToken]
    /\ events = 0 /\ lossy = FALSE /\ met = {} /\ exit = "none"

-------------------------------------------------------------------------------
(* The server's side of /refresh, /login or /register, /logout.            *)

\* POST /refresh: the presented token is looked up.  It is refused if it is not
\* stored, if the SELECT fails, and past its lifetime too, when a browser no
\* longer sends the cookie.
LookUp(c) ==
    /\ call[c] = "refresh"
    /\ \/ /\ sent[c] \in stored
          /\ To(c, IF sent[c] <= aged THEN "expired" ELSE "found")
          /\ UNCHANGED sent
       \/ /\ To(c, "refused")
          /\ Forget(c)
    /\ UNCHANGED <<view, tokens, met, history>>

\* Mutant: all tokens of the account are deleted.
DroppedAll(c) == {}

\* What the DELETE of the presented token leaves.
Dropped(c) == stored \ {sent[c]}

\* The token that was found is deleted, an expired one to be refused then; the
\* DELETE may fail.
Drop(c) ==
    /\ call[c] \in {"found", "expired"}
    /\ \/ /\ stored' = Dropped(c)
          /\ To(c, IF call[c] = "found" THEN "dropped" ELSE "refused")
       \/ /\ To(c, "refused")
          /\ UNCHANGED stored
    /\ Forget(c)
    /\ UNCHANGED <<view, cookie, issued, aged, met, history>>

\* _issue_tokens_and_set_cookie: another token is stored for the user, unless the
\* SELECT of the user or the INSERT fails, with the old one gone already.
Issue(c) ==
    /\ call[c] = "dropped"
    /\ \/ /\ issued' = issued + 1
          /\ stored' = stored \cup {issued'}
          /\ sent' = [sent EXCEPT ![c] = issued']
          /\ To(c, "rotated")
          /\ UNCHANGED lossy
       \/ /\ To(c, "refused")
          /\ lossy' = TRUE
          /\ UNCHANGED <<issued, stored, sent>>
    /\ UNCHANGED <<view, cookie, aged, met, events, exit>>

\* POST /login or /register, with credentials the server accepts or not, and
\* statements that succeed or not.
ServerSignsIn ==
    /\ call["form"] = "login"
    /\ \/ /\ issued' = issued + 1
          /\ stored' = stored \cup {issued'}
          /\ sent' = [sent EXCEPT !["form"] = issued']
          /\ To("form", "issued")
       \/ /\ To("form", "denied")
          /\ UNCHANGED <<stored, issued, sent>>
    /\ UNCHANGED <<view, cookie, aged, met, history>>

\* Mutant: only the token of this browser is deleted.
ServerLogsOutHere ==
    /\ call["signOut"] = "logout"
    /\ stored' = stored \ {cookie}
    /\ To("signOut", "cleared")
    /\ UNCHANGED <<view, sent, cookie, issued, aged, met, history>>

\* POST /logout asks for a live access token before it deletes all refresh
\* tokens of the account; the DELETE may fail.
ServerLogsOut ==
    /\ \/ /\ call["signOut"] = "logout"
          /\ stored' = {}
          /\ To("signOut", "cleared")
       \/ /\ call["signOut"] \in {"logout", "staleLogout"}
          /\ To("signOut", "denied")
          /\ UNCHANGED stored
    /\ UNCHANGED <<view, sent, cookie, issued, aged, met, history>>

-------------------------------------------------------------------------------
(* The client's side: what happens when an answer is there.                *)

\* refreshToken() for the provider's effect: a refusal ends the restoring ...
RestoreRefused ==
    /\ call["restore"] = "refused"
    /\ restoring' = FALSE
    /\ route' = Land(route, user, FALSE)
    /\ Done("restore")
    /\ UNCHANGED <<accessToken, user, tokens, history>>

\* ... an answer sets the token and asks who the user is.
RestoreRefreshed ==
    /\ call["restore"] = "rotated"
    /\ cookie' = sent["restore"]
    /\ accessToken' = "live"
    /\ To("restore", "me") /\ Forget("restore")
    /\ UNCHANGED <<user, restoring, route, stored, issued, aged, met, history>>

\* fetchCurrentUser() for the provider's effect.
RestoreGetsUser ==
    /\ call["restore"] = "me"
    /\ user' = TRUE /\ restoring' = FALSE
    /\ route' = Land(route, TRUE, FALSE)
    /\ Done("restore")
    /\ UNCHANGED <<accessToken, tokens, history>>

\* fetchCurrentUser() for the callback page, which goes home and sets no user.
CallbackGetsUser ==
    /\ call["callback"] = "me"
    /\ route' = Land("home", user, restoring)
    /\ Done("callback")
    /\ UNCHANGED <<accessToken, user, restoring, tokens, history>>

\* AuthForm: submit either tab; the buttons are disabled while it waits.
Submit ==
    /\ route = "login" /\ call["form"] = "idle" /\ Event
    /\ To("form", "login")
    /\ exit' = IF exit = "raced" THEN exit ELSE "none"
    /\ UNCHANGED <<view, sent, tokens, met, lossy>>

\* login() or register() of the client answered with a session.
LoggedIn == cookie' = sent["form"] /\ accessToken' = "live"

\* signIn or signUp, after it.
FormAnswered ==
    /\ \/ /\ call["form"] = "issued"
          /\ LoggedIn
          /\ user' = TRUE
          /\ route' = Land(route, TRUE, restoring)
       \/ /\ call["form"] = "denied"
          /\ UNCHANGED <<cookie, accessToken, user, route>>
    /\ Done("form")
    /\ UNCHANGED <<restoring, stored, issued, aged, history>>

\* authFetch: the first attempt, with the access token of this moment.
Request(r) ==
    /\ route = "home" /\ user /\ call[r] = "idle"
    /\ To(r, IF accessToken = "live" THEN "api" ELSE "stale")
    /\ UNCHANGED <<view, sent, tokens, met, history>>

\* authFetch: the answer is 401: a refresh of its own, whatever other calls are
\* refreshing.
Unauthorised(r) ==
    /\ call[r] = "stale"
    /\ To(r, "refresh")
    /\ sent' = [sent EXCEPT ![r] = cookie]
    /\ LET others == Refreshing \cup ({"signOut"} \cap InFlight)
       IN met' = IF others = {} THEN met ELSE met \cup Upset(others \cup {r})
    /\ UNCHANGED <<view, tokens, history>>

\* authFetch: the refresh is answered: retry.
Refreshed(r) ==
    /\ call[r] = "rotated"
    /\ cookie' = sent[r]
    /\ accessToken' = "live"
    /\ To(r, "retry") /\ Forget(r)
    /\ UNCHANGED <<user, restoring, route, stored, issued, aged, met, history>>

\* authFetch returns: the first answer, whatever the second attempt got, or a
\* refused refresh as "Session expired".
Returned(r) ==
    /\ call[r] \in {"api", "retry", "refused"}
    /\ Done(r)
    /\ UNCHANGED <<view, tokens, history>>

\* useAuth.signOut: logout() is awaited, its status not looked at.
SignOut ==
    /\ route = "home" /\ user /\ call["signOut"] = "idle"
    /\ To("signOut", IF accessToken = "live" THEN "logout" ELSE "staleLogout")
    /\ met' = IF Refreshing = {} THEN met ELSE met \cup Upset(Refreshing \cup {"signOut"})
    /\ UNCHANGED <<view, sent, tokens, history>>

\* The local state is cleared after logout() returned or threw.
SignedOut ==
    /\ call["signOut"] \in {"cleared", "denied"}
    /\ cookie' = IF call["signOut"] = "cleared" THEN NoToken ELSE cookie
    /\ accessToken' = "none" /\ user' = FALSE
    /\ route' = Land(route, FALSE, restoring)
    /\ To("signOut", "idle")
    /\ exit' = IF exit = "raced" \/ "signOut" \in met THEN "raced"
               ELSE IF call["signOut"] = "denied" THEN "refused"
               ELSE "clean"
    /\ met' = Upset(InFlight) \ {"signOut"}
    /\ UNCHANGED <<restoring, sent, stored, issued, aged, events, lossy>>

\* "Return to Login" on the callback page.
ReturnToLogin ==
    /\ route = "callbackError"
    /\ route' = Land("login", user, restoring)
    /\ UNCHANGED <<accessToken, user, restoring, call, sent, tokens, met, history>>

-------------------------------------------------------------------------------
(* The environment.                                                        *)

\* The access token's lifetime ends.
Expire ==
    /\ accessToken = "live"
    /\ Event
    /\ accessToken' = "expired"
    /\ UNCHANGED <<user, restoring, route, call, sent, tokens, met, lossy, exit>>

\* The lifetime of the oldest refresh tokens ends, long after the one of the access
\* token that was issued with the last of them.
Age ==
    /\ Event
    /\ aged' \in (aged + 1)..issued
    /\ accessToken = "live" => aged' < issued
    /\ UNCHANGED <<view, call, sent, cookie, stored, issued, met, lossy, exit>>

\* An answer is lost: fetch() throws.  The effect and the callback page catch
\* it, signOut clears the local state all the same, authFetch passes it on.
Lose(c) ==
    /\ call[c] # "idle"
    /\ Event
    /\ lossy' = TRUE
    /\ restoring' = (restoring /\ c # "restore")
    /\ accessToken' = IF c = "signOut" THEN "none" ELSE accessToken
    /\ user' = (user /\ c # "signOut")
    /\ route' = IF c = "callback" THEN "callbackError"
                ELSE Land(route, user', restoring')
    /\ Done(c)
    /\ UNCHANGED <<tokens, exit>>

\* A page is loaded: what was in flight is lost, the provider's effect asks for
\* a refresh with the cookie; the callback page's own effect has run before.
Load(r, back) ==
    /\ Event
    /\ lossy' = (lossy \/ InFlight # {})
    /\ accessToken' = IF back THEN "live" ELSE "none"
    /\ user' = FALSE /\ restoring' = TRUE
    /\ route' = r
    /\ call' = [c \in Calls |-> IF c = "restore" THEN "refresh"
                                ELSE IF c = "callback" /\ back THEN "me" ELSE "idle"]
    /\ sent' = [c \in Calls |-> IF c = "restore" THEN cookie' ELSE NoToken]
    /\ met' = {}

Reload ==
    /\ UNCHANGED <<tokens, exit>>
    /\ Load(IF route = "home" THEN "home" ELSE "login", FALSE)

\* signInWithGoogle leaves for the provider, which returns to the callback page
\* with an access token and a new cookie ...
GoogleReturns ==
    /\ route = "login" /\ call["form"] = "idle"
    /\ issued' = issued + 1
    /\ stored' = stored \cup {issued'} /\ cookie' = issued'
    /\ exit' = IF exit = "raced" THEN exit ELSE "none"
    /\ UNCHANGED aged
    /\ Load("callback", TRUE)

\* ... or with an error, which the page shows.
GoogleRefuses ==
    /\ route = "login" /\ call["form"] = "idle"
    /\ UNCHANGED <<tokens, exit>>
    /\ Load("callbackError", FALSE)

-------------------------------------------------------------------------------
SessionNext ==
    \/ \E c \in Refreshers : LookUp(c) \/ Drop(c) \/ Issue(c)
    \/ ServerSignsIn \/ ServerLogsOut
    \/ RestoreRefused \/ RestoreRefreshed \/ RestoreGetsUser \/ CallbackGetsUser
    \/ Submit \/ FormAnswered
    \/ \E r \in Requests : Request(r) \/ Unauthorised(r) \/ Refreshed(r) \/ Returned(r)
    \/ SignOut \/ SignedOut \/ ReturnToLogin
    \/ Expire \/ Age \/ Reload \/ GoogleReturns \/ GoogleRefuses
    \/ \E c \in Calls : Lose(c)

SessionSpec == SessionInit /\ [][SessionNext]_sessionVars

-------------------------------------------------------------------------------
\* While somebody is signed in and no call is under way, the browser's refresh
\* token is one the server knows until its lifetime ends, however many refreshes
\* overlapped and wherever they were refused.  Only three things end it early: a
\* lost answer, a statement that fails after the DELETE of a rotation, and a
\* sign-out that overlapped a refresh or a sign-in.
CookieIsLive ==
    (user /\ InFlight = {} /\ ~lossy /\ exit # "raced") => cookie \in stored \cup 1..aged

\* After a sign-out that the server accepted and no refresh overlapped, no
\* refresh token of the account is left, on either side.
SignOutLeavesNothing ==
    (exit = "clean" /\ ~user /\ ~lossy) => (stored = {} /\ cookie = NoToken)
===============================================================================
