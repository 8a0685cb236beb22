----------------------------- MODULE WebSession -----------------------------
(***************************************************************************)
(* The session as one browser tab of the web client knows it: the CSRF     *)
(* token kept in memory (apps/web/src/lib/http/csrf.ts), the requests that *)
(* wait for it (client.ts), the pages that sign in, check a session, change *)
(* a temporary password or sign out, and the heartbeat of the              *)
(* participants' shell.  The cookie belongs to the browser: it goes with a *)
(* request when the request is sent and changes when an answer arrives,    *)
(* before the script that waits for the answer goes on.                    *)
(*                                                                         *)
(* A session and its token are one value: auth.service.ts puts the token   *)
(* in the session's JWT, and csrf.guard.ts compares the two.  A token       *)
(* request remembers sessionVersion; since only "has it changed" is asked, *)
(* it carries instead whether it is still current.                         *)
(***************************************************************************)
EXTENDS FiniteSets

CONSTANTS
  Sessions,  \* sessions the server may open (the bound on the sign-ins)
  Calls,     \* requests that may be under way at the same time
  Absent     \* no cookie, no token, no request

ASSUME AbsentAssumption == Absent \notin Sessions \union Calls

VARIABLES
  live, issued,      \* server: the sessions not ended, and all those opened
  cookie,            \* browser: access_token
  csrfToken,         \* csrf.ts
  csrfTokenRequest,  \* csrf.ts: the request every caller waits for
  page,              \* what the tab shows
  call,              \* the requests under way
  overtaken          \* history: csrfToken came with an answer to a sign-in or to a
                     \* session check, after another session had taken the cookie

sessions == <<live, issued>>
csrf == <<csrfToken, csrfTokenRequest>>
tabVars == <<sessions, cookie, csrf, page, call, overtaken>>

\* The three forms that sign in are one page here, as are those of the shells;
\* /trocar-senha is validating the session until it shows its form.
Pages == {"login", "home", "validating", "change"}
Unsafe == {"heartbeat", "mutate", "logout", "change"}

\* A request: waiting for the token request `waits`, sent, handled by the server,
\* or arrived; current, of a token request: sessionVersion has not moved since it
\* began; mounted: the page that made it is still shown.
Call == [op : {"token", "security", "login"} \union Unsafe,
         stage : {"waiting", "sent", "handled", "arrived"},
         waits : Calls \union {Absent},
         cookie : Sessions \union {Absent}, header : Sessions \union {Absent},
         current : BOOLEAN, mounted : BOOLEAN,
         status : {"none", "ok", "unauthorized", "forbidden", "lost"},
         token : Sessions \union {Absent}]
Nothing == [op |-> "none"]
Free(c) == call[c] = Nothing
Quiet == \A c \in Calls : Free(c)
UnderWay(op) == \E c \in Calls : call[c].op = op /\ call[c].mounted

TabRequest(op) ==
  [op |-> op, stage |-> "sent", waits |-> Absent, cookie |-> cookie, header |-> Absent,
   current |-> TRUE, mounted |-> TRUE, status |-> "none", token |-> Absent]

TabInit ==
  /\ live = {} /\ issued = {}
  /\ cookie = Absent
  /\ csrfToken = Absent /\ csrfTokenRequest = Absent
  /\ page = "login"
  /\ call = [c \in Calls |-> Nothing]
  /\ overtaken = FALSE

-----------------------------------------------------------------------------
(* csrf.ts: setCsrfToken and clearCsrfToken move sessionVersion on.         *)
SetCsrfToken(token) ==
  csrfToken' = token /\ csrfTokenRequest' = Absent /\ overtaken' = (token # cookie)
ClearCsrfToken == csrfToken' = Absent /\ csrfTokenRequest' = Absent /\ overtaken' = FALSE
Outdated(calls) ==
  [c \in Calls |-> IF calls[c].op = "token" THEN [calls[c] EXCEPT !.current = FALSE]
                   ELSE calls[c]]

\* apiFetch and ensureCsrfToken: with the token at hand the request is sent;
\* otherwise it waits for the request under way, or for one it starts.
ApiFetch(op) ==
  \E c \in Calls :
    /\ Free(c)
    /\ UNCHANGED <<sessions, cookie, csrfToken, page, overtaken>>
    /\ \/ /\ csrfToken # Absent
          /\ call' = [call EXCEPT ![c] = [TabRequest(op) EXCEPT !.header = csrfToken]]
          /\ UNCHANGED csrfTokenRequest
       \/ /\ csrfToken = Absent /\ csrfTokenRequest # Absent
          /\ call' = [call EXCEPT ![c] =
               [TabRequest(op) EXCEPT !.stage = "waiting", !.waits = csrfTokenRequest]]
          /\ UNCHANGED csrfTokenRequest
       \/ /\ csrfToken = Absent /\ csrfTokenRequest = Absent
          /\ \E r \in Calls \ {c} :
               /\ Free(r)
               /\ csrfTokenRequest' = r
               /\ call' = [call EXCEPT ![r] = TabRequest("token"),
                    ![c] = [TabRequest(op) EXCEPT !.stage = "waiting", !.waits = r]]

\* A request made without a token: the sign-in forms (skipCsrf), GET /auth/csrf.
Send(op) ==
  \E c \in Calls :
    /\ Free(c)
    /\ call' = [call EXCEPT ![c] = TabRequest(op)]

-----------------------------------------------------------------------------
(* The user.                                                               *)

\* login-form.tsx, admin-login-form.tsx, register-form.tsx: one at a time each.
SubmitLogin ==
  /\ page = "login" /\ ~UnderWay("login")
  /\ Send("login")
  /\ UNCHANGED <<sessions, cookie, csrf, page, overtaken>>

\* use-presence-heartbeat.ts: inFlight skips the ticks meanwhile.
Heartbeat == page = "home" /\ ~UnderWay("heartbeat") /\ ApiFetch("heartbeat")
Mutate == page = "home" /\ ApiFetch("mutate")
\* logout-button.tsx and change-required-password-form.tsx disable their button.
Logout == page = "home" /\ ~UnderWay("logout") /\ ApiFetch("logout")
ChangePassword ==
  /\ page = "change" /\ ~UnderWay("change")
  /\ ApiFetch("change")

\* Leaving a page unmounts what made its requests.  Leaving the shell also aborts
\* the heartbeat's request, but not the token request it may be waiting for.
OwnRequests(of) ==
  CASE of = "login" -> {"login"}
    [] of = "home" -> {"heartbeat", "logout"}
    [] of = "validating" -> {"security"}
    [] of = "change" -> {"change"}
TabUnmounted(calls, from) ==
  [c \in Calls |->
     IF calls[c].op \notin OwnRequests(from) THEN calls[c]
     ELSE IF calls[c].op = "heartbeat" /\ calls[c].stage # "waiting" THEN Nothing
     ELSE [calls[c] EXCEPT !.mounted = FALSE]]

\* What a page asks for when it is mounted: the password page checks the
\* session at once.
Mounted(calls, to) ==
  IF to # "validating" THEN {calls}
  ELSE {[calls EXCEPT ![c] = TabRequest("security")] : c \in {c \in Calls : calls[c] = Nothing}}

\* proxy.ts: without a cookie every page but the sign-in leads to the sign-in.
\* What is shown stays when its own address is asked for, which the password
\* page has alone; otherwise it is unmounted, whatever it may be waiting for.
Visit(calls, target) ==
  LET to == IF cookie = Absent THEN "login" ELSE target IN
    \/ /\ to = page \/ (to = "validating" /\ page = "change")
       /\ page' = page /\ call' = calls
    \/ /\ to = "validating" => page \notin {"validating", "change"}
       /\ page' = to /\ call' \in Mounted(TabUnmounted(calls, page), to)

Navigate(to) ==
  /\ to # "change"
  /\ Visit(call, to)
  /\ UNCHANGED <<sessions, cookie, csrf, overtaken>>

\* The page is loaded again: the scripts start afresh, and with them csrf.ts.
Reload ==
  /\ ClearCsrfToken
  /\ page' = IF cookie = Absent THEN "login" ELSE IF page = "change" THEN "validating" ELSE page
  /\ call' \in Mounted([c \in Calls |-> Nothing], page')
  /\ UNCHANGED <<sessions, cookie>>

-----------------------------------------------------------------------------
(* The server and the network.                                             *)

\* What a request was sent with matters no more once it has an outcome.
Outcome(c, stage, status, token) ==
  call' = [call EXCEPT ![c] = [@ EXCEPT !.stage = stage, !.status = status, !.token = token,
                                        !.cookie = Absent, !.header = Absent]]
Reply(c, status, token) == Outcome(c, "handled", status, token)

\* auth.service.ts: startSession, or a wrong password.
HandleLogin(c) ==
  /\ call[c].op = "login"
  /\ \/ /\ Reply(c, "unauthorized", Absent) /\ UNCHANGED sessions
     \/ \E s \in Sessions \ issued :
          /\ issued' = issued \union {s}
          /\ live' = live \union {s}
          /\ Reply(c, "ok", s)

\* auth.controller.ts, GET csrf.
HandleToken(c) ==
  /\ call[c].op \in {"token", "security"}
  /\ IF call[c].cookie \in live THEN Reply(c, "ok", call[c].cookie)
     ELSE Reply(c, "unauthorized", Absent)
  /\ UNCHANGED sessions

\* jwt.strategy.ts, then csrf.guard.ts, then the handler.
HandleUnsafe(c) ==
  /\ call[c].op \in Unsafe
  /\ \/ /\ call[c].cookie \notin live
        /\ Reply(c, "unauthorized", Absent) /\ UNCHANGED sessions
     \/ /\ call[c].cookie \in live /\ call[c].header # call[c].cookie
        /\ Reply(c, "forbidden", Absent) /\ UNCHANGED sessions
     \/ /\ call[c].cookie \in live /\ call[c].header = call[c].cookie
        /\ Reply(c, "ok", Absent)
        /\ live' = IF call[c].op \in {"logout", "change"} THEN live \ {call[c].cookie} ELSE live
        /\ UNCHANGED issued

Handle(c) ==
  /\ call[c] # Nothing /\ call[c].stage = "sent"
  /\ HandleLogin(c) \/ HandleToken(c) \/ HandleUnsafe(c)
  /\ UNCHANGED <<cookie, csrf, page, overtaken>>

\* A session expires, or a reset or a deactivation ends it.
Revoke(s) ==
  /\ s \in live
  /\ live' = live \ {s}
  /\ UNCHANGED <<issued, cookie, csrf, page, call, overtaken>>

\* The browser applies Set-Cookie.
Arrive(c) ==
  /\ call[c] # Nothing /\ call[c].stage = "handled"
  /\ call' = [call EXCEPT ![c].stage = "arrived"]
  /\ cookie' = IF call[c].status # "ok" THEN cookie
               ELSE IF call[c].op = "login" THEN call[c].token
               ELSE IF call[c].op \in {"logout", "change"} THEN Absent
               ELSE cookie
  /\ UNCHANGED <<sessions, csrf, page, overtaken>>

\* The connection fails before the request or before the answer.
Lose(c) ==
  /\ call[c] # Nothing /\ call[c].stage \in {"sent", "handled"}
  /\ Outcome(c, "arrived", "lost", Absent)
  /\ UNCHANGED <<sessions, cookie, csrf, page, overtaken>>

-----------------------------------------------------------------------------
(* The scripts go on.                                                      *)

Without(c) == [call EXCEPT ![c] = Nothing]

\* login, adminLogin, register and, on its page, fetchSessionSecurity install the
\* token they were given, whatever happened since they asked for it.
AfterLogin(c) ==
  /\ call[c].op = "login"
  /\ IF call[c].status = "ok"
     THEN /\ SetCsrfToken(call[c].token)
          /\ \E to \in {"home", "validating"} : Visit(Outdated(Without(c)), to)
     ELSE call' = Without(c) /\ UNCHANGED <<csrf, page, overtaken>>

AfterSecurity(c) ==
  /\ call[c].op = "security"
  /\ \/ /\ call[c].status = "ok"
        /\ SetCsrfToken(call[c].token)
        /\ \/ /\ call' = Outdated(Without(c))
              /\ page' = IF call[c].mounted THEN "change" ELSE page
           \/ call[c].mounted /\ Visit(Outdated(Without(c)), "home")
     \/ /\ call[c].status = "unauthorized" /\ call[c].mounted
        /\ Visit(Without(c), "login")
        /\ UNCHANGED <<csrf, overtaken>>
     \/ /\ call[c].status = "lost" \/ (call[c].status = "unauthorized" /\ ~call[c].mounted)
        /\ call' = Without(c)
        /\ UNCHANGED <<csrf, page, overtaken>>

AfterSignOut(c) ==
  /\ call[c].op \in {"logout", "change"}
  /\ IF call[c].status = "ok"
     THEN ClearCsrfToken /\ Visit(Outdated(Without(c)), "login")
     ELSE call' = Without(c) /\ UNCHANGED <<csrf, page, overtaken>>

AfterMutation(c) == call[c].op = "mutate" /\ call' = Without(c) /\ UNCHANGED <<csrf, page, overtaken>>

\* A heartbeat answered 401, by the API or by the token request before it.
SignedOut(calls) == ClearCsrfToken /\ Visit(Outdated(calls), "login")

AfterHeartbeat(c) ==
  /\ call[c].op = "heartbeat"
  /\ IF call[c].status = "unauthorized" THEN SignedOut(Without(c))
     ELSE call' = Without(c) /\ UNCHANGED <<csrf, page, overtaken>>

Waiting(c) == {w \in Calls : ~Free(w) /\ call[w].stage = "waiting" /\ call[w].waits = c}

\* The token request is answered: an answer to an older session is not stored.
\* With a bug: it is.
TokenStoredAnyway(c) == csrfToken' = call[c].token /\ overtaken' = FALSE
TokenStored(c) ==
  IF call[c].current THEN csrfToken' = call[c].token /\ overtaken' = FALSE
  ELSE UNCHANGED <<csrfToken, overtaken>>

\* With a bug: only a request that succeeds is forgotten.
TokenRequestForgottenOnSuccess(c) ==
  csrfTokenRequest' =
    IF csrfTokenRequest = c /\ call[c].status = "ok" THEN Absent ELSE csrfTokenRequest
TokenRequestForgotten(c) ==
  csrfTokenRequest' = IF csrfTokenRequest = c THEN Absent ELSE csrfTokenRequest

\* Those who waited send what they are given (an aborted heartbeat sends nothing).
TokenGiven(c) ==
  LET given == IF call[c].current \/ csrfToken = Absent THEN call[c].token ELSE csrfToken IN
    /\ call' = [w \in Calls |->
         IF w = c \/ (w \in Waiting(c) /\ call[w].op = "heartbeat" /\ ~call[w].mounted)
         THEN Nothing
         ELSE IF w \in Waiting(c)
           THEN [call[w] EXCEPT !.stage = "sent", !.waits = Absent, !.cookie = cookie, !.header = given]
         ELSE call[w]]
    /\ TokenStored(c) /\ TokenRequestForgotten(c)
    /\ UNCHANGED page

\* Those who waited fail as it did.
TokenRefused(c) ==
  LET left == [w \in Calls |-> IF w \in Waiting(c) \union {c} THEN Nothing ELSE call[w]] IN
    IF call[c].status = "unauthorized" /\ \E w \in Waiting(c) : call[w].op = "heartbeat"
    THEN SignedOut(left)
    ELSE call' = left /\ TokenRequestForgotten(c) /\ UNCHANGED <<csrfToken, page, overtaken>>

AfterToken(c) ==
  /\ call[c].op = "token"
  /\ IF call[c].status = "ok" THEN TokenGiven(c) ELSE TokenRefused(c)

Continue(c) ==
  /\ call[c] # Nothing /\ call[c].stage = "arrived"
  /\ \/ AfterLogin(c) \/ AfterSecurity(c) \/ AfterSignOut(c) \/ AfterMutation(c)
     \/ AfterHeartbeat(c) \/ AfterToken(c)
  /\ UNCHANGED <<sessions, cookie>>

TabNext ==
  \/ SubmitLogin \/ Heartbeat \/ Mutate \/ Logout \/ ChangePassword
  \/ Reload
  \/ \E to \in Pages : Navigate(to)
  \/ \E s \in Sessions : Revoke(s)
  \/ \E c \in Calls : Handle(c) \/ Arrive(c) \/ Lose(c) \/ Continue(c)

TabSpec == TabInit /\ [][TabNext]_tabVars

-----------------------------------------------------------------------------
\* A request that changes something is sent with a token, or waits for one.
TabTypeOK ==
  /\ live \subseteq issued /\ issued \subseteq Sessions
  /\ cookie \in Sessions \union {Absent}
  /\ csrfToken \in Sessions \union {Absent}
  /\ csrfTokenRequest \in Calls \union {Absent}
  /\ page \in Pages
  /\ overtaken \in BOOLEAN
  /\ \A c \in Calls : ~Free(c) =>
       /\ call[c] \in Call
       /\ (call[c].stage = "waiting") = (call[c].waits # Absent)
       /\ call[c].op \in Unsafe /\ call[c].stage = "sent" => call[c].header # Absent

(***************************************************************************)
(* Once nothing is under way, the token kept in memory, if any, is the one *)
(* of the session the browser is signed in with, unless an answer to a     *)
(* sign-in or to a session check that came too late installed it: token    *)
(* requests, sign-outs, changes of password and refused heartbeats, in any *)
(* order and on whatever page, never leave another one (sessionVersion in  *)
(* csrf.ts).  Nothing else ever replaces a token the API refuses: with     *)
(* another one, whatever the user does is answered 403 until the page is   *)
(* loaded again.  And the token request that callers join is one that will *)
(* be answered: a failed one left there would fail every later change.     *)
(***************************************************************************)
TokenFollowsTheCookie ==
  /\ Quiet /\ cookie \in live /\ csrfToken # Absent /\ ~overtaken => csrfToken = cookie
  /\ csrfTokenRequest # Absent => call[csrfTokenRequest].op = "token"

(***************************************************************************)
(* Not kept by the code (README, "What the code does not keep").           *)
(* An older token request does not overwrite the token of a new login (the *)
(* name of a test in client.spec.ts): whichever of the two requests for    *)
(* /auth/csrf is answered, ensureCsrfToken's or that of the password page, *)
(* a token that is the cookie's stays.                                     *)
(***************************************************************************)
LoginTokenIsKept ==
  [][ \A c \in Calls :
        /\ Continue(c) /\ call[c].op \in {"token", "security"}
        /\ csrfToken = cookie /\ csrfToken # Absent
        => csrfToken' \in {csrfToken, Absent} ]_tabVars

(***************************************************************************)
(* Not kept by the code (README, "What the code does not keep").           *)
(* A heartbeat takes the user to the sign-in only if the browser's session *)
(* is over: someone who has just signed in again stays where they are.      *)
(***************************************************************************)
RedirectsOnlyTheSignedOut ==
  [][ \A c \in Calls :
        (Continue(c) /\ call[c].op \in {"heartbeat", "token"} /\ page # "login" /\ page' = "login")
        => cookie \notin live ]_tabVars
=============================================================================
