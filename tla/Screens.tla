------------------------------- MODULE Screens -------------------------------
(***************************************************************************)
(* What one tab of the web client shows, and to whom: the pages of the     *)
(* participants and of the administrators, the redirections between them,  *)
(* and the answers kept in memory by the query cache (providers.tsx), from *)
(* which every page takes who is signed in (hooks/use-auth.ts).  Several    *)
(* people sign in on the same tab, one after the other; sessions end while *)
(* they work, and an administrator's profile changes.                      *)
(*                                                                         *)
(* The library's part is modelled from the options it is given: an answer  *)
(* kept is refetched when a page that uses it is opened or looked at again  *)
(* more than staleTime after it came; meanwhile it is shown; a refetch that *)
(* fails leaves it there beside the error; it is dropped when no page has   *)
(* used it for a while.  What WebSession tells apart (tokens, requests that *)
(* overtake each other, temporary passwords) is left out: signing in and   *)
(* out are one step.                                                       *)
(***************************************************************************)
EXTENDS Naturals, FiniteSets

CONSTANTS
  Users,       \* participants and administrators
  Typed,       \* addresses somebody types, or loads again (a bound)
  MaxSignIns,  \* bound on the sessions the server opens
  Missing      \* nobody, no session, no answer

\* Sessions by the order in which they were opened.
Sessions == 1 .. MaxSignIns

VARIABLES
  role,        \* server: what each user is; User.adminProfile of an administrator
  owner,       \* server: whose session it is, or Missing
  ended,       \* server: whether a session is over, and how
  signedIn,    \* browser: the session of the cookie
  screen,      \* the page shown
  cached,      \* the query cache: what it keeps under each key
  fetch        \* the query cache: the request under way for each key

accountVars == <<role, owner, ended>>
screenVars == <<accountVars, signedIn, screen, cached, fetch>>

Profiles == {"GENERAL", "SHOP", "ACTIVITIES"}
Kinds == {"PARTICIPANT"} \union Profiles
ParticipantScreens == {"home", "ranking", "lojinha"}
\* ADMIN_AREAS, and the page of one participant.
Areas == {"admin", "participantes", "atividades", "movimentacoes", "codigos",
          "admin/lojinha", "auditoria", "operadores"}
AdminScreens == Areas \union {"participantes/id"}
ScreenNames == {"login"} \union ParticipantScreens \union AdminScreens

ASSUME ScreensAssumption ==
  MaxSignIns \in Nat /\ Typed \subseteq ScreenNames /\ Missing \notin Users \union Sessions

\* The keys ["me"] and ["ranking", period, 10].
Keys == {"me", "ranking"}
Observed(key) == IF key = "me" THEN screen # "login" ELSE screen = "ranking"

\* An answer: to which session, what its user then was; a later error; within staleTime.
Entry == [session : Sessions \union {Missing}, kind : Kinds \union {Missing},
          error : {"none", "unauthorized", "lost"}, fresh : BOOLEAN]
Empty == [session |-> Missing, kind |-> Missing, error |-> "none", fresh |-> FALSE]
NoRequest == [stage |-> "none"]
HasData(key) == cached[key].session # Missing
me == cached["me"]
IsUnauthorized(key) == cached[key].error = "unauthorized"

Live(s) == s # Missing /\ owner[s] # Missing /\ ended[s] = "no"

ScreensInit ==
  /\ role \in [Users -> Kinds]
  /\ owner = [s \in Sessions |-> Missing] /\ ended = [s \in Sessions |-> "no"]
  /\ signedIn = Missing
  /\ screen = "login"
  /\ cached = [key \in Keys |-> Empty] /\ fetch = [key \in Keys |-> NoRequest]

-----------------------------------------------------------------------------
(* features/auth/admin-profile-routes.ts                                    *)

PROFILE_AREA_HREFS ==
  [GENERAL |-> Areas, SHOP |-> {"admin/lojinha"},
   ACTIVITIES |-> {"atividades", "codigos", "participantes"}]
firstAdminRoute ==
  [GENERAL |-> "admin", SHOP |-> "admin/lojinha", ACTIVITIES |-> "atividades"]

\* With a bug: whoever may list the participants may open one.
canAccessAnyChild(profile, area) ==
  IF area = "participantes/id" THEN "participantes" \in PROFILE_AREA_HREFS[profile]
  ELSE area \in PROFILE_AREA_HREFS[profile]
canAccessAdminRoute(profile, area) ==
  IF area = "participantes/id" THEN profile = "GENERAL"
  ELSE area \in PROFILE_AREA_HREFS[profile]

(***************************************************************************)
(* The requests a page makes, or lets its user make, by the controller of  *)
(* the API that answers them.                                              *)
(***************************************************************************)
PageRequests ==
  [admin         |-> {"admin", "presence", "security-metrics"},
   atividades    |-> {"actions"},
   movimentacoes |-> {"admin", "exports"},
   codigos       |-> {"claim-codes", "actions", "exports"},
   auditoria     |-> {"audit"},
   operadores    |-> {"operators"}]

\* participants-client.tsx: an administrator of activities gets the list of those
\* to whom a question may be granted, and no export.
\* With a bug: the same list for everyone.
ListAsGeneral(profile) == {"admin", "actions", "exports"}
ParticipantsRequests(profile) ==
  IF profile = "ACTIVITIES" THEN {"actions"} ELSE {"admin", "actions", "exports"}

Requests(area, profile) ==
  CASE area = "participantes" -> ParticipantsRequests(profile)
    [] area = "participantes/id" -> {"admin", "adjustments", "reconciliation", "audit"}
    [] area = "admin/lojinha" -> {"rewards", "exports"}
    [] OTHER -> PageRequests[area]

\* auth/admin-profiles.guard.ts over the @AdminProfiles of the controller.
Controllers == {"admin", "presence", "security-metrics", "operators", "reconciliation",
                "adjustments", "exports", "audit", "actions", "claim-codes", "rewards"}
Admitted(controller) ==
  CASE controller \in {"actions", "claim-codes"} -> {"GENERAL", "ACTIVITIES"}
    [] controller = "rewards" -> {"GENERAL", "SHOP"}
    [] OTHER -> {"GENERAL"}

-----------------------------------------------------------------------------
(* The query cache.                                                         *)

\* A request for what is not kept drops the error of the one before it; and a page
\* that is opened makes such a request for all it uses.
Remembered(key) == IF HasData(key) THEN cached[key] ELSE Empty
PageOpened == cached' = [key \in Keys |-> Remembered(key)]

\* A page that uses the key is opened, looked at again, or asked to try again.
Fetch(key) ==
  /\ Observed(key) /\ fetch[key] = NoRequest
  /\ ~HasData(key) \/ ~cached[key].fresh
  /\ fetch' = [fetch EXCEPT ![key] = [stage |-> "asked", session |-> signedIn]]
  /\ cached' = [cached EXCEPT ![key] = Remembered(key)]
  /\ UNCHANGED <<accountVars, signedIn, screen>>

\* users.controller.ts, GET me; ranking.controller.ts.  The API answers and the
\* answer is kept: what changes in between is as what changes just after.
Answer(key) ==
  LET s == fetch[key].session IN
    /\ fetch[key] # NoRequest
    /\ cached' = [cached EXCEPT ![key] =
         IF Live(s) THEN [session |-> s, kind |-> IF key = "me" THEN role[owner[s]] ELSE Missing,
                          error |-> "none", fresh |-> TRUE]
         ELSE [@ EXCEPT !.error = "unauthorized", !.fresh = FALSE]]
    /\ fetch' = [fetch EXCEPT ![key] = NoRequest]
    /\ UNCHANGED <<accountVars, signedIn, screen>>

LoseAnswer(key) ==
  /\ fetch[key] # NoRequest
  /\ cached' = [cached EXCEPT ![key] = [@ EXCEPT !.error = "lost", !.fresh = FALSE]]
  /\ fetch' = [fetch EXCEPT ![key] = NoRequest]
  /\ UNCHANGED <<accountVars, signedIn, screen>>

\* staleTime passes; gcTime passes.
Age(key) ==
  /\ cached[key].fresh
  /\ cached' = [cached EXCEPT ![key].fresh = FALSE]
  /\ UNCHANGED <<accountVars, signedIn, screen, fetch>>
Forget(key) ==
  /\ ~Observed(key) /\ fetch[key] = NoRequest /\ cached[key] # Empty /\ ~cached[key].fresh
  /\ cached' = [cached EXCEPT ![key] = Empty]
  /\ UNCHANGED <<accountVars, signedIn, screen, fetch>>

-----------------------------------------------------------------------------
(* The pages.                                                               *)

\* login-form.tsx, admin-login-form.tsx, register-form.tsx: nothing kept is dropped.
SignIn(u) ==
  /\ screen = "login"
  /\ \E s \in Sessions :
       /\ owner[s] = Missing /\ \A before \in 1 .. s - 1 : owner[before] # Missing
       /\ owner' = [owner EXCEPT ![s] = u]
       /\ signedIn' = s
  /\ screen' = IF role[u] = "PARTICIPANT" THEN "home" ELSE firstAdminRoute[role[u]]
  /\ PageOpened
  /\ UNCHANGED <<role, ended, fetch>>

\* Whether the page has a user to show, and of what kind.
UserIs(kinds) == HasData("me") /\ me.kind \in kinds
ShellIsMounted ==
  /\ screen \in ParticipantScreens /\ UserIs({"PARTICIPANT"})
  /\ screen = "lojinha" => me.error = "none"
  /\ screen = "ranking" => HasData("ranking") \/ cached["ranking"].error # "none"
RankingIsShown(kinds) ==
  /\ screen = "ranking" /\ UserIs(kinds) /\ HasData("ranking")
  /\ \A key \in Keys : cached[key].error = "none"
AdminShellIsMounted ==
  screen \in AdminScreens /\ UserIs(Profiles) /\ me.error # "lost"

\* logout-button.tsx.  With a bug: what it keeps of the user stays.
SignOutKeeps == cached' = cached /\ fetch' = fetch
SignOutForgets ==
  cached' = [cached EXCEPT !["me"] = Empty] /\ fetch' = [fetch EXCEPT !["me"] = NoRequest]

SignOut ==
  /\ ShellIsMounted \/ AdminShellIsMounted \/ RankingIsShown(Profiles)
  /\ Live(signedIn)
  /\ ended' = [ended EXCEPT ![signedIn] = "logout"]
  /\ signedIn' = Missing
  /\ SignOutForgets
  /\ screen' = "login"
  /\ UNCHANGED <<role, owner>>

\* use-presence-heartbeat.ts, answered 401.
HeartbeatRefused ==
  /\ ShellIsMounted /\ ~Live(signedIn)
  /\ screen' = "login"
  /\ UNCHANGED <<accountVars, signedIn, cached, fetch>>

\* The links of participant-shell.tsx and admin-shell.tsx.
Links ==
  (IF ShellIsMounted THEN ParticipantScreens ELSE {})
    \union (IF AdminShellIsMounted THEN PROFILE_AREA_HREFS[me.kind] \union {"ranking"} ELSE {})
    \union (IF screen = "participantes" /\ UserIs({"GENERAL"}) THEN {"participantes/id"} ELSE {})
    \union (IF RankingIsShown(Profiles) THEN {"admin"} ELSE {})
Follow(to) ==
  /\ to \in Links /\ to # screen
  /\ screen' = to /\ PageOpened
  /\ UNCHANGED <<accountVars, signedIn, fetch>>

\* An address is typed, or the page loaded again: the scripts start afresh
\* (proxy.ts sends a browser without a cookie to the sign-in).
OpenAddress(to) ==
  /\ screen' = IF signedIn = Missing THEN "login" ELSE to
  /\ cached' = [key \in Keys |-> Empty] /\ fetch' = [key \in Keys |-> NoRequest]
  /\ UNCHANGED <<accountVars, signedIn>>

\* Where the effects of home-client.tsx, ranking-client.tsx, shop-client.tsx and
\* admin-shell.tsx lead.
Redirections ==
  (IF screen # "login" /\ (IsUnauthorized("me") \/ (screen = "ranking" /\ IsUnauthorized("ranking")))
   THEN {"login"} ELSE {})
    \union (IF screen = "home" /\ UserIs(Profiles) THEN {"admin"} ELSE {})
    \union (IF screen = "lojinha" /\ UserIs(Profiles) THEN {"admin/lojinha"} ELSE {})
    \union (IF screen \in AdminScreens /\ UserIs({"PARTICIPANT"}) THEN {"home"} ELSE {})
    \union (IF screen \in AdminScreens /\ UserIs(Profiles) /\ ~canAccessAdminRoute(me.kind, screen)
            THEN {firstAdminRoute[me.kind]} ELSE {})
Redirect(to) ==
  /\ to \in Redirections
  /\ screen' = to /\ PageOpened
  /\ UNCHANGED <<accountVars, signedIn, fetch>>

\* A participant's purchase or redemption succeeds: redeem-code-dialog.tsx and
\* shop-client.tsx have what it changed fetched again.
Spend ==
  /\ screen \in {"home", "lojinha"} /\ ShellIsMounted /\ Live(signedIn)
  /\ LET invalid == IF screen = "home" THEN Keys ELSE {"me"} IN
       /\ cached' = [key \in Keys |->
            IF key \in invalid THEN [cached[key] EXCEPT !.fresh = FALSE] ELSE cached[key]]
       /\ fetch' = [key \in Keys |->
            IF key \in invalid /\ Observed(key) THEN NoRequest ELSE fetch[key]]
  /\ UNCHANGED <<accountVars, signedIn, screen>>

\* What a page under the administrators' shell asks of the API, which reads the
\* session and the profile at once (sessions.service.ts, validate).
IsRefused(controller) ==
  /\ AdminShellIsMounted /\ controller \in Requests(screen, me.kind)
  /\ Live(signedIn) /\ role[owner[signedIn]] \notin Admitted(controller)

-----------------------------------------------------------------------------
(* What others do.                                                          *)

EndSessions(u) ==
  ended' = [s \in Sessions |-> IF owner[s] = u /\ ended[s] = "no" THEN "revoked" ELSE ended[s]]

\* A password reset, a deactivation, or the end of the session's time.
EndFromOutside(u) ==
  /\ \E s \in Sessions : owner[s] = u /\ ended[s] = "no"
  /\ EndSessions(u)
  /\ UNCHANGED <<role, owner, signedIn, screen, cached, fetch>>

\* admin-operators.service.ts, update.  With a bug: the sessions go on.
ChangeProfileOnly(u, profile) ==
  /\ role[u] \in Profiles \ {profile}
  /\ role' = [role EXCEPT ![u] = profile]
  /\ UNCHANGED <<owner, ended, signedIn, screen, cached, fetch>>
ChangeProfile(u, profile) ==
  /\ role[u] \in Profiles \ {profile}
  /\ role' = [role EXCEPT ![u] = profile]
  /\ EndSessions(u)
  /\ UNCHANGED <<owner, signedIn, screen, cached, fetch>>

ScreensNext ==
  \/ \E key \in Keys : Fetch(key) \/ Answer(key) \/ LoseAnswer(key) \/ Age(key) \/ Forget(key)
  \/ \E u \in Users : SignIn(u) \/ EndFromOutside(u) \/ \E profile \in Profiles : ChangeProfile(u, profile)
  \/ \E to \in ScreenNames : Follow(to) \/ Redirect(to)
  \/ \E to \in Typed : OpenAddress(to)
  \/ SignOut \/ HeartbeatRefused \/ Spend

ScreensSpec == ScreensInit /\ [][ScreensNext]_screenVars

-----------------------------------------------------------------------------
ScreensTypeOK ==
  /\ role \in [Users -> Kinds]
  /\ owner \in [Sessions -> Users \union {Missing}]
  /\ ended \in [Sessions -> {"no", "logout", "revoked"}]
  /\ signedIn \in Sessions \union {Missing}
  /\ screen \in ScreenNames
  /\ cached \in [Keys -> Entry]
  /\ fetch \in [Keys -> {NoRequest} \union [stage : {"asked"}, session : Sessions \union {Missing}]]

(***************************************************************************)
(* After someone signs out with the button, no page takes them for the     *)
(* user any more, whoever signs in next, and however late a request made   *)
(* for them is answered: what is kept under ["me"] never came to a session *)
(* that ended so.                                                          *)
(***************************************************************************)
SignedOutAreForgotten == HasData("me") => ended[me.session] # "logout"

(***************************************************************************)
(* A page that the profile of the user it shows may open makes no request  *)
(* the API refuses to that user, whatever changes meanwhile: whoever       *)
(* changes a profile ends its sessions.  The exports of orders and of      *)
(* redeemed codes are the exception: two pages offer them to profiles the  *)
(* API never admits (README, "What the code does not keep").               *)
(***************************************************************************)
Offered == me.error = "none" /\ me.session = signedIn /\ canAccessAdminRoute(me.kind, screen)
KnownRefusal(controller) == controller = "exports" /\ screen \in {"admin/lojinha", "codigos"}
OffersAreAdmitted ==
  \A controller \in Controllers : IsRefused(controller) /\ Offered => KnownRefusal(controller)

(***************************************************************************)
(* Not kept by the code (README).  ranking-client.tsx says of the place it *)
(* shows a participant that it is the participant's own: what is kept      *)
(* under ["ranking", period, 10] came to a session of the same user.       *)
(***************************************************************************)
RankingIsMine ==
  RankingIsShown({"PARTICIPANT"}) /\ me.session = signedIn
    => owner[cached["ranking"].session] = owner[signedIn]

(***************************************************************************)
(* Not kept by the code (README).  The user a page shows is the one who is *)
(* signed in, or one whose session was ended from outside.                 *)
(***************************************************************************)
UserIsTheSignedIn ==
  HasData("me") /\ me.session # signedIn => ended[me.session] = "revoked"

(***************************************************************************)
(* Not kept by the code (README).  Who has signed in stays signed in: only *)
(* the button or the end of the session leads back to the sign-in.         *)
(***************************************************************************)
SignInStands ==
  [][screen # "login" /\ screen' = "login" /\ signedIn' = signedIn => ~Live(signedIn)]_screenVars

\* Not kept by the code (README): the two exports above.
EveryOfferIsAdmitted == \A controller \in Controllers : ~(IsRefused(controller) /\ Offered)
=============================================================================
