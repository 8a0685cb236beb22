------------------------- MODULE AdministrationProofs -------------------------
(***************************************************************************)
(* Proofs about what administrators do and see: the pages of a tab and     *)
(* whom they are shown to (Screens), the panel that adjusts and reconciles *)
(* a participant (OperationPanel), what is recorded of their operations    *)
(* (AuditContract) and the trail of the rows they change (AuditTrail).     *)
(***************************************************************************)
EXTENDS Screens, OperationPanel, AuditTrail, SequenceTheorems, TLAPS

-----------------------------------------------------------------------------
(* The pages.  What is kept of a user is what the user is for as long as   *)
(* the session it came to is live, because a profile changes with its      *)
(* sessions' end; and a session is opened once.                            *)

KindIsOfNow ==
  HasData("me") /\ Live(me.session) =>
    me.kind = role[owner[me.session]]
KeptWasOpened == HasData("me") => owner[me.session] # Missing

ScreensInvariant ==
  ScreensTypeOK /\ KindIsOfNow /\ KeptWasOpened /\ SignedOutAreForgotten

LEMMA ScreensStart ==
  ASSUME ScreensInit
  PROVE  ScreensInvariant
BY ScreensAssumption
   DEF ScreensInit, ScreensInvariant, ScreensTypeOK, KindIsOfNow, KeptWasOpened, SignedOutAreForgotten,
       HasData, me, Empty, Entry, Keys, ScreenNames, NoRequest, Kinds

\* What a page takes for the user is one of the entries, whichever page is opened.
LEMMA EntriesAreKept ==
  ASSUME ScreensTypeOK, NEW key \in Keys
  PROVE  /\ Remembered(key) \in Entry
         /\ Remembered(key).session # Missing
              => cached[key].session # Missing /\ Remembered(key) = cached[key]
BY DEF ScreensTypeOK, Remembered, HasData, Empty, Entry

LEMMA RoutesLeadToScreens ==
  ASSUME NEW profile \in Profiles
  PROVE  firstAdminRoute[profile] \in ScreenNames
<1>1. CASE profile = "GENERAL"
  BY <1>1 DEF firstAdminRoute, ScreenNames, AdminScreens, Areas
<1>2. CASE profile = "SHOP"
  BY <1>2 DEF firstAdminRoute, ScreenNames, AdminScreens, Areas
<1>3. CASE profile = "ACTIVITIES"
  BY <1>3 DEF firstAdminRoute, ScreenNames, AdminScreens, Areas
<1> QED
  BY <1>1, <1>2, <1>3 DEF Profiles


(* The actions, one lemma for each group that changes the same variables.  *)

LEMMA FetchesKeepScreens ==
  ASSUME ScreensInvariant, NEW key \in Keys, Fetch(key) \/ LoseAnswer(key) \/ Age(key) \/ Forget(key)
  PROVE  ScreensInvariant'
<1> USE DEF ScreensInvariant
<1>1. Remembered(key) \in Entry /\ (Remembered(key).session # Missing => Remembered(key) = cached[key])
  BY EntriesAreKept
<1>2. UNCHANGED <<accountVars, signedIn, screen>>
  BY DEF Fetch, LoseAnswer, Age, Forget
<1>3. /\ cached' \in [Keys -> Entry]
      /\ \A k \in Keys : cached'[k].session # Missing =>
           cached'[k].session = cached[k].session /\ cached'[k].kind = cached[k].kind
  <2>1. CASE Fetch(key)
    BY <1>1, <2>1 DEF Fetch, ScreensTypeOK
  <2>2. CASE LoseAnswer(key)
    <3> DEFINE lost == [cached[key] EXCEPT !.error = "lost", !.fresh = FALSE]
    <3>1. cached' = [cached EXCEPT ![key] = lost]
      BY <2>2 DEF LoseAnswer
    <3>2. lost \in Entry /\ lost.session = cached[key].session /\ lost.kind = cached[key].kind
      BY DEF ScreensTypeOK, Entry
    <3> HIDE DEF lost
    <3> QED
      BY <3>1, <3>2 DEF ScreensTypeOK
  <2>3. CASE Age(key)
    BY <2>3 DEF Age, ScreensTypeOK, Entry
  <2>4. CASE Forget(key)
    <3>1. Empty \in Entry /\ Empty.session = Missing
      BY DEF Empty, Entry
    <3> QED
      BY <2>4, <3>1 DEF Forget, ScreensTypeOK
  <2> QED
    BY <2>1, <2>2, <2>3, <2>4
<1>4. fetch' \in [Keys -> {NoRequest} \union [stage : {"asked"}, session : Sessions \union {Missing}]]
  BY DEF Fetch, LoseAnswer, Age, Forget, ScreensTypeOK
<1>5. "me" \in Keys
  BY DEF Keys
<1> QED
  BY <1>2, <1>3, <1>4, <1>5
     DEF ScreensTypeOK, KindIsOfNow, KeptWasOpened, SignedOutAreForgotten, HasData, me, Live, accountVars

LEMMA AnswersKeepScreens ==
  ASSUME ScreensInvariant, NEW key \in Keys, Answer(key)
  PROVE  ScreensInvariant'
<1> USE DEF ScreensInvariant
<1> DEFINE s == fetch[key].session
<1>1. fetch[key] \in [stage : {"asked"}, session : Sessions \union {Missing}]
  BY DEF ScreensTypeOK, Answer
<1>2. UNCHANGED <<accountVars, signedIn, screen>>
  BY DEF Answer
<1>3. fetch' \in [Keys -> {NoRequest} \union [stage : {"asked"}, session : Sessions \union {Missing}]]
  BY DEF Answer, ScreensTypeOK
<1>4. CASE Live(s)
  <2>1. s \in Sessions /\ owner[s] # Missing /\ ended[s] = "no" /\ role[owner[s]] \in Kinds
    BY <1>1, <1>4 DEF Live, ScreensTypeOK
  <2>2. cached' = [cached EXCEPT ![key] =
           [session |-> s, kind |-> IF key = "me" THEN role[owner[s]] ELSE Missing,
            error |-> "none", fresh |-> TRUE]]
    BY <1>4 DEF Answer
  <2>3. cached' \in [Keys -> Entry]
    BY <2>1, <2>2 DEF Entry, ScreensTypeOK
  <2>4. "me" \in Keys
    BY DEF Keys
  <2> QED
    BY <1>2, <1>3, <2>1, <2>2, <2>3, <2>4
       DEF ScreensTypeOK, KindIsOfNow, KeptWasOpened, SignedOutAreForgotten, HasData, me, Live, accountVars
<1>5. CASE ~Live(s)
  <2>1. cached' = [cached EXCEPT ![key] = [@ EXCEPT !.error = "unauthorized", !.fresh = FALSE]]
    BY <1>5 DEF Answer
  <2>2. /\ cached' \in [Keys -> Entry]
        /\ \A k \in Keys : cached'[k].session = cached[k].session /\ cached'[k].kind = cached[k].kind
    BY <2>1 DEF Entry, ScreensTypeOK
  <2>3. "me" \in Keys
    BY DEF Keys
  <2> QED
    BY <1>2, <1>3, <2>2, <2>3
       DEF ScreensTypeOK, KindIsOfNow, KeptWasOpened, SignedOutAreForgotten, HasData, me, Live, accountVars
<1> QED
  BY <1>4, <1>5

\* Opening a page, whichever way, keeps what is known of the user or nothing.
LEMMA PagesKeepEntries ==
  ASSUME ScreensTypeOK, PageOpened
  PROVE  /\ cached' \in [Keys -> Entry]
         /\ cached'["me"].session # Missing => cached'["me"] = cached["me"]
<1>1. \A k \in Keys : Remembered(k) \in Entry /\ (Remembered(k).session # Missing => Remembered(k) = cached[k])
  BY EntriesAreKept
<1> QED
  BY <1>1 DEF PageOpened, Keys

LEMMA SignInsKeepScreens ==
  ASSUME ScreensInvariant, NEW u \in Users, SignIn(u)
  PROVE  ScreensInvariant'
<1> USE DEF ScreensInvariant
<1>1. PICK s \in Sessions :
         owner[s] = Missing /\ owner' = [owner EXCEPT ![s] = u] /\ signedIn' = s
  BY DEF SignIn
<1>2. role' = role /\ ended' = ended /\ fetch' = fetch /\ PageOpened
  BY DEF SignIn
<1>3. cached' \in [Keys -> Entry] /\ (cached'["me"].session # Missing => cached'["me"] = cached["me"])
  BY <1>2, PagesKeepEntries
<1>4. screen' \in ScreenNames
  <2>1. role[u] = "PARTICIPANT" \/ role[u] \in Profiles
    BY DEF ScreensTypeOK, Kinds
  <2>2. "home" \in ScreenNames
    BY DEF ScreenNames, ParticipantScreens
  <2> QED
    BY <2>1, <2>2, RoutesLeadToScreens DEF SignIn
<1>5. ScreensTypeOK'
  BY <1>1, <1>2, <1>3, <1>4 DEF ScreensTypeOK
<1>6. KindIsOfNow' /\ KeptWasOpened' /\ SignedOutAreForgotten'
  BY <1>1, <1>2, <1>3, ScreensAssumption
     DEF ScreensTypeOK, KindIsOfNow, KeptWasOpened, SignedOutAreForgotten, HasData, me, Live
<1> QED
  BY <1>5, <1>6

LEMMA MovesKeepScreens ==
  ASSUME ScreensInvariant,
         NEW to \in ScreenNames, Follow(to) \/ Redirect(to)
  PROVE  ScreensInvariant'
<1> USE DEF ScreensInvariant
<1>1. screen' = to /\ PageOpened /\ UNCHANGED <<accountVars, signedIn, fetch>>
  BY DEF Follow, Redirect
<1>2. cached' \in [Keys -> Entry] /\ (cached'["me"].session # Missing => cached'["me"] = cached["me"])
  BY <1>1, PagesKeepEntries
<1> QED
  BY <1>1, <1>2
     DEF ScreensTypeOK, KindIsOfNow, KeptWasOpened, SignedOutAreForgotten, HasData, me, Live, accountVars

LEMMA AddressesKeepScreens ==
  ASSUME ScreensInvariant, NEW to \in Typed, OpenAddress(to)
  PROVE  ScreensInvariant'
BY ScreensAssumption
   DEF ScreensInvariant, OpenAddress, ScreensTypeOK, KindIsOfNow, KeptWasOpened, SignedOutAreForgotten,
       HasData, me, Live, accountVars, Keys, Entry, Empty, NoRequest, ScreenNames, AdminScreens

\* Signing out ends the session for good, and drops what was kept of its user.
LEMMA SigningOutKeepsScreens ==
  ASSUME ScreensInvariant, SignOut
  PROVE  ScreensInvariant'
<1> USE DEF ScreensInvariant
<1>1. signedIn \in Sessions
  BY DEF SignOut, Live, ScreensTypeOK
<1>2. cached' = [cached EXCEPT !["me"] = Empty] /\ fetch' = [fetch EXCEPT !["me"] = NoRequest]
  BY DEF SignOut, SignOutForgets
<1>3. "me" \in Keys /\ "login" \in ScreenNames /\ Empty \in Entry
  BY DEF Keys, ScreenNames, Empty, Entry
<1>4. cached' \in [Keys -> Entry] /\ cached'["me"] = Empty
  BY <1>2, <1>3 DEF ScreensTypeOK
<1>5. ScreensTypeOK'
  BY <1>1, <1>2, <1>3, <1>4 DEF ScreensTypeOK, SignOut
<1>6. cached'["me"].session = Missing
  BY <1>4 DEF Empty
<1> QED
  BY <1>5, <1>6 DEF KindIsOfNow, KeptWasOpened, SignedOutAreForgotten, HasData, me

LEMMA SpendingKeepsScreens ==
  ASSUME ScreensInvariant, HeartbeatRefused \/ Spend
  PROVE  ScreensInvariant'
<1> USE DEF ScreensInvariant
<1>1. UNCHANGED <<accountVars, signedIn>> /\ screen' \in ScreenNames
  BY DEF HeartbeatRefused, Spend, ScreensTypeOK, ScreenNames
<1>2. /\ cached' \in [Keys -> Entry]
      /\ \A k \in Keys : cached'[k].session = cached[k].session /\ cached'[k].kind = cached[k].kind
  <2>1. CASE HeartbeatRefused
    BY <2>1 DEF HeartbeatRefused, ScreensTypeOK
  <2>2. CASE Spend
    <3> DEFINE invalid == IF screen = "home" THEN Keys ELSE {"me"}
               stale(k) == IF k \in invalid THEN [cached[k] EXCEPT !.fresh = FALSE] ELSE cached[k]
    <3>1. cached' = [k \in Keys |-> stale(k)]
      BY <2>2 DEF Spend
    <3>2. ASSUME NEW k \in Keys
          PROVE  stale(k) \in Entry /\ stale(k).session = cached[k].session /\ stale(k).kind = cached[k].kind
      BY DEF ScreensTypeOK, Entry
    <3> QED
      BY <3>1, <3>2
  <2> QED
    BY <2>1, <2>2
<1>3. fetch' \in [Keys -> {NoRequest} \union [stage : {"asked"}, session : Sessions \union {Missing}]]
  BY DEF HeartbeatRefused, Spend, ScreensTypeOK
<1>4. "me" \in Keys
  BY DEF Keys
<1> QED
  BY <1>1, <1>2, <1>3, <1>4
     DEF ScreensTypeOK, KindIsOfNow, KeptWasOpened, SignedOutAreForgotten, HasData, me, Live, accountVars

\* A session that is ended from outside was neither signed out nor will be, and
\* with a profile end all the sessions it was told to.
LEMMA OutsideKeepsScreens ==
  ASSUME ScreensInvariant, NEW u \in Users,
         EndFromOutside(u) \/ \E profile \in Profiles : ChangeProfile(u, profile)
  PROVE  ScreensInvariant'
<1> USE DEF ScreensInvariant
<1>1. /\ UNCHANGED <<owner, signedIn, screen, cached, fetch>>
      /\ EndSessions(u)
      /\ role' \in [Users -> Kinds]
      /\ \A v \in Users : v # u => role'[v] = role[v]
  BY DEF EndFromOutside, ChangeProfile, Kinds, ScreensTypeOK
<1>2. ended' \in [Sessions -> {"no", "logout", "revoked"}]
  BY <1>1 DEF EndSessions, ScreensTypeOK
<1>3. \A s \in Sessions : /\ ended'[s] = "no" => ended[s] = "no" /\ owner[s] # u
                          /\ ended'[s] = "logout" => ended[s] = "logout"
  BY <1>1 DEF EndSessions, ScreensTypeOK
<1>4. me' = me /\ (HasData("me") => me.session \in Sessions)
  BY <1>1 DEF me, HasData, ScreensTypeOK, Entry, Keys
<1>5. ScreensTypeOK'
  BY <1>1, <1>2 DEF ScreensTypeOK
<1>6. KindIsOfNow' /\ KeptWasOpened' /\ SignedOutAreForgotten'
  BY <1>1, <1>3, <1>4
     DEF KindIsOfNow, KeptWasOpened, SignedOutAreForgotten, HasData, me, Live, ScreensTypeOK
<1> QED
  BY <1>5, <1>6

\* Whatever the users, the sessions and the addresses: the entries of the query
\* cache are answers to sessions that were opened, and tell what their users are
\* as long as they are live.
THEOREM ScreensInvariance == ScreensSpec => []ScreensInvariant
<1>1. ScreensInit => ScreensInvariant
  BY ScreensStart
<1>2. ASSUME ScreensInvariant, [ScreensNext]_screenVars
      PROVE  ScreensInvariant'
  <2>1. CASE UNCHANGED screenVars
    BY <1>2, <2>1
       DEF ScreensInvariant, ScreensTypeOK, KindIsOfNow, KeptWasOpened, SignedOutAreForgotten,
           HasData, me, Live, screenVars, accountVars
  <2>2. CASE ScreensNext
    BY <1>2, <2>2, FetchesKeepScreens, AnswersKeepScreens, SignInsKeepScreens, MovesKeepScreens,
       AddressesKeepScreens, SigningOutKeepsScreens, SpendingKeepsScreens, OutsideKeepsScreens
       DEF ScreensNext
  <2> QED
    BY <1>2, <2>1, <2>2
<1> QED
  BY <1>1, <1>2, PTL DEF ScreensSpec

THEOREM ScreensTypeCorrect == ScreensSpec => []ScreensTypeOK
BY ScreensInvariance, PTL DEF ScreensInvariant

\* After someone signs out with the button no page takes them for the user any
\* more, for any number of users and of sessions on the tab (logout-button.tsx).
THEOREM SignedOutStayForgotten == ScreensSpec => []SignedOutAreForgotten
BY ScreensInvariance, PTL DEF ScreensInvariant


(* What a page offers.  The profiles of the pages and those of the API are *)
(* two tables; a page asks what its own profile may be answered.           *)

LEMMA PagesAskWhatIsAdmitted ==
  ASSUME NEW profile \in Profiles, NEW area \in AdminScreens, NEW controller \in Controllers,
         canAccessAdminRoute(profile, area), controller \in Requests(area, profile)
  PROVE  profile \in Admitted(controller)
         \/ (controller = "exports" /\ area \in {"admin/lojinha", "codigos"})
<1>1. CASE profile = "GENERAL"
  BY <1>1 DEF Admitted, Controllers
<1>2. CASE profile = "SHOP"
  <2>1. area = "admin/lojinha"
    BY <1>2 DEF canAccessAdminRoute, PROFILE_AREA_HREFS
  <2>2. controller \in {"rewards", "exports"}
    BY <2>1 DEF Requests
  <2> QED
    BY <1>2, <2>1, <2>2 DEF Admitted
<1>3. CASE profile = "ACTIVITIES"
  <2>1. area \in {"atividades", "codigos", "participantes"}
    BY <1>3 DEF canAccessAdminRoute, PROFILE_AREA_HREFS
  <2>2. area = "atividades" => controller \in {"actions"}
    BY DEF Requests, PageRequests
  <2>3. area = "codigos" => controller \in {"claim-codes", "actions", "exports"}
    BY DEF Requests, PageRequests
  <2>4. area = "participantes" => controller \in {"actions"}
    BY <1>3 DEF Requests, ParticipantsRequests
  <2> QED
    BY <1>3, <2>1, <2>2, <2>3, <2>4 DEF Admitted
<1> QED
  BY <1>1, <1>2, <1>3 DEF Profiles

LEMMA ScreensImplyOffers ==
  ASSUME ScreensInvariant
  PROVE  OffersAreAdmitted
<1> SUFFICES ASSUME NEW controller \in Controllers, IsRefused(controller), Offered
             PROVE  KnownRefusal(controller)
  BY DEF OffersAreAdmitted
<1>1. /\ screen \in AdminScreens /\ HasData("me") /\ me.kind \in Profiles
      /\ controller \in Requests(screen, me.kind)
      /\ Live(signedIn) /\ role[owner[signedIn]] \notin Admitted(controller)
  BY DEF IsRefused, AdminShellIsMounted, UserIs
<1>2. me.session = signedIn /\ canAccessAdminRoute(me.kind, screen)
  BY DEF Offered
<1>3. me.kind = role[owner[signedIn]]
  BY <1>1, <1>2 DEF ScreensInvariant, KindIsOfNow
<1> QED
  BY <1>1, <1>2, <1>3, PagesAskWhatIsAdmitted DEF KnownRefusal

\* Whatever profiles change while pages are open: a page that its user may open
\* asks the API for nothing the API refuses to that user, but for the exports of
\* two pages (admin-profile-routes.ts, admin-profiles.guard.ts).
THEOREM OffersStayAdmitted == ScreensSpec => []OffersAreAdmitted
BY ScreensInvariance, ScreensImplyOffers, PTL


-----------------------------------------------------------------------------
(* The panel.  A key is generated for a wish and for no other: the life    *)
(* cycle renews its key exactly when the administrator wants something     *)
(* else.  So requests of one key ask the same, and requests of one wish    *)
(* have one key, wherever they are: in a panel, on their way with nobody   *)
(* waiting, or done.                                                       *)

Content(a) == panel[a].request.content
InPanels == {Content(a) : a \in {b \in Admins : Pending(b)}}
AllRequests == {r.request : r \in done} \union stray \union InPanels

Cycle == [key : Key \union {Unset}, fingerprint : Int, renew : BOOLEAN]
Wish == [number : Nat, value : Int, settled : BOOLEAN]
FormContent == [dialog : Ops \union {"none"}, value : Int, prepared : BOOLEAN]
Asked == [stage : {"sent", "answered"}, status : {"none", "ok", "conflict", "refused"}, content : PanelRequest]
Panel == [difference : Int, form : FormContent, request : {NoOne} \union Asked]

PanelTypes ==
  /\ stored \in Nat /\ ledger \in Int
  /\ done \subseteq [request : PanelRequest, delta : Int]
  /\ keys \in 0..MaxKeys
  /\ panel \in [Admins -> Panel]
  /\ lifecycle \in [Admins -> [Ops -> Cycle]]
  /\ wish \in [Admins -> [Ops -> Wish]]
  /\ stray \subseteq PanelRequest

\* A life cycle has a key to use again as long as its wish is not settled.
CyclesFollowWishes ==
  /\ \A a \in Admins, op \in Ops :
       /\ lifecycle[a][op].key # Unset => lifecycle[a][op].key <= keys
       /\ wish[a][op].settled <=> lifecycle[a][op].key = Unset \/ lifecycle[a][op].renew
       /\ ~wish[a][op].settled => lifecycle[a][op].fingerprint = wish[a][op].value
  /\ \A a, b \in Admins : \A op, p \in Ops :
       lifecycle[a][op].key # Unset /\ lifecycle[a][op].key = lifecycle[b][p].key => a = b /\ op = p

SameWish(R, S) == R.admin = S.admin /\ R.op = S.op /\ R.wish = S.wish

RequestsFollowCycles ==
  \A R \in AllRequests :
    /\ R.key <= keys /\ R.wish <= wish[R.admin][R.op].number
    /\ ~wish[R.admin][R.op].settled /\ R.wish = wish[R.admin][R.op].number
         => R.key = lifecycle[R.admin][R.op].key
    /\ \A a \in Admins, op \in Ops :
         lifecycle[a][op].key = R.key =>
           /\ R.admin = a /\ R.op = op
           /\ R.value = lifecycle[a][op].fingerprint /\ R.wish = wish[a][op].number

KeysAreOfWishes ==
  \A R, S \in AllRequests : /\ R.key = S.key => SameWish(R, S) /\ R.value = S.value
                            /\ SameWish(R, S) => R.key = S.key

WaitsForItsKey ==
  \A a \in Admins : Pending(a) =>
    /\ Content(a).admin = a /\ panel[a].form.dialog = Content(a).op
    /\ lifecycle[a][Content(a).op].key = Content(a).key
    /\ ~lifecycle[a][Content(a).op].renew
    /\ panel[a].request.status = "ok" => Used(Content(a).key)

DoneOncePerKey ==
  /\ \A r, s \in done : r.request.key = s.request.key => r = s
  /\ \A r \in done : r.request.op = "confirm" => r.delta = r.request.value

\* Nothing changes a divergence but to zero.
ReviewedIsTheDivergence ==
  Difference # 0 =>
    /\ \A a \in Admins : panel[a].difference = Difference
    /\ \A R \in stray \union InPanels : R.op = "confirm" => R.value = Difference

PanelInvariant ==
  /\ PanelTypes /\ CyclesFollowWishes /\ RequestsFollowCycles /\ KeysAreOfWishes
  /\ WaitsForItsKey /\ DoneOncePerKey /\ ReviewedIsTheDivergence

LEMMA RequestsAreTyped ==
  ASSUME PanelTypes
  PROVE  /\ AllRequests \subseteq PanelRequest
         /\ \A a \in Admins : Pending(a) =>
              panel[a].request \in Asked /\ Content(a) \in InPanels /\ Content(a) \in AllRequests
BY DEF PanelTypes, AllRequests, InPanels, Content, Pending, Panel, Asked

\* What the invariant says, once it holds.
LEMMA PanelImplies ==
  ASSUME PanelInvariant
  PROVE  PanelTypeOK /\ OperationsAreAsWished
<1> USE DEF PanelInvariant
<1>1. PanelTypeOK
  BY RequestsAreTyped DEF PanelTypeOK, PanelTypes, Panel, FormContent, Asked, Form, Content, WaitsForItsKey, PanelRequest
<1>2. \A r \in done : r.request \in AllRequests
  BY DEF AllRequests
<1>3. OncePerWish
  <2> SUFFICES ASSUME NEW r \in done, NEW s \in done, SameWish(r.request, s.request)
               PROVE  r = s
    BY DEF OncePerWish, SameWish
  <2>1. r.request.key = s.request.key
    BY <1>2 DEF KeysAreOfWishes
  <2> QED
    BY <2>1 DEF DoneOncePerKey
<1>4. SuccessMeansDone
  <2> SUFFICES ASSUME NEW a \in Admins, Pending(a), panel[a].request.status = "ok"
               PROVE  \E r \in done : /\ r.request.admin = a /\ r.request.op = Content(a).op
                                      /\ r.request.wish = Content(a).wish /\ r.request.value = Content(a).value
    BY DEF SuccessMeansDone, Content
  <2>1. PICK r \in done : r.request.key = Content(a).key
    BY DEF WaitsForItsKey, Used
  <2>2. SameWish(r.request, Content(a)) /\ r.request.value = Content(a).value
    BY <1>2, <2>1, RequestsAreTyped DEF KeysAreOfWishes
  <2> QED
    BY <2>2 DEF SameWish, WaitsForItsKey
<1>5. PostsWhatWasReviewed
  BY DEF PostsWhatWasReviewed, DoneOncePerKey
<1> QED
  BY <1>1, <1>3, <1>4, <1>5 DEF OperationsAreAsWished

LEMMA PanelStarts ==
  ASSUME PanelInit
  PROVE  PanelInvariant
<1>1. PICK o \in Openings : stored = o.stored /\ ledger = o.ledger
  BY DEF PanelInit
<1>2. stored \in Nat /\ ledger \in Int
  BY <1>1, OpeningsAssumption
<1>3. \A a \in Admins : panel[a].request = NoOne /\ panel[a].difference = Difference
  BY DEF PanelInit, AtRest
<1>4. InPanels = {} /\ AllRequests = {}
  BY <1>3 DEF InPanels, AllRequests, Pending, PanelInit
<1>5. PanelTypes
  BY <1>2, BoundsAssumption
     DEF PanelTypes, PanelInit, AtRest, Panel, FormContent, Closed, Cycle, Fresh, Wish, Difference, Ops
<1>6. CyclesFollowWishes
  BY DEF CyclesFollowWishes, PanelInit, Fresh
<1> QED
  BY <1>3, <1>4, <1>5, <1>6
     DEF PanelInvariant, RequestsFollowCycles, KeysAreOfWishes, WaitsForItsKey, DoneOncePerKey,
         ReviewedIsTheDivergence, Pending, PanelInit

\* Fewer requests, under life cycles and wishes that stay, follow them still.
LEMMA FewerRequestsFollow ==
  ASSUME RequestsFollowCycles, KeysAreOfWishes, AllRequests' \subseteq AllRequests,
         UNCHANGED <<keys, lifecycle, wish>>
  PROVE  RequestsFollowCycles' /\ KeysAreOfWishes'
BY DEF RequestsFollowCycles, KeysAreOfWishes, SameWish


\* What panels wait for, when no request changes.
LEMMA RequestsStay ==
  ASSUME \A a \in Admins : panel'[a].request = panel[a].request,
         done' = done, stray' = stray
  PROVE  /\ \A a \in Admins : Pending(a)' = Pending(a) /\ Content(a)' = Content(a)
         /\ InPanels' = InPanels /\ AllRequests' = AllRequests
BY DEF Pending, Content, InPanels, AllRequests

\* What an administrator does to a form changes no request, and what is shown of
\* the divergence only to what it is.
LEMMA FormsKeepPanel ==
  ASSUME PanelInvariant, NEW a \in Admins,
         Refetch(a) \/ OpenPanel(a) \/ ClosePanel(a) \/ \E delta \in Deltas : Edit(a, delta)
  PROVE  PanelInvariant'
<1> USE DEF PanelInvariant
<1>1. UNCHANGED <<stored, ledger, done, keys, lifecycle, wish, stray>>
  BY DEF Refetch, OpenPanel, ClosePanel, Edit, ledgers
<1>2. /\ panel[a] \in Panel /\ Difference \in Int
      /\ \E shown \in {panel[a].difference, Difference}, form \in FormContent :
           /\ panel' = [panel EXCEPT ![a] = [panel[a] EXCEPT !.difference = shown, !.form = form]]
           /\ Pending(a) => form.dialog = panel[a].form.dialog
  <2>1. panel[a] \in Panel /\ Difference \in Int /\ panel[a].form \in FormContent
    BY DEF PanelTypes, Panel, Difference
  <2>2. CASE Refetch(a)
    <3>1. panel' = [panel EXCEPT ![a] = [panel[a] EXCEPT !.difference = Difference]]
      BY <2>2 DEF Refetch
    <3>2. [panel[a] EXCEPT !.difference = Difference]
            = [panel[a] EXCEPT !.difference = Difference, !.form = panel[a].form]
      BY <2>1 DEF Panel
    <3> QED
      BY <2>1, <3>1, <3>2
  <2>3. ASSUME NEW form \in FormContent, panel' = [panel EXCEPT ![a] = [panel[a] EXCEPT !.form = form]]
        PROVE  panel' = [panel EXCEPT ![a] =
                 [panel[a] EXCEPT !.difference = panel[a].difference, !.form = form]]
    <3>1. [panel[a] EXCEPT !.form = form]
            = [panel[a] EXCEPT !.difference = panel[a].difference, !.form = form]
      BY <2>1 DEF Panel
    <3> QED
      BY <2>3, <3>1
  <2>4. CASE OpenPanel(a)
    <3>1. PICK form \in OpenForms(a) : panel' = [panel EXCEPT ![a].form = form]
      BY <2>4 DEF OpenPanel
    <3>2. form \in FormContent
      <4>1. panel[a].difference \in Int /\ -panel[a].difference \in Int
        BY <2>1 DEF Panel
      <4>2. CASE form = [dialog |-> "adjust", value |-> -panel[a].difference, prepared |-> TRUE]
        BY <4>1, <4>2 DEF FormContent, Ops
      <4>3. CASE form = [dialog |-> "confirm", value |-> 0, prepared |-> FALSE]
        BY <4>3 DEF FormContent, Ops
      <4>4. CASE form = [dialog |-> "adjust", value |-> 0, prepared |-> FALSE]
        BY <4>4 DEF FormContent, Ops
      <4> QED
        BY <4>2, <4>3, <4>4, <3>1 DEF OpenForms
    <3>3. ~Pending(a)
      BY <2>4, RequestsAreTyped DEF OpenPanel, WaitsForItsKey, Form, PanelRequest, Ops
    <3>4. panel' = [panel EXCEPT ![a] = [panel[a] EXCEPT !.form = form]]
      BY <3>1
    <3> QED
      BY <2>1, <2>3, <3>2, <3>3, <3>4
  <2>5. CASE ClosePanel(a)
    <3>1. Closed \in FormContent
      BY DEF Closed, FormContent
    <3>2. panel' = [panel EXCEPT ![a] = [panel[a] EXCEPT !.form = Closed]] /\ ~Pending(a)
      BY <2>5 DEF ClosePanel
    <3> QED
      BY <2>1, <2>3, <3>1, <3>2
  <2>6. CASE \E delta \in Deltas : Edit(a, delta)
    <3>1. PICK delta \in Deltas : Edit(a, delta)
      BY <2>6
    <3> DEFINE form == [panel[a].form EXCEPT !.value = delta, !.prepared = FALSE]
    <3>2. form \in FormContent
      BY <2>1, DeltasAssumption DEF FormContent
    <3>3. panel' = [panel EXCEPT ![a] = [panel[a] EXCEPT !.form = form]] /\ ~Pending(a)
      BY <3>1 DEF Edit
    <3> HIDE DEF form
    <3> QED
      BY <2>1, <2>3, <3>2, <3>3
  <2> QED
    BY <2>1, <2>2, <2>4, <2>5, <2>6
<1>3. PICK shown \in {panel[a].difference, Difference}, form \in FormContent :
        /\ panel' = [panel EXCEPT ![a] = [panel[a] EXCEPT !.difference = shown, !.form = form]]
        /\ Pending(a) => form.dialog = panel[a].form.dialog
  BY <1>2
<1>4. panel' \in [Admins -> Panel]
  BY <1>2, <1>3 DEF PanelTypes, Panel
<1>5. \A b \in Admins :
        /\ panel'[b].request = panel[b].request
        /\ panel'[b].difference \in {panel[b].difference, Difference}
        /\ Pending(b) => panel'[b].form.dialog = panel[b].form.dialog
  BY <1>2, <1>3 DEF PanelTypes, Panel
<1>6. /\ \A b \in Admins : Pending(b)' = Pending(b) /\ Content(b)' = Content(b)
      /\ InPanels' = InPanels /\ AllRequests' = AllRequests
  BY <1>1, <1>5, RequestsStay
<1>7. PanelTypes' /\ CyclesFollowWishes' /\ DoneOncePerKey'
  BY <1>1, <1>4 DEF PanelTypes, CyclesFollowWishes, DoneOncePerKey
<1>8. RequestsFollowCycles' /\ KeysAreOfWishes'
  BY <1>1, <1>6, FewerRequestsFollow
<1>9. WaitsForItsKey'
  BY <1>1, <1>5, <1>6 DEF WaitsForItsKey, Used
<1>10. ReviewedIsTheDivergence'
  BY <1>1, <1>5, <1>6 DEF ReviewedIsTheDivergence, Difference
<1> QED
  BY <1>7, <1>8, <1>9, <1>10

\* The rest of the API keeps a divergence as it is.
LEMMA MovesKeepPanel ==
  ASSUME PanelInvariant, NEW gain \in Gains, Move(gain)
  PROVE  PanelInvariant'
<1> USE DEF PanelInvariant
<1>1. UNCHANGED <<done, keys, panel, lifecycle, wish, stray>>
  BY DEF Move
<1>2. stored' \in Nat /\ ledger' \in Int /\ Difference' = Difference
  BY GainsAssumption, BoundsAssumption DEF Move, PanelTypes, Difference
<1>3. /\ \A b \in Admins : Pending(b)' = Pending(b) /\ Content(b)' = Content(b)
      /\ InPanels' = InPanels /\ AllRequests' = AllRequests
  BY <1>1, RequestsStay
<1>4. PanelTypes' /\ CyclesFollowWishes' /\ DoneOncePerKey'
  BY <1>1, <1>2 DEF PanelTypes, CyclesFollowWishes, DoneOncePerKey
<1>5. RequestsFollowCycles' /\ KeysAreOfWishes'
  BY <1>1, <1>3, FewerRequestsFollow
<1>6. WaitsForItsKey' /\ ReviewedIsTheDivergence'
  BY <1>1, <1>2, <1>3 DEF WaitsForItsKey, Used, ReviewedIsTheDivergence
<1> QED
  BY <1>4, <1>5, <1>6

\* A panel that stops waiting: its life cycles and wishes may be settled, and its
\* request may go on with nobody waiting.
LEMMA FewerWait ==
  ASSUME PanelInvariant, NEW a \in Admins,
         UNCHANGED <<stored, ledger, done, keys>>,
         stray' = stray \/ (Pending(a) /\ stray' = stray \union {Content(a)}),
         NEW form \in FormContent, NEW shown \in {panel[a].difference, Difference},
         panel' = [panel EXCEPT ![a] = [difference |-> shown, form |-> form, request |-> NoOne]]
  PROVE  /\ stray' \subseteq PanelRequest /\ panel' \in [Admins -> Panel]
         /\ AllRequests' \subseteq AllRequests
         /\ \A b \in Admins : Pending(b)' => b # a /\ panel'[b] = panel[b] /\ Pending(b) /\ Content(b)' = Content(b)
         /\ ReviewedIsTheDivergence' /\ DoneOncePerKey'
<1> USE DEF PanelInvariant
<1>1. \A b \in Admins : b # a => panel'[b] = panel[b]
  BY DEF PanelTypes
<1>2. panel'[a] = [difference |-> shown, form |-> form, request |-> NoOne]
  BY DEF PanelTypes
<1>3. \A b \in Admins : Pending(b)' => b # a /\ panel'[b] = panel[b] /\ Pending(b) /\ Content(b)' = Content(b)
  BY <1>1, <1>2 DEF Pending, Content
<1>4. stray' \subseteq PanelRequest /\ panel' \in [Admins -> Panel]
  BY RequestsAreTyped DEF PanelTypes, Panel, Difference
<1>5. InPanels' \subseteq InPanels
  BY <1>3 DEF InPanels
<1>6. stray' \union InPanels' \subseteq stray \union InPanels
  BY <1>5 DEF InPanels
<1>7. AllRequests' \subseteq AllRequests
  BY <1>6 DEF AllRequests
<1>8. ReviewedIsTheDivergence'
  BY <1>1, <1>2, <1>6 DEF ReviewedIsTheDivergence, Difference
<1> QED
  BY <1>3, <1>4, <1>7, <1>8 DEF DoneOncePerKey


\* A wish that is settled, or a life cycle that is begun afresh, asks for less.
LEMMA SettledRequestsFollow ==
  ASSUME PanelTypes, RequestsFollowCycles, KeysAreOfWishes, AllRequests' \subseteq AllRequests, keys' = keys,
         \A a \in Admins, op \in Ops :
           /\ wish'[a][op].number = wish[a][op].number
           /\ ~wish'[a][op].settled =>
                ~wish[a][op].settled /\ lifecycle'[a][op].key = lifecycle[a][op].key
           /\ lifecycle'[a][op].key # Unset =>
                /\ lifecycle'[a][op].key = lifecycle[a][op].key
                /\ lifecycle'[a][op].fingerprint = lifecycle[a][op].fingerprint
  PROVE  RequestsFollowCycles' /\ KeysAreOfWishes'
<1>1. KeysAreOfWishes'
  BY DEF KeysAreOfWishes, SameWish
<1>2. \A R \in AllRequests' : R \in AllRequests /\ R \in PanelRequest /\ R.key # Unset /\ R.admin \in Admins /\ R.op \in Ops
  BY RequestsAreTyped, UnsetAssumption DEF PanelRequest, Key
<1>3. RequestsFollowCycles'
  BY <1>2 DEF RequestsFollowCycles
<1> QED
  BY <1>1, <1>3

\* The answer settles a wish exactly when it renews the key.
LEMMA SettlingKeepsPanel ==
  ASSUME PanelInvariant, NEW a \in Admins, Settle(a)
  PROVE  PanelInvariant'
<1> USE DEF PanelInvariant
<1> DEFINE op == Content(a).op
           status == panel[a].request.status
           answered == status \in {"ok", "conflict"}
<1>1. /\ Pending(a) /\ UNCHANGED <<stored, ledger, done, keys, stray>>
      /\ op \in Ops /\ panel[a] \in Panel /\ lifecycle[a][op].key # Unset /\ ~lifecycle[a][op].renew
      /\ lifecycle[a][op] \in Cycle /\ wish[a][op] \in Wish
  <2>1. Pending(a) /\ Content(a) \in PanelRequest
    BY RequestsAreTyped DEF Settle
  <2>2. op \in Ops /\ Content(a).key # Unset
    BY <2>1, UnsetAssumption DEF PanelRequest, Key
  <2> QED
    BY <2>1, <2>2 DEF Settle, ledgers, WaitsForItsKey, PanelTypes
<1>2. ~wish[a][op].settled
  BY <1>1 DEF CyclesFollowWishes
<1>3. lifecycle' = [lifecycle EXCEPT ![a][op] = Renewed(lifecycle[a][op], status)]
  BY DEF Settle, Content
<1>4. wish' = [wish EXCEPT ![a][op].settled = answered]
  BY DEF Settle, Content
<1> DEFINE cycle == Renewed(lifecycle[a][op], status)
<1>5. cycle \in Cycle /\ cycle.key = lifecycle[a][op].key
      /\ cycle.fingerprint = lifecycle[a][op].fingerprint /\ (cycle.renew <=> answered)
  <2> DEFINE renew == lifecycle[a][op].renew \/ answered
  <2>1. renew \in BOOLEAN /\ (renew <=> answered)
    BY <1>1
  <2>2. cycle = [lifecycle[a][op] EXCEPT !.renew = renew]
    BY DEF Renewed
  <2> HIDE DEF renew, answered, cycle
  <2> QED
    BY <1>1, <2>1, <2>2 DEF Cycle
<1>6. /\ lifecycle' \in [Admins -> [Ops -> Cycle]] /\ lifecycle'[a][op] = cycle
      /\ \A b \in Admins, p \in Ops : b # a \/ p # op => lifecycle'[b][p] = lifecycle[b][p]
  BY <1>1, <1>3, <1>5 DEF PanelTypes
<1>7. /\ wish' \in [Admins -> [Ops -> Wish]]
      /\ wish'[a][op] = [wish[a][op] EXCEPT !.settled = answered]
      /\ \A b \in Admins, p \in Ops : b # a \/ p # op => wish'[b][p] = wish[b][p]
  <2>0. answered \in BOOLEAN
    OBVIOUS
  <2> HIDE DEF answered
  <2>1. [wish[a][op] EXCEPT !.settled = answered] \in Wish
    BY <1>1, <2>0 DEF Wish
  <2> QED
    BY <1>1, <1>4, <2>1 DEF PanelTypes
<1>8. /\ wish'[a][op].number = wish[a][op].number /\ wish'[a][op].value = wish[a][op].value
      /\ (wish'[a][op].settled <=> answered)
  <2>0. answered \in BOOLEAN
    OBVIOUS
  <2> HIDE DEF answered
  <2> QED
    BY <1>1, <1>7, <2>0 DEF Wish
<1>9. \E form \in FormContent, shown \in {panel[a].difference, Difference} :
        panel' = [panel EXCEPT ![a] = [difference |-> shown, form |-> form, request |-> NoOne]]
  <2>1. CASE status = "ok"
    <3>1. panel' = [panel EXCEPT ![a] = AtRest]
      BY <2>1 DEF Settle
    <3>2. AtRest = [difference |-> Difference, form |-> Closed, request |-> NoOne]
      BY DEF AtRest
    <3>3. Closed \in FormContent
      BY DEF Closed, FormContent
    <3> QED
      BY <3>1, <3>2, <3>3
  <2>2. CASE status # "ok"
    <3>1. panel' = [panel EXCEPT ![a] = [panel[a] EXCEPT !.request = NoOne]]
      BY <2>2 DEF Settle
    <3>2. [panel[a] EXCEPT !.request = NoOne]
            = [difference |-> panel[a].difference, form |-> panel[a].form, request |-> NoOne]
      BY <1>1 DEF Panel
    <3>3. panel[a].form \in FormContent
      BY <1>1 DEF Panel
    <3> QED
      BY <3>1, <3>2, <3>3
  <2> QED
    BY <2>1, <2>2
<1>10. /\ stray' \subseteq PanelRequest /\ panel' \in [Admins -> Panel]
       /\ AllRequests' \subseteq AllRequests
       /\ \A b \in Admins : Pending(b)' => b # a /\ panel'[b] = panel[b] /\ Pending(b) /\ Content(b)' = Content(b)
       /\ ReviewedIsTheDivergence' /\ DoneOncePerKey'
  BY <1>1, <1>9, FewerWait
<1>11. PanelTypes'
  BY <1>1, <1>6, <1>7, <1>10 DEF PanelTypes
<1>12. CyclesFollowWishes'
  <2>1. \A b \in Admins, p \in Ops :
          lifecycle'[b][p].key = lifecycle[b][p].key /\ lifecycle'[b][p].fingerprint = lifecycle[b][p].fingerprint
    BY <1>5, <1>6
  <2>2. wish'[a][op].settled <=> lifecycle'[a][op].key = Unset \/ lifecycle'[a][op].renew
    BY <1>1, <1>5, <1>6, <1>8
  <2> HIDE DEF op, answered, cycle
  <2>3. ASSUME NEW b \in Admins, NEW p \in Ops
        PROVE  /\ lifecycle'[b][p].key # Unset => lifecycle'[b][p].key <= keys'
               /\ wish'[b][p].settled <=> lifecycle'[b][p].key = Unset \/ lifecycle'[b][p].renew
               /\ ~wish'[b][p].settled => lifecycle'[b][p].fingerprint = wish'[b][p].value
    <3>1. CASE b = a /\ p = op
      BY <1>1, <1>2, <1>8, <2>1, <2>2, <3>1 DEF CyclesFollowWishes
    <3>2. CASE b # a \/ p # op
      <4>1. lifecycle'[b][p] = lifecycle[b][p] /\ wish'[b][p] = wish[b][p] /\ keys' = keys
        BY <1>1, <1>6, <1>7, <3>2
      <4> QED
        BY <4>1 DEF CyclesFollowWishes
    <3> QED
      BY <3>1, <3>2
  <2>4. \A b, c \in Admins : \A p, q \in Ops :
          lifecycle'[b][p].key # Unset /\ lifecycle'[b][p].key = lifecycle'[c][q].key => b = c /\ p = q
    BY <2>1 DEF CyclesFollowWishes
  <2> QED
    BY <2>3, <2>4 DEF CyclesFollowWishes
<1>13. RequestsFollowCycles' /\ KeysAreOfWishes'
  <2> HIDE DEF op, answered, cycle
  <2>1. \A b \in Admins, p \in Ops :
           /\ wish'[b][p].number = wish[b][p].number
           /\ ~wish'[b][p].settled =>
                ~wish[b][p].settled /\ lifecycle'[b][p].key = lifecycle[b][p].key
           /\ lifecycle'[b][p].key # Unset =>
                /\ lifecycle'[b][p].key = lifecycle[b][p].key
                /\ lifecycle'[b][p].fingerprint = lifecycle[b][p].fingerprint
    <3> SUFFICES ASSUME NEW b \in Admins, NEW p \in Ops
                 PROVE  /\ wish'[b][p].number = wish[b][p].number
                        /\ ~wish'[b][p].settled =>
                             ~wish[b][p].settled /\ lifecycle'[b][p].key = lifecycle[b][p].key
                        /\ lifecycle'[b][p].key # Unset =>
                             /\ lifecycle'[b][p].key = lifecycle[b][p].key
                             /\ lifecycle'[b][p].fingerprint = lifecycle[b][p].fingerprint
      OBVIOUS
    <3>1. CASE b = a /\ p = op
      BY <1>2, <1>5, <1>6, <1>8, <3>1
    <3>2. CASE b # a \/ p # op
      BY <1>6, <1>7, <3>2
    <3> QED
      BY <3>1, <3>2
  <2> QED
    BY <1>1, <1>10, <2>1, SettledRequestsFollow
<1>14. WaitsForItsKey'
  <2>1. \A b \in Admins : Pending(b)' => Content(b).op \in Ops
    BY <1>10, RequestsAreTyped DEF PanelRequest
  <2> QED
    BY <1>1, <1>6, <1>10, <2>1 DEF WaitsForItsKey, Used
<1> QED
  BY <1>10, <1>11, <1>12, <1>13, <1>14


\* A connection that fails tells nothing: the wish and its key stay.
LEMMA FailuresKeepPanel ==
  ASSUME PanelInvariant, NEW a \in Admins, ConnectionFails(a)
  PROVE  PanelInvariant'
<1> USE DEF PanelInvariant
<1> DEFINE op == Content(a).op
<1>1. /\ Pending(a) /\ UNCHANGED <<stored, ledger, done, keys, wish>>
      /\ op \in Ops /\ panel[a] \in Panel /\ lifecycle[a][op] \in Cycle
  <2>1. Pending(a) /\ Content(a) \in PanelRequest
    BY RequestsAreTyped DEF ConnectionFails
  <2>2. op \in Ops
    BY <2>1 DEF PanelRequest
  <2> QED
    BY <2>1, <2>2 DEF ConnectionFails, ledgers, PanelTypes
<1>2. stray' = stray \/ stray' = stray \union {Content(a)}
  BY DEF ConnectionFails, Content
<1>3. lifecycle' = lifecycle
  <2>1. lifecycle' = [lifecycle EXCEPT ![a][op] = Renewed(lifecycle[a][op], "failed")]
    BY DEF ConnectionFails, Content
  <2>2. Renewed(lifecycle[a][op], "failed") = lifecycle[a][op]
    <3> DEFINE renew == lifecycle[a][op].renew \/ "failed" \in {"ok", "conflict"}
    <3>1. renew = lifecycle[a][op].renew
      BY <1>1 DEF Cycle
    <3>2. Renewed(lifecycle[a][op], "failed") = [lifecycle[a][op] EXCEPT !.renew = renew]
      BY DEF Renewed
    <3> HIDE DEF renew, op
    <3> QED
      BY <1>1, <3>1, <3>2 DEF Cycle
  <2> HIDE DEF op
  <2> QED
    BY <1>1, <2>1, <2>2 DEF PanelTypes
<1>4. panel[a].form \in FormContent
      /\ panel' = [panel EXCEPT ![a] =
           [difference |-> panel[a].difference, form |-> panel[a].form, request |-> NoOne]]
  <2>1. panel' = [panel EXCEPT ![a] = [panel[a] EXCEPT !.request = NoOne]]
    BY DEF ConnectionFails
  <2>2. [panel[a] EXCEPT !.request = NoOne]
          = [difference |-> panel[a].difference, form |-> panel[a].form, request |-> NoOne]
    BY <1>1 DEF Panel
  <2> QED
    BY <1>1, <2>1, <2>2 DEF Panel
<1>5. /\ stray' \subseteq PanelRequest /\ panel' \in [Admins -> Panel]
      /\ AllRequests' \subseteq AllRequests
      /\ \A b \in Admins : Pending(b)' => b # a /\ panel'[b] = panel[b] /\ Pending(b) /\ Content(b)' = Content(b)
      /\ ReviewedIsTheDivergence' /\ DoneOncePerKey'
  BY <1>1, <1>2, <1>4, FewerWait
<1>6. PanelTypes' /\ CyclesFollowWishes'
  BY <1>1, <1>3, <1>5 DEF PanelTypes, CyclesFollowWishes
<1>7. RequestsFollowCycles' /\ KeysAreOfWishes'
  BY <1>1, <1>3, <1>5, FewerRequestsFollow
<1>8. WaitsForItsKey'
  BY <1>1, <1>3, <1>5 DEF WaitsForItsKey, Used
<1> QED
  BY <1>5, <1>6, <1>7, <1>8

\* A page that is left forgets its keys, and its administrator what was wanted.
LEMMA RemountsKeepPanel ==
  ASSUME PanelInvariant, NEW a \in Admins, Remount(a)
  PROVE  PanelInvariant'
<1> USE DEF PanelInvariant
<1>1. UNCHANGED <<stored, ledger, done, keys>>
  BY DEF Remount, ledgers
<1>2. stray' = stray \/ (Pending(a) /\ stray' = stray \union {Content(a)})
  BY DEF Remount, Content
<1>3. Closed \in FormContent
      /\ panel' = [panel EXCEPT ![a] = [difference |-> Difference, form |-> Closed, request |-> NoOne]]
  BY DEF Remount, AtRest, Closed, FormContent
<1>4. /\ stray' \subseteq PanelRequest /\ panel' \in [Admins -> Panel]
      /\ AllRequests' \subseteq AllRequests
      /\ \A b \in Admins : Pending(b)' => b # a /\ panel'[b] = panel[b] /\ Pending(b) /\ Content(b)' = Content(b)
      /\ ReviewedIsTheDivergence' /\ DoneOncePerKey'
  BY <1>1, <1>2, <1>3, FewerWait
<1>5. /\ lifecycle' \in [Admins -> [Ops -> Cycle]]
      /\ \A op \in Ops : lifecycle'[a][op].key = Unset
      /\ \A b \in Admins : b # a => lifecycle'[b] = lifecycle[b]
  <2>1. Fresh \in Cycle /\ Fresh.key = Unset
    BY DEF Fresh, Cycle
  <2> QED
    BY <2>1 DEF Remount, PanelTypes
<1>6. /\ wish' \in [Admins -> [Ops -> Wish]]
      /\ \A op \in Ops : wish'[a][op].number = wish[a][op].number /\ wish'[a][op].settled
      /\ \A b \in Admins : b # a => wish'[b] = wish[b]
  <2> DEFINE settled(op) == [wish[a][op] EXCEPT !.settled = TRUE]
  <2>1. \A op \in Ops : settled(op) \in Wish /\ settled(op).number = wish[a][op].number /\ settled(op).settled
    <3> SUFFICES ASSUME NEW op \in Ops
                 PROVE  settled(op) \in Wish /\ settled(op).number = wish[a][op].number /\ settled(op).settled
      OBVIOUS
    <3>1. wish[a][op] \in Wish
      BY DEF PanelTypes
    <3> QED
      BY <3>1 DEF Wish
  <2>2. wish' = [wish EXCEPT ![a] = [op \in Ops |-> settled(op)]]
    BY DEF Remount
  <2> HIDE DEF settled
  <2> QED
    BY <2>1, <2>2 DEF PanelTypes
<1>7. PanelTypes'
  BY <1>1, <1>4, <1>5, <1>6 DEF PanelTypes
<1>8. CyclesFollowWishes'
  <2>1. ASSUME NEW b \in Admins, NEW op \in Ops
        PROVE  /\ lifecycle'[b][op].key # Unset => lifecycle'[b][op].key <= keys'
               /\ wish'[b][op].settled <=> lifecycle'[b][op].key = Unset \/ lifecycle'[b][op].renew
               /\ ~wish'[b][op].settled => lifecycle'[b][op].fingerprint = wish'[b][op].value
    <3>1. CASE b = a
      BY <1>5, <1>6, <3>1
    <3>2. CASE b # a
      <4>1. lifecycle'[b][op] = lifecycle[b][op] /\ wish'[b][op] = wish[b][op] /\ keys' = keys
        BY <1>1, <1>5, <1>6, <3>2
      <4> QED
        BY <4>1 DEF CyclesFollowWishes
    <3> QED
      BY <3>1, <3>2
  <2>2. \A b, c \in Admins : \A p, q \in Ops :
          lifecycle'[b][p].key # Unset /\ lifecycle'[b][p].key = lifecycle'[c][q].key => b = c /\ p = q
    BY <1>5 DEF CyclesFollowWishes
  <2> QED
    BY <2>1, <2>2 DEF CyclesFollowWishes
<1>9. RequestsFollowCycles' /\ KeysAreOfWishes'
  <2>1. \A b \in Admins, op \in Ops :
           /\ wish'[b][op].number = wish[b][op].number
           /\ ~wish'[b][op].settled =>
                ~wish[b][op].settled /\ lifecycle'[b][op].key = lifecycle[b][op].key
           /\ lifecycle'[b][op].key # Unset =>
                /\ lifecycle'[b][op].key = lifecycle[b][op].key
                /\ lifecycle'[b][op].fingerprint = lifecycle[b][op].fingerprint
    BY <1>5, <1>6
  <2> QED
    BY <1>1, <1>4, <2>1, SettledRequestsFollow
<1>10. WaitsForItsKey'
  BY <1>1, <1>4, <1>5 DEF WaitsForItsKey, Used
<1> QED
  BY <1>4, <1>7, <1>8, <1>9, <1>10


\* What the panel submits: under a new key what it has not wanted before, under
\* the key of the wish what it wants still.
LEMMA KeysAreForWishes ==
  ASSUME PanelInvariant, NEW a \in Admins, SubmitPanel(a)
  PROVE  LET op == Form(a).dialog
             value == Reviewed(a)
             key == KeyFor(lifecycle[a][op], Fingerprint(a))
             old == wish[a][op]
             new == Submitted(a)
         IN  /\ op \in Ops /\ value \in Int /\ Fingerprint(a) = value
             /\ new \in Wish /\ new.value = value /\ ~new.settled
             /\ key \in Key /\ keys' \in 0..MaxKeys /\ key <= keys'
             /\ \/ key = keys + 1 /\ keys' = keys + 1 /\ new.number = old.number + 1
                \/ /\ key = lifecycle[a][op].key /\ keys' = keys /\ new.number = old.number
                   /\ ~old.settled /\ lifecycle[a][op].fingerprint = value
<1> USE DEF PanelInvariant
<1> DEFINE op == Form(a).dialog
           value == Reviewed(a)
           cycle == lifecycle[a][op]
           key == KeyFor(cycle, Fingerprint(a))
           old == wish[a][op]
           new == Submitted(a)
<1>1. op \in Ops /\ panel[a] \in Panel /\ panel[a].form \in FormContent
  BY DEF SubmitPanel, PanelTypes, Panel, FormContent, Form
<1>2. value \in Int /\ Fingerprint(a) = value
  BY <1>1 DEF Reviewed, Fingerprint, Form, Panel, FormContent
<1>3. cycle \in Cycle /\ old \in Wish /\ keys \in 0..MaxKeys /\ MaxKeys \in Nat
  BY <1>1, BoundsAssumption DEF PanelTypes
<1>4. /\ cycle.key # Unset => cycle.key <= keys
      /\ old.settled <=> cycle.key = Unset \/ cycle.renew
      /\ ~old.settled => cycle.fingerprint = old.value
  BY <1>1 DEF CyclesFollowWishes
<1>5. key <= MaxKeys /\ keys' = IF key > keys THEN key ELSE keys
  BY DEF SubmitPanel
<1>6. CASE old.settled \/ old.value # value
  <2>1. MustRenew(cycle, Fingerprint(a))
    BY <1>2, <1>4, <1>6 DEF MustRenew
  <2>2. key = keys + 1
    BY <2>1 DEF KeyFor
  <2>3. new = [number |-> old.number + 1, value |-> value, settled |-> FALSE]
    BY <1>6 DEF Submitted
  <2>4. new \in Wish /\ new.number = old.number + 1 /\ new.value = value /\ ~new.settled
    BY <1>2, <1>3, <2>3 DEF Wish
  <2> HIDE DEF key, new, old, cycle, value, op
  <2>5. key \in Key /\ keys' = keys + 1 /\ keys' \in 0..MaxKeys /\ key <= keys'
    BY <1>3, <1>5, <2>2 DEF Key
  <2> QED
    BY <1>1, <1>2, <2>2, <2>4, <2>5 DEF key, new, old, cycle, value, op
<1>7. CASE ~old.settled /\ old.value = value
  <2>1. cycle.key # Unset /\ ~cycle.renew /\ cycle.fingerprint = value
    BY <1>4, <1>7
  <2>2. ~MustRenew(cycle, Fingerprint(a))
    BY <1>2, <2>1 DEF MustRenew
  <2>3. key = cycle.key /\ new = old
    BY <1>7, <2>2 DEF KeyFor, Submitted
  <2>4. key \in Key /\ key <= keys
    BY <1>3, <1>4, <2>1, <2>3 DEF Cycle
  <2> HIDE DEF key, new, old, cycle, value, op
  <2>5. keys' = keys
    BY <1>3, <1>5, <2>4 DEF Key
  <2> QED
    BY <1>1, <1>2, <1>3, <1>7, <2>1, <2>3, <2>4, <2>5 DEF key, new, old, cycle, value, op
<1> QED
  BY <1>6, <1>7

LEMMA SubmittingKeepsPanel ==
  ASSUME PanelInvariant, NEW a \in Admins, SubmitPanel(a)
  PROVE  PanelInvariant'
<1> USE DEF PanelInvariant
<1> DEFINE op == Form(a).dialog
           value == Reviewed(a)
           key == KeyFor(lifecycle[a][op], Fingerprint(a))
           old == wish[a][op]
           new == Submitted(a)
           renewed == key = keys + 1 /\ keys' = keys + 1 /\ new.number = old.number + 1
           same == /\ key = lifecycle[a][op].key /\ keys' = keys /\ new.number = old.number
                   /\ ~old.settled /\ lifecycle[a][op].fingerprint = value
           content == [admin |-> a, op |-> op, key |-> key, value |-> value,
                       wish |-> new.number, prepared |-> Form(a).prepared]
<1>1. /\ op \in Ops /\ value \in Int /\ Fingerprint(a) = value
      /\ new \in Wish /\ new.value = value /\ ~new.settled
      /\ key \in Key /\ keys' \in 0..MaxKeys /\ key <= keys'
      /\ renewed \/ same
  BY KeysAreForWishes
<1>2. /\ ~Pending(a) /\ UNCHANGED <<stored, ledger, done, stray>>
      /\ wish' = [wish EXCEPT ![a][op] = new]
      /\ lifecycle' = [lifecycle EXCEPT ![a][op] = [key |-> key, fingerprint |-> value, renew |-> FALSE]]
      /\ panel' = [panel EXCEPT ![a].request = [stage |-> "sent", status |-> "none", content |-> content]]
  BY <1>1 DEF SubmitPanel, ledgers
<1>3. content \in PanelRequest
  BY <1>1 DEF PanelRequest, PanelTypes, Panel, FormContent, Form, Wish
<1>4. content.admin = a /\ content.op = op /\ content.key = key /\ content.value = value
      /\ content.wish = new.number
  OBVIOUS
<1>5. panel[a] \in Panel /\ panel[a].form.dialog = op /\ (op = "confirm" => value = panel[a].difference)
  BY DEF PanelTypes, Form, Reviewed
<1>6. keys \in Nat /\ old \in Wish
  BY <1>1 DEF PanelTypes
<1> HIDE DEF content, new, key, value, old, op
<1>7. /\ lifecycle' \in [Admins -> [Ops -> Cycle]]
      /\ lifecycle'[a][op].key = key /\ lifecycle'[a][op].fingerprint = value /\ ~lifecycle'[a][op].renew
      /\ \A b \in Admins, p \in Ops : b # a \/ p # op => lifecycle'[b][p] = lifecycle[b][p]
  <2> DEFINE cycle == [key |-> key, fingerprint |-> value, renew |-> FALSE]
  <2>1. cycle \in Cycle /\ cycle.key = key /\ cycle.fingerprint = value /\ ~cycle.renew
    BY <1>1 DEF Cycle
  <2> HIDE DEF cycle
  <2> QED
    BY <1>1, <1>2, <2>1 DEF PanelTypes, cycle
<1>8. /\ wish' \in [Admins -> [Ops -> Wish]] /\ wish'[a][op] = new
      /\ \A b \in Admins, p \in Ops : b # a \/ p # op => wish'[b][p] = wish[b][p]
  BY <1>1, <1>2 DEF PanelTypes
<1>9. /\ panel' \in [Admins -> Panel]
      /\ panel'[a].request = [stage |-> "sent", status |-> "none", content |-> content]
      /\ \A b \in Admins : panel'[b].form = panel[b].form /\ panel'[b].difference = panel[b].difference
      /\ \A b \in Admins : b # a => panel'[b] = panel[b]
  <2> DEFINE asked == [stage |-> "sent", status |-> "none", content |-> content]
  <2>1. asked \in Asked
    BY <1>3 DEF Asked
  <2> HIDE DEF asked
  <2>2. panel' = [panel EXCEPT ![a].request = asked]
    BY <1>2 DEF asked
  <2>3. [panel[a] EXCEPT !.request = asked] \in Panel
    BY <1>5, <2>1 DEF Panel
  <2> QED
    BY <1>5, <2>1, <2>2, <2>3 DEF PanelTypes, Panel, asked
<1>10. /\ Pending(a)' /\ Content(a)' = content /\ panel'[a].request.status = "none"
       /\ \A b \in Admins : b # a => Pending(b)' = Pending(b) /\ Content(b)' = Content(b)
  BY <1>9 DEF Pending, Content, NoOne
<1>11. InPanels' = InPanels \union {content} /\ AllRequests' = AllRequests \union {content}
  <2>1. InPanels' = InPanels \union {content}
    BY <1>2, <1>10 DEF InPanels
  <2> QED
    BY <1>2, <2>1 DEF AllRequests
<1>12. PanelTypes'
  BY <1>1, <1>2, <1>7, <1>8, <1>9 DEF PanelTypes
<1>13. \A b \in Admins, p \in Ops :
         (b # a \/ p # op) /\ lifecycle[b][p].key # Unset => lifecycle[b][p].key # key
  <2> SUFFICES ASSUME NEW b \in Admins, NEW p \in Ops, b # a \/ p # op, lifecycle[b][p].key # Unset
               PROVE  lifecycle[b][p].key # key
    OBVIOUS
  <2>1. lifecycle[b][p].key \in Nat /\ lifecycle[b][p].key <= keys
    BY DEF PanelTypes, Cycle, Key, CyclesFollowWishes
  <2>2. CASE renewed
    BY <1>6, <2>1, <2>2
  <2>3. CASE same
    BY <1>1, <2>3 DEF CyclesFollowWishes
  <2> QED
    BY <1>1, <2>2, <2>3
<1>14. CyclesFollowWishes'
  <2>1. ASSUME NEW b \in Admins, NEW p \in Ops
        PROVE  /\ lifecycle'[b][p].key # Unset => lifecycle'[b][p].key <= keys'
               /\ wish'[b][p].settled <=> lifecycle'[b][p].key = Unset \/ lifecycle'[b][p].renew
               /\ ~wish'[b][p].settled => lifecycle'[b][p].fingerprint = wish'[b][p].value
    <3>1. CASE b = a /\ p = op
      BY <1>1, <1>7, <1>8, <3>1, UnsetAssumption DEF Key
    <3>2. CASE b # a \/ p # op
      <4>1. lifecycle'[b][p] = lifecycle[b][p] /\ wish'[b][p] = wish[b][p]
        BY <1>7, <1>8, <3>2
      <4>2. lifecycle[b][p].key # Unset => lifecycle[b][p].key \in Nat /\ lifecycle[b][p].key <= keys
        BY DEF PanelTypes, Cycle, Key, CyclesFollowWishes
      <4>3. keys <= keys' /\ keys' \in Nat
        BY <1>1, <1>6
      <4>4. lifecycle'[b][p].key # Unset => lifecycle'[b][p].key <= keys'
        BY <1>6, <4>1, <4>2, <4>3
      <4> QED
        BY <4>1, <4>4 DEF CyclesFollowWishes
    <3> QED
      BY <3>1, <3>2
  <2>2. ASSUME NEW b \in Admins, NEW c \in Admins, NEW p \in Ops, NEW q \in Ops,
               lifecycle'[b][p].key # Unset, lifecycle'[b][p].key = lifecycle'[c][q].key
        PROVE  b = c /\ p = q
    <3>1. CASE (b = a /\ p = op) /\ (c = a /\ q = op)
      BY <3>1
    <3>2. CASE (b = a /\ p = op) /\ ~(c = a /\ q = op)
      BY <1>7, <1>13, <2>2, <3>2
    <3>3. CASE ~(b = a /\ p = op) /\ (c = a /\ q = op)
      BY <1>7, <1>13, <2>2, <3>3
    <3>4. CASE ~(b = a /\ p = op) /\ ~(c = a /\ q = op)
      BY <1>7, <2>2, <3>4 DEF CyclesFollowWishes
    <3> QED
      BY <3>1, <3>2, <3>3, <3>4
  <2> QED
    BY <2>1, <2>2 DEF CyclesFollowWishes
<1>15. \A R \in AllRequests :
         /\ R \in PanelRequest /\ R.key \in Nat /\ R.wish \in Nat /\ R.key <= keys
         /\ R.wish <= wish[R.admin][R.op].number
         /\ R.admin \in Admins /\ R.op \in Ops
  BY RequestsAreTyped DEF PanelRequest, Key, RequestsFollowCycles
<1>16. ASSUME NEW R \in AllRequests
       PROVE  /\ R.key = key <=> SameWish(content, R)
              /\ R.key = key => R.value = value
  <2>1. CASE renewed
    <3>1. R.key # key
      BY <1>6, <1>15, <2>1
    <3>2. ~SameWish(content, R)
      BY <1>4, <1>6, <1>15, <2>1 DEF SameWish, Wish, old
    <3> QED
      BY <3>1, <3>2
  <2>2. CASE same
    <3>1. R.key = key => R.admin = a /\ R.op = op /\ R.value = value /\ R.wish = new.number
      BY <1>1, <2>2 DEF RequestsFollowCycles, old
    <3>2. R.admin = a /\ R.op = op /\ R.wish = new.number => R.key = key
      BY <1>1, <2>2 DEF RequestsFollowCycles, old
    <3> QED
      BY <1>4, <3>1, <3>2 DEF SameWish
  <2> QED
    BY <1>1, <2>1, <2>2
<1>17. KeysAreOfWishes'
  <2> SUFFICES ASSUME NEW R \in AllRequests \union {content}, NEW S \in AllRequests \union {content}
               PROVE  /\ R.key = S.key => SameWish(R, S) /\ R.value = S.value
                      /\ SameWish(R, S) => R.key = S.key
    BY <1>11 DEF KeysAreOfWishes
  <2>1. CASE R \in AllRequests /\ S \in AllRequests
    BY <2>1 DEF KeysAreOfWishes
  <2>2. CASE R = content /\ S = content
    BY <2>2 DEF SameWish
  <2>3. CASE R = content /\ S \in AllRequests
    BY <1>4, <1>16, <2>3
  <2>4. CASE R \in AllRequests /\ S = content
    BY <1>4, <1>16, <2>4 DEF SameWish
  <2> QED
    BY <2>1, <2>2, <2>3, <2>4
<1>18. RequestsFollowCycles'
  <2> SUFFICES ASSUME NEW R \in AllRequests \union {content}
               PROVE  /\ R.key <= keys' /\ R.wish <= wish'[R.admin][R.op].number
                      /\ ~wish'[R.admin][R.op].settled /\ R.wish = wish'[R.admin][R.op].number
                           => R.key = lifecycle'[R.admin][R.op].key
                      /\ \A b \in Admins, p \in Ops :
                           lifecycle'[b][p].key = R.key =>
                             /\ R.admin = b /\ R.op = p
                             /\ R.value = lifecycle'[b][p].fingerprint /\ R.wish = wish'[b][p].number
    BY <1>11 DEF RequestsFollowCycles
  <2>1. CASE R = content
    <3>1. R.key <= keys' /\ R.wish <= wish'[R.admin][R.op].number
          /\ R.key = lifecycle'[R.admin][R.op].key
      BY <1>1, <1>4, <1>7, <1>8, <2>1 DEF Wish
    <3>2. ASSUME NEW b \in Admins, NEW p \in Ops, lifecycle'[b][p].key = R.key
          PROVE  b = a /\ p = op
      <4>1. key # Unset /\ lifecycle'[a][op].key = key
        BY <1>1, <1>7, UnsetAssumption DEF Key
      <4> QED
        BY <1>1, <1>4, <1>14, <2>1, <3>2, <4>1 DEF CyclesFollowWishes
    <3> QED
      BY <1>4, <1>7, <1>8, <2>1, <3>1, <3>2
  <2>2. CASE R \in AllRequests
    <3>1. R.key <= keys'
      BY <1>1, <1>6, <1>15, <2>2
    <3>2. CASE R.admin = a /\ R.op = op
      <4>1. R.wish <= new.number
        BY <1>1, <1>6, <1>15, <2>2, <3>2 DEF Wish, old
      <4>2. R.wish = new.number => R.key = key
        BY <1>4, <1>16, <2>2, <3>2 DEF SameWish
      <4>3. wish'[R.admin][R.op] = new /\ lifecycle'[R.admin][R.op].key = key
        BY <1>7, <1>8, <3>2
      <4>4. ASSUME NEW b \in Admins, NEW p \in Ops, lifecycle'[b][p].key = R.key
            PROVE  /\ R.admin = b /\ R.op = p
                   /\ R.value = lifecycle'[b][p].fingerprint /\ R.wish = wish'[b][p].number
        <5>1. CASE b = a /\ p = op
          BY <1>4, <1>7, <1>8, <1>16, <2>2, <4>4, <5>1 DEF SameWish
        <5>2. CASE b # a \/ p # op
          BY <1>7, <1>8, <2>2, <4>4, <5>2 DEF RequestsFollowCycles
        <5> QED
          BY <5>1, <5>2
      <4> QED
        BY <3>1, <4>1, <4>2, <4>3, <4>4
    <3>3. CASE R.admin # a \/ R.op # op
      <4>1. wish'[R.admin][R.op] = wish[R.admin][R.op] /\ lifecycle'[R.admin][R.op] = lifecycle[R.admin][R.op]
        BY <1>7, <1>8, <1>15, <2>2, <3>3
      <4>2. ASSUME NEW b \in Admins, NEW p \in Ops, lifecycle'[b][p].key = R.key
            PROVE  /\ R.admin = b /\ R.op = p
                   /\ R.value = lifecycle'[b][p].fingerprint /\ R.wish = wish'[b][p].number
        <5>1. CASE b = a /\ p = op
          BY <1>4, <1>7, <1>8, <1>16, <2>2, <4>2, <5>1 DEF SameWish
        <5>2. CASE b # a \/ p # op
          BY <1>7, <1>8, <2>2, <4>2, <5>2 DEF RequestsFollowCycles
        <5> QED
          BY <5>1, <5>2
      <4> QED
        BY <2>2, <3>1, <4>1, <4>2 DEF RequestsFollowCycles
    <3> QED
      BY <3>2, <3>3
  <2> QED
    BY <2>1, <2>2
<1>19. WaitsForItsKey'
  <2> SUFFICES ASSUME NEW b \in Admins, Pending(b)'
               PROVE  /\ Content(b)'.admin = b /\ panel'[b].form.dialog = Content(b)'.op
                      /\ lifecycle'[b][Content(b)'.op].key = Content(b)'.key
                      /\ ~lifecycle'[b][Content(b)'.op].renew
                      /\ panel'[b].request.status = "ok" => Used(Content(b).key)'
    BY DEF WaitsForItsKey
  <2>1. CASE b = a
    BY <1>4, <1>5, <1>7, <1>9, <1>10, <2>1
  <2>2. CASE b # a
    <3>1. Pending(b) /\ Content(b)' = Content(b) /\ panel'[b] = panel[b] /\ Content(b).op \in Ops
      BY <1>9, <1>10, <1>15, <2>2, RequestsAreTyped
    <3>2. lifecycle'[b][Content(b).op] = lifecycle[b][Content(b).op]
      BY <1>7, <2>2, <3>1
    <3> QED
      BY <1>2, <3>1, <3>2 DEF WaitsForItsKey, Used
  <2> QED
    BY <2>1, <2>2
<1>20. DoneOncePerKey' /\ ReviewedIsTheDivergence'
  BY <1>2, <1>4, <1>5, <1>9, <1>11 DEF DoneOncePerKey, ReviewedIsTheDivergence, Difference
<1> QED
  BY <1>12, <1>14, <1>17, <1>18, <1>19, <1>20


\* The server does what a request asks once, and a reconciliation only what its
\* administrator has seen.
LEMMA ServedOnce ==
  ASSUME PanelInvariant, NEW R \in stray \union InPanels, NEW status, Serve(R, status)
  PROVE  /\ stored' \in Nat /\ ledger' \in Int
         /\ done' \subseteq [request : PanelRequest, delta : Int]
         /\ done \subseteq done' /\ \A r \in done' : r \in done \/ r.request = R
         /\ status = "ok" => \E r \in done' : r.request.key = R.key
         /\ DoneOncePerKey'
         /\ Difference' = Difference \/ Difference' = 0
<1> USE DEF PanelInvariant
<1>1. R \in AllRequests /\ R \in PanelRequest
  BY RequestsAreTyped DEF AllRequests
<1>2. stored \in Nat /\ ledger \in Int /\ Difference \in Int /\ Difference = stored - ledger
  BY DEF PanelTypes, Difference
<1>3. CASE Used(R.key)
  <2>1. UNCHANGED ledgers
    BY <1>3 DEF Serve
  <2> QED
    BY <1>3, <2>1 DEF ledgers, Used, PanelTypes, DoneOncePerKey, Difference
<1>4. CASE ~Used(R.key) /\ (Reconciled(R) \/ Overdrawn(R))
  <2>1. UNCHANGED ledgers /\ status # "ok"
    BY <1>4 DEF Serve
  <2> QED
    BY <2>1 DEF ledgers, PanelTypes, DoneOncePerKey, Difference
<1>5. CASE ~Used(R.key) /\ ~Reconciled(R) /\ ~Overdrawn(R)
  <2> DEFINE delta == IF R.op = "adjust" THEN R.value ELSE Difference
             new == [request |-> R, delta |-> delta]
  <2>1. Apply(R, delta)
    BY <1>5 DEF Serve
  <2>2. delta \in Int /\ R.value \in Int /\ R.op \in {"adjust", "confirm"}
    BY <1>1, <1>2 DEF PanelRequest, Ops
  <2>3. new \in [request : PanelRequest, delta : Int] /\ new.request = R /\ new.delta = delta
    BY <1>1, <2>2
  <2>4. R.op = "confirm" => delta = R.value
    BY <1>5, <2>2 DEF Reconciled, ReviewedIsTheDivergence
  <2> HIDE DEF delta, new
  <2>5. done' = done \union {new}
    BY <2>1 DEF Apply, new
  <2>6. CASE R.op = "adjust"
    <3>1. stored' = stored + delta /\ ledger' = ledger + delta /\ delta = R.value
      BY <2>1, <2>6 DEF Apply, delta
    <3>2. stored + delta >= 0
      BY <1>2, <1>5, <2>2, <2>6, <3>1 DEF Overdrawn
    <3>3. stored' \in Nat /\ ledger' \in Int /\ Difference' = Difference
      BY <1>2, <2>2, <3>1, <3>2 DEF Difference
    <3> QED
      BY <1>5, <2>3, <2>4, <2>5, <3>3 DEF PanelTypes, DoneOncePerKey, Used
  <2>7. CASE R.op = "confirm"
    <3>1. stored' = stored /\ ledger' = ledger + delta /\ delta = Difference
      BY <2>1, <2>7 DEF Apply, delta
    <3>2. stored' \in Nat /\ ledger' \in Int /\ Difference' = 0
      BY <1>2, <2>2, <3>1 DEF Difference
    <3> QED
      BY <1>5, <2>3, <2>4, <2>5, <3>2 DEF PanelTypes, DoneOncePerKey, Used
  <2> QED
    BY <2>2, <2>6, <2>7
<1> QED
  BY <1>3, <1>4, <1>5

LEMMA ReceivingKeepsPanel ==
  ASSUME PanelInvariant,
         (\E a \in Admins : Receive(a)) \/ \E R \in stray : ReceiveStray(R)
  PROVE  PanelInvariant'
<1> USE DEF PanelInvariant
<1>1. /\ UNCHANGED <<keys, lifecycle, wish>> /\ stray' \subseteq stray
      /\ panel' \in [Admins -> Panel]
      /\ \A b \in Admins :
           /\ Pending(b)' = Pending(b) /\ Content(b)' = Content(b)
           /\ panel'[b].form = panel[b].form /\ panel'[b].difference = panel[b].difference
      /\ \E R \in stray \union InPanels, status \in {"ok", "conflict", "refused"} :
           /\ Serve(R, status)
           /\ \A b \in Admins : Pending(b) /\ panel'[b].request.status = "ok" =>
                panel[b].request.status = "ok" \/ (Content(b) = R /\ status = "ok")
  <2>1. CASE \E R \in stray : ReceiveStray(R)
    <3>1. PICK R \in stray : ReceiveStray(R)
      BY <2>1
    <3> QED
      BY <3>1 DEF ReceiveStray, PanelTypes, Pending, Content
  <2>2. CASE \E a \in Admins : Receive(a)
    <3>1. PICK a \in Admins : Receive(a)
      BY <2>2
    <3>2. PICK status \in {"ok", "conflict", "refused"} :
            /\ Serve(Content(a), status)
            /\ panel' = [panel EXCEPT ![a].request.stage = "answered", ![a].request.status = status]
      BY <3>1 DEF Receive, Content
    <3>3. Pending(a) /\ panel[a].request \in Asked /\ panel[a] \in Panel /\ Content(a) \in InPanels
      BY <3>1, RequestsAreTyped DEF Receive, PanelTypes
    <3> DEFINE answered == [panel[a].request EXCEPT !.stage = "answered", !.status = status]
    <3>4. answered \in Asked /\ answered # NoOne
          /\ answered.content = Content(a) /\ answered.status = status
      BY <3>3 DEF Asked, NoOne, Content
    <3>5. panel' = [panel EXCEPT ![a] = [panel[a] EXCEPT !.request = answered]]
      BY <3>2, <3>3 DEF PanelTypes, Panel, Asked
    <3> HIDE DEF answered
    <3>6. /\ panel' \in [Admins -> Panel] /\ panel'[a].request = answered
          /\ panel'[a].form = panel[a].form /\ panel'[a].difference = panel[a].difference
          /\ \A b \in Admins : b # a => panel'[b] = panel[b]
      BY <3>3, <3>4, <3>5 DEF PanelTypes, Panel
    <3>7. UNCHANGED <<keys, lifecycle, wish, stray>>
      BY <3>1 DEF Receive
    <3>8. ASSUME NEW b \in Admins
          PROVE  /\ Pending(b)' = Pending(b) /\ Content(b)' = Content(b)
                 /\ panel'[b].form = panel[b].form /\ panel'[b].difference = panel[b].difference
                 /\ Pending(b) /\ panel'[b].request.status = "ok" =>
                      panel[b].request.status = "ok" \/ (Content(b) = Content(a) /\ status = "ok")
      <4>1. CASE b = a
        BY <3>3, <3>4, <3>6, <4>1 DEF Pending, Content
      <4>2. CASE b # a
        BY <3>6, <4>2 DEF Pending, Content
      <4> QED
        BY <4>1, <4>2
    <3>9. \E R \in stray \union InPanels, st \in {"ok", "conflict", "refused"} :
            /\ Serve(R, st)
            /\ \A b \in Admins : Pending(b) /\ panel'[b].request.status = "ok" =>
                 panel[b].request.status = "ok" \/ (Content(b) = R /\ st = "ok")
      BY <3>2, <3>3, <3>8
    <3> QED
      BY <3>6, <3>7, <3>8, <3>9
  <2> QED
    BY <2>1, <2>2
<1>2. PICK R \in stray \union InPanels, status \in {"ok", "conflict", "refused"} :
        /\ Serve(R, status)
        /\ \A b \in Admins : Pending(b) /\ panel'[b].request.status = "ok" =>
             panel[b].request.status = "ok" \/ (Content(b) = R /\ status = "ok")
  BY <1>1
<1>3. /\ stored' \in Nat /\ ledger' \in Int
      /\ done' \subseteq [request : PanelRequest, delta : Int]
      /\ done \subseteq done' /\ \A r \in done' : r \in done \/ r.request = R
      /\ status = "ok" => \E r \in done' : r.request.key = R.key
      /\ DoneOncePerKey'
      /\ Difference' = Difference \/ Difference' = 0
  BY <1>2, ServedOnce
<1>4. InPanels' = InPanels
  BY <1>1 DEF InPanels
<1>5. AllRequests' \subseteq AllRequests
  BY <1>1, <1>3, <1>4 DEF AllRequests
<1>6. PanelTypes' /\ CyclesFollowWishes'
  BY <1>1, <1>3 DEF PanelTypes, CyclesFollowWishes
<1>7. RequestsFollowCycles' /\ KeysAreOfWishes'
  BY <1>1, <1>5, FewerRequestsFollow
<1>8. WaitsForItsKey'
  BY <1>1, <1>2, <1>3 DEF WaitsForItsKey, Used
<1>9. ReviewedIsTheDivergence'
  BY <1>1, <1>3, <1>4 DEF ReviewedIsTheDivergence
<1> QED
  BY <1>3, <1>6, <1>7, <1>8, <1>9

\* Whatever the administrators, their wishes and what is lost or late: requests
\* of one wish have one key, and one key is of one wish.
THEOREM PanelInvariance == PanelSpec => []PanelInvariant
<1>1. PanelInit => PanelInvariant
  BY PanelStarts
<1>2. ASSUME PanelInvariant, [PanelNext]_panelVars
      PROVE  PanelInvariant'
  <2>1. CASE UNCHANGED panelVars
    <3>1. UNCHANGED <<stored, ledger, done, keys, panel, lifecycle, wish, stray>>
      BY <2>1 DEF panelVars, ledgers
    <3> QED
      BY <1>2, <3>1
         DEF PanelInvariant, PanelTypes, CyclesFollowWishes, RequestsFollowCycles, KeysAreOfWishes,
             WaitsForItsKey, DoneOncePerKey, ReviewedIsTheDivergence, AllRequests, InPanels, Pending,
             Content, Difference, Used
  <2>2. CASE PanelNext
    BY <1>2, <2>2, FormsKeepPanel, MovesKeepPanel, SettlingKeepsPanel, FailuresKeepPanel,
       RemountsKeepPanel, SubmittingKeepsPanel, ReceivingKeepsPanel
       DEF PanelNext
  <2> QED
    BY <1>2, <2>1, <2>2
<1> QED
  BY <1>1, <1>2, PTL DEF PanelSpec

\* Balances, panels and requests are always of their types, and a request is
\* waited for under the key of its life cycle.
THEOREM PanelTypeCorrect == PanelSpec => []PanelTypeOK
BY PanelInvariance, PanelImplies, PTL

\* Each wish is done at most once, told as done only when it was, and as it was
\* reviewed (participant-operations.ts, participant-reconciliation-panel.tsx).
THEOREM OperationsStayAsWished == PanelSpec => []OperationsAreAsWished
BY PanelInvariance, PanelImplies, PTL

-----------------------------------------------------------------------------
(* AuditContract.  No call is refused and none loses a field: each snapshot   *)
(* against its rule and against the list of the fields that are kept, then    *)
(* each operation with the snapshots and the metadata that its calls pass.    *)

\* A snapshot or metadata that its rule admits and that is kept whole.
Passes(rule, object, fields, isSnapshot) ==
  Admits(rule, object, isSnapshot) /\ Kept(object, fields) = object

(* A call whose objects all pass is accepted, and its row is the call         *)
(* (AuditService.record).                                                     *)
LEMMA CallsAreKept ==
  ASSUME NEW o, NEW e, NEW p \in BOOLEAN, NEW B, NEW A, NEW M,
         operationRules[o].entityType = e,
         operationRules[o].participant # (IF p THEN "forbidden" ELSE "required"),
         \A b \in B : Passes(operationRules[o].before, b, SnapshotFields(o), TRUE),
         \A a \in A : Passes(operationRules[o].after, a, SnapshotFields(o), TRUE),
         \A m \in M : Passes(operationRules[o].metadata, m, MetadataFields, FALSE)
  PROVE  \A c \in Call(o, e, p, B, A, M) : Accepted(c) /\ Recorded(c) = c
<1> SUFFICES ASSUME NEW c \in Call(o, e, p, B, A, M) PROVE Accepted(c) /\ Recorded(c) = c
  OBVIOUS
<1>1. /\ c = [operation |-> o, entityType |-> e, hasParticipant |-> p, before |-> c.before, after |-> c.after,
              metadata |-> c.metadata]
      /\ c.before \in B /\ c.after \in A /\ c.metadata \in M
      /\ c.operation = o /\ c.entityType = e /\ c.hasParticipant = p
  BY DEF Call
<1>2. Accepted(c)
  BY <1>1 DEF Accepted, Passes
<1>3. Recorded(c) = [c EXCEPT !.before = c.before, !.after = c.after, !.metadata = c.metadata]
  BY <1>1 DEF Recorded, Passes
<1> QED BY <1>1, <1>2, <1>3

(* An operator's row (AdminOperatorsService).                                 *)
LEMMA OperatorSnapshotsPass ==
  \A s \in operatorSnapshot : Passes(adminOperatorRule, s, operatorFields, TRUE)
<1> USE AbsentAssumption
        DEF AbsentAssumption, Rules, Snapshots, Required, Passes, Admits, Kept, Restrict,
            FieldKinds, Texts, Text, Flag, Date
<1>1. \A s \in operatorSnapshot : Passes(adminOperatorRule, s, operatorFields, TRUE)
  BY DEF operatorSnapshot, adminOperatorRule, operatorFields
<1> QED BY <1>1

(* A participant's status, and the reset of a password                        *)
(* (AdminParticipantsService).                                                *)
LEMMA ParticipantSnapshotsPass ==
  /\ \A s \in participantStatus : Passes(participantStatusRule, s, {"id", "isActive"}, TRUE)
  /\ \A s \in participantPasswordReset : Passes(participantPasswordResetRule, s,
     SnapshotFields("PARTICIPANT_PASSWORD_RESET"), TRUE)
<1> USE AbsentAssumption
        DEF AbsentAssumption, Rules, Snapshots, Required, Passes, Admits, Kept, Restrict,
            FieldKinds, Texts, Text, Flag, Date, Nullable
<1>1. \A s \in participantStatus : Passes(participantStatusRule, s, {"id", "isActive"}, TRUE)
  BY DEF participantStatus, participantStatusRule
<1>2. \A s \in participantPasswordReset : Passes(participantPasswordResetRule, s,
      SnapshotFields("PARTICIPANT_PASSWORD_RESET"), TRUE)
  BY DEF participantPasswordReset, participantPasswordResetRule, SnapshotFields
<1> QED BY <1>1, <1>2

(* An activity (ActionsService); a status alone is also that of a reward.     *)
LEMMA ActionSnapshotsPass ==
  /\ \A s \in actionSnapshot : Passes(actionRule, s, actionFields, TRUE)
  /\ \A s \in actionSnapshotOfCode : Passes(actionRule, s, actionFields, TRUE)
  /\ \A s \in activeEntity : Passes(activeEntityRule, s, {"id", "isActive"}, TRUE)
<1> USE AbsentAssumption
        DEF AbsentAssumption, Rules, Snapshots, Required, Passes, Admits, Kept, Restrict,
            FieldKinds, Texts, Text, Flag, Nullable, Number
<1>1. \A s \in actionSnapshot : Passes(actionRule, s, actionFields, TRUE)
  BY DEF actionSnapshot, actionRule, actionFields
<1>2. \A s \in actionSnapshotOfCode : Passes(actionRule, s, actionFields, TRUE)
  BY DEF actionSnapshotOfCode, actionRule, actionFields
<1>3. \A s \in activeEntity : Passes(activeEntityRule, s, {"id", "isActive"}, TRUE)
  BY DEF activeEntity, activeEntityRule
<1> QED BY <1>1, <1>2, <1>3

(* A reward and its redemption (RewardsService).                              *)
LEMMA RewardSnapshotsPass ==
  /\ \A s \in rewardSnapshot : Passes(rewardRule, s, rewardFields, TRUE)
  /\ \A s \in redemptionDeliveryBefore : Passes(redemptionDeliveryBeforeRule, s, redemptionFields, TRUE)
  /\ \A s \in redemptionDeliveryAfter : Passes(redemptionDeliveryAfterRule, s, redemptionFields, TRUE)
  /\ \A s \in redemptionCancellationBefore : Passes(redemptionCancellationBeforeRule, s, redemptionFields, TRUE)
  /\ \A s \in redemptionCancellationAfter : Passes(redemptionCancellationAfterRule, s, redemptionFields, TRUE)
<1> USE AbsentAssumption
        DEF AbsentAssumption, Rules, Snapshots, Required, Passes, Admits, Kept, Restrict,
            FieldKinds, Texts, Text, Flag, Date, Nullable, Number
<1>1. \A s \in rewardSnapshot : Passes(rewardRule, s, rewardFields, TRUE)
  BY DEF rewardSnapshot, rewardRule, rewardFields
<1>2. \A s \in redemptionDeliveryBefore : Passes(redemptionDeliveryBeforeRule, s, redemptionFields, TRUE)
  BY DEF redemptionDeliveryBefore, redemptionDeliveryBeforeRule, redemptionFields
<1>3. \A s \in redemptionDeliveryAfter : Passes(redemptionDeliveryAfterRule, s, redemptionFields, TRUE)
  BY DEF redemptionDeliveryAfter, redemptionDeliveryAfterRule, redemptionFields
<1>4. \A s \in redemptionCancellationBefore : Passes(redemptionCancellationBeforeRule, s, redemptionFields, TRUE)
  BY DEF redemptionCancellationBefore, redemptionCancellationBeforeRule, redemptionFields
<1>5. \A s \in redemptionCancellationAfter : Passes(redemptionCancellationAfterRule, s, redemptionFields, TRUE)
  BY DEF redemptionCancellationAfter, redemptionCancellationAfterRule, redemptionFields
<1> QED BY <1>1, <1>2, <1>3, <1>4, <1>5

(* A code, a batch and a bulk operation (ClaimCodesService).                  *)
LEMMA ClaimCodeSnapshotsPass ==
  /\ \A s \in claimCodeSnapshot : Passes(claimCodeRule, s, SnapshotFields("CLAIM_CODE_STATUS_CHANGED"), TRUE)
  /\ \A s \in claimCodeBatch : Passes(claimCodeBatchRule, s, SnapshotFields("CLAIM_CODE_BATCH_GENERATED"), TRUE)
  /\ \A s \in claimCodeBulk : Passes(claimCodeBulkAuditRule, s, SnapshotFields("CLAIM_CODE_BULK_STATUS_CHANGED"),
     TRUE)
<1> USE AbsentAssumption
        DEF AbsentAssumption, Rules, Snapshots, Required, Passes, Admits, Kept, Restrict,
            FieldKinds, Texts, Text, Flag, Number
<1>1. \A s \in claimCodeSnapshot : Passes(claimCodeRule, s, SnapshotFields("CLAIM_CODE_STATUS_CHANGED"), TRUE)
  BY DEF claimCodeSnapshot, claimCodeRule, SnapshotFields
<1>2. \A s \in claimCodeBatch : Passes(claimCodeBatchRule, s, SnapshotFields("CLAIM_CODE_BATCH_GENERATED"), TRUE)
  BY DEF claimCodeBatch, claimCodeBatchRule, SnapshotFields
<1>3. \A s \in claimCodeBulk : Passes(claimCodeBulkAuditRule, s, SnapshotFields("CLAIM_CODE_BULK_STATUS_CHANGED"),
      TRUE)
  BY DEF claimCodeBulk, claimCodeBulkAuditRule, SnapshotFields
<1> QED BY <1>1, <1>2, <1>3

(* A balance, a reversal and a reconciliation (BalanceOperationsService).     *)
LEMMA BalanceSnapshotsPass ==
  /\ \A s \in balanceBefore : Passes(balanceBeforeRule, s, SnapshotFields("PARTICIPANT_BALANCE_ADJUSTED"), TRUE)
  /\ \A s \in balanceAfter : Passes(balanceAdjustedAfterRule, s, SnapshotFields("PARTICIPANT_BALANCE_ADJUSTED"), TRUE)
  /\ \A s \in reversalBefore : Passes(balanceReversalBeforeRule, s,
     SnapshotFields("PARTICIPANT_BALANCE_ADJUSTMENT_REVERSED"), TRUE)
  /\ \A s \in reversalAfter : Passes(balanceReversalAfterRule, s,
     SnapshotFields("PARTICIPANT_BALANCE_ADJUSTMENT_REVERSED"), TRUE)
  /\ \A s \in reconciliation : Passes(reconciliationBalanceRule, s,
     SnapshotFields("RECONCILIATION_ADJUSTMENT_CONFIRMED"), TRUE)
  /\ \A s \in reconciliationOfEvents : Passes(reconciliationBalanceRule, s,
     SnapshotFields("RECONCILIATION_ADJUSTMENT_CONFIRMED"), TRUE)
<1> USE AbsentAssumption
        DEF AbsentAssumption, Rules, Snapshots, Required, Passes, Admits, Kept, Restrict,
            FieldKinds, Texts, Text, Flag, Number
<1>1. \A s \in balanceBefore : Passes(balanceBeforeRule, s, SnapshotFields("PARTICIPANT_BALANCE_ADJUSTED"), TRUE)
  BY DEF balanceBefore, balanceBeforeRule, SnapshotFields
<1>2. \A s \in balanceAfter : Passes(balanceAdjustedAfterRule, s, SnapshotFields("PARTICIPANT_BALANCE_ADJUSTED"),
      TRUE)
  BY DEF balanceAfter, balanceAdjustedAfterRule, SnapshotFields
<1>3. \A s \in reversalBefore : Passes(balanceReversalBeforeRule, s,
      SnapshotFields("PARTICIPANT_BALANCE_ADJUSTMENT_REVERSED"), TRUE)
  BY DEF reversalBefore, balanceReversalBeforeRule, SnapshotFields
<1>4. \A s \in reversalAfter : Passes(balanceReversalAfterRule, s,
      SnapshotFields("PARTICIPANT_BALANCE_ADJUSTMENT_REVERSED"), TRUE)
  BY DEF reversalAfter, balanceReversalAfterRule, SnapshotFields
<1>5. \A s \in reconciliation : Passes(reconciliationBalanceRule, s,
      SnapshotFields("RECONCILIATION_ADJUSTMENT_CONFIRMED"), TRUE)
  BY DEF reconciliation, reconciliationBalanceRule, SnapshotFields
<1>6. \A s \in reconciliationOfEvents : Passes(reconciliationBalanceRule, s,
      SnapshotFields("RECONCILIATION_ADJUSTMENT_CONFIRMED"), TRUE)
  BY DEF reconciliationOfEvents, reconciliationBalanceRule, SnapshotFields
<1> QED BY <1>1, <1>2, <1>3, <1>4, <1>5, <1>6

(* A snapshot or metadata that is not given passes where none is asked for.   *)
LEMMA NothingPasses ==
  ASSUME NEW rule, NEW fields, NEW isSnapshot, isSnapshot => rule = Absent
  PROVE  \A object \in Nothing : Passes(rule, object, fields, isSnapshot)
BY DEF Nothing, Passes, Admits, Kept

(* The metadata passed under each operation that has some.                    *)
LEMMA MetadataPasses ==
  /\ \A m \in sessionsRevoked : Passes(sessionsRevokedMetadataRule, m, MetadataFields, FALSE)
  /\ \A m \in [rewardRedemptionId : Text] : Passes(redemptionMetadataRule, m, MetadataFields, FALSE)
  /\ \A m \in [rewardRedemptionId : Text, pointEventId : Text] :
       Passes(redemptionCancellationMetadataRule, m, MetadataFields, FALSE)
  /\ \A m \in [pointEventId : Text] \union [pointEventId : Text, actionId : Text] :
       Passes(operationRules.PARTICIPANT_BALANCE_ADJUSTED.metadata, m, MetadataFields, FALSE)
  /\ \A m \in [originalPointEventId : Text, reversalPointEventId : Text] :
       Passes(operationRules.PARTICIPANT_BALANCE_ADJUSTMENT_REVERSED.metadata, m, MetadataFields, FALSE)
  /\ \A m \in [pointEventIds : {"ids"}] : Passes(balanceMetadataRule, m, MetadataFields, FALSE)
<1>0. /\ operationRules.PARTICIPANT_BALANCE_ADJUSTED.metadata
           = Optional([pointEventId |-> "string", actionId |-> "string"])
      /\ operationRules.PARTICIPANT_BALANCE_ADJUSTMENT_REVERSED.metadata
           = Optional([originalPointEventId |-> "string", reversalPointEventId |-> "string"])
  BY DEF operationRules
<1>1. Absent \notin Rules
  BY AbsentAssumption DEF AbsentAssumption
<1> USE <1>1 DEF Rules, Optional, Passes, Admits, Kept, Restrict, MetadataFields, FieldKinds, Texts, Text, Number
<1>2. \A m \in sessionsRevoked : Passes(sessionsRevokedMetadataRule, m, MetadataFields, FALSE)
  BY DEF sessionsRevoked, sessionsRevokedMetadataRule
<1>3. \A m \in [rewardRedemptionId : Text] : Passes(redemptionMetadataRule, m, MetadataFields, FALSE)
  BY DEF redemptionMetadataRule
<1>4. \A m \in [rewardRedemptionId : Text, pointEventId : Text] :
        Passes(redemptionCancellationMetadataRule, m, MetadataFields, FALSE)
  BY DEF redemptionCancellationMetadataRule
<1>5. \A m \in [pointEventId : Text] :
        Passes(operationRules.PARTICIPANT_BALANCE_ADJUSTED.metadata, m, MetadataFields, FALSE)
  BY <1>0
<1>6. \A m \in [pointEventId : Text, actionId : Text] :
        Passes(operationRules.PARTICIPANT_BALANCE_ADJUSTED.metadata, m, MetadataFields, FALSE)
  BY <1>0
<1>7. \A m \in [originalPointEventId : Text, reversalPointEventId : Text] :
        Passes(operationRules.PARTICIPANT_BALANCE_ADJUSTMENT_REVERSED.metadata, m, MetadataFields, FALSE)
  BY <1>0
<1>8. \A m \in [pointEventIds : {"ids"}] : Passes(balanceMetadataRule, m, MetadataFields, FALSE)
  BY DEF balanceMetadataRule
<1> HIDE DEF Rules, Optional, Passes, Admits, Kept, Restrict, MetadataFields, FieldKinds, Texts, Text, Number
<1> QED BY <1>2, <1>3, <1>4, <1>5, <1>6, <1>7, <1>8

(* Every call about an operator is kept (AdminOperatorsService).              *)
LEMMA OperatorCallsAreKept ==
  \A c \in OperatorCalls : Accepted(c) /\ Recorded(c) = c
<1>1. \A c \in Call("ADMIN_OPERATOR_CREATED", "ADMIN_OPERATOR", FALSE, Nothing, operatorSnapshot, Nothing) :
        Accepted(c) /\ Recorded(c) = c
  <2>1. SnapshotFields("ADMIN_OPERATOR_CREATED") = operatorFields
    BY DEF SnapshotFields
  <2>2. /\ operationRules["ADMIN_OPERATOR_CREATED"].entityType = "ADMIN_OPERATOR"
        /\ operationRules["ADMIN_OPERATOR_CREATED"].participant = "forbidden"
        /\ operationRules["ADMIN_OPERATOR_CREATED"].before = Absent
        /\ operationRules["ADMIN_OPERATOR_CREATED"].after = adminOperatorRule
    BY DEF operationRules, ChangeRule, CreationRule
  <2> QED BY <2>1, <2>2, CallsAreKept, OperatorSnapshotsPass, NothingPasses
<1>2. \A c \in Call("ADMIN_OPERATOR_ACTIVATED", "ADMIN_OPERATOR", FALSE, operatorSnapshot, operatorSnapshot,
      Nothing) :
        Accepted(c) /\ Recorded(c) = c
  <2>1. SnapshotFields("ADMIN_OPERATOR_ACTIVATED") = operatorFields
    BY DEF SnapshotFields
  <2>2. /\ operationRules["ADMIN_OPERATOR_ACTIVATED"].entityType = "ADMIN_OPERATOR"
        /\ operationRules["ADMIN_OPERATOR_ACTIVATED"].participant = "forbidden"
        /\ operationRules["ADMIN_OPERATOR_ACTIVATED"].before = adminOperatorRule
        /\ operationRules["ADMIN_OPERATOR_ACTIVATED"].after = adminOperatorRule
    BY DEF operationRules, ChangeRule
  <2> QED BY <2>1, <2>2, CallsAreKept, OperatorSnapshotsPass, NothingPasses
<1>3. \A c \in Call("ADMIN_OPERATOR_UPDATED", "ADMIN_OPERATOR", FALSE, operatorSnapshot, operatorSnapshot,
      sessionsRevoked) :
        Accepted(c) /\ Recorded(c) = c
  <2>1. SnapshotFields("ADMIN_OPERATOR_UPDATED") = operatorFields
    BY DEF SnapshotFields
  <2>2. /\ operationRules["ADMIN_OPERATOR_UPDATED"].entityType = "ADMIN_OPERATOR"
        /\ operationRules["ADMIN_OPERATOR_UPDATED"].participant = "forbidden"
        /\ operationRules["ADMIN_OPERATOR_UPDATED"].before = adminOperatorRule
        /\ operationRules["ADMIN_OPERATOR_UPDATED"].after = adminOperatorRule
        /\ operationRules["ADMIN_OPERATOR_UPDATED"].metadata = sessionsRevokedMetadataRule
    BY DEF operationRules, ChangeRule
  <2> QED BY <2>1, <2>2, CallsAreKept, OperatorSnapshotsPass, MetadataPasses
<1>4. \A c \in Call("ADMIN_OPERATOR_STATUS_CHANGED", "ADMIN_OPERATOR", FALSE, operatorSnapshot, operatorSnapshot,
      sessionsRevoked) :
        Accepted(c) /\ Recorded(c) = c
  <2>1. SnapshotFields("ADMIN_OPERATOR_STATUS_CHANGED") = operatorFields
    BY DEF SnapshotFields
  <2>2. /\ operationRules["ADMIN_OPERATOR_STATUS_CHANGED"].entityType = "ADMIN_OPERATOR"
        /\ operationRules["ADMIN_OPERATOR_STATUS_CHANGED"].participant = "forbidden"
        /\ operationRules["ADMIN_OPERATOR_STATUS_CHANGED"].before = adminOperatorRule
        /\ operationRules["ADMIN_OPERATOR_STATUS_CHANGED"].after = adminOperatorRule
        /\ operationRules["ADMIN_OPERATOR_STATUS_CHANGED"].metadata = sessionsRevokedMetadataRule
    BY DEF operationRules, ChangeRule
  <2> QED BY <2>1, <2>2, CallsAreKept, OperatorSnapshotsPass, MetadataPasses
<1>5. \A c \in Call("ADMIN_OPERATOR_ACTIVATION_RESET", "ADMIN_OPERATOR", FALSE, operatorSnapshot, operatorSnapshot,
      sessionsRevoked) :
        Accepted(c) /\ Recorded(c) = c
  <2>1. SnapshotFields("ADMIN_OPERATOR_ACTIVATION_RESET") = operatorFields
    BY DEF SnapshotFields
  <2>2. /\ operationRules["ADMIN_OPERATOR_ACTIVATION_RESET"].entityType = "ADMIN_OPERATOR"
        /\ operationRules["ADMIN_OPERATOR_ACTIVATION_RESET"].participant = "forbidden"
        /\ operationRules["ADMIN_OPERATOR_ACTIVATION_RESET"].before = adminOperatorRule
        /\ operationRules["ADMIN_OPERATOR_ACTIVATION_RESET"].after = adminOperatorRule
        /\ operationRules["ADMIN_OPERATOR_ACTIVATION_RESET"].metadata = sessionsRevokedMetadataRule
    BY DEF operationRules, ChangeRule
  <2> QED BY <2>1, <2>2, CallsAreKept, OperatorSnapshotsPass, MetadataPasses
<1> QED BY <1>1, <1>2, <1>3, <1>4, <1>5 DEF OperatorCalls

(* About a participant (AdminParticipantsService).                            *)
LEMMA ParticipantCallsAreKept ==
  \A c \in ParticipantCalls : Accepted(c) /\ Recorded(c) = c
<1>1. \A c \in Call("PARTICIPANT_PASSWORD_RESET", "PARTICIPANT", TRUE, participantPasswordReset,
      participantPasswordReset, sessionsRevoked) :
        Accepted(c) /\ Recorded(c) = c
  <2>1. /\ operationRules["PARTICIPANT_PASSWORD_RESET"].entityType = "PARTICIPANT"
        /\ operationRules["PARTICIPANT_PASSWORD_RESET"].participant = "required"
        /\ operationRules["PARTICIPANT_PASSWORD_RESET"].before = participantPasswordResetRule
        /\ operationRules["PARTICIPANT_PASSWORD_RESET"].after = participantPasswordResetRule
        /\ operationRules["PARTICIPANT_PASSWORD_RESET"].metadata = sessionsRevokedMetadataRule
    BY DEF operationRules, ChangeRule
  <2> QED BY <2>1, CallsAreKept, ParticipantSnapshotsPass, MetadataPasses
<1>2. \A c \in Call("PARTICIPANT_STATUS_CHANGED", "PARTICIPANT", TRUE, participantStatus, participantStatus,
      Nothing) :
        Accepted(c) /\ Recorded(c) = c
  <2>1. SnapshotFields("PARTICIPANT_STATUS_CHANGED") = {"id", "isActive"}
    BY DEF SnapshotFields
  <2>2. /\ operationRules["PARTICIPANT_STATUS_CHANGED"].entityType = "PARTICIPANT"
        /\ operationRules["PARTICIPANT_STATUS_CHANGED"].participant = "required"
        /\ operationRules["PARTICIPANT_STATUS_CHANGED"].before = participantStatusRule
        /\ operationRules["PARTICIPANT_STATUS_CHANGED"].after = participantStatusRule
    BY DEF operationRules, ChangeRule
  <2> QED BY <2>1, <2>2, CallsAreKept, ParticipantSnapshotsPass, NothingPasses
<1> QED BY <1>1, <1>2 DEF ParticipantCalls

(* About an activity (ActionsService).                                        *)
LEMMA ActionCallsAreKept ==
  \A c \in ActionCalls : Accepted(c) /\ Recorded(c) = c
<1>1. \A c \in Call("ACTION_CREATED", "ACTION", FALSE, Nothing, actionSnapshotOfCode, Nothing) :
        Accepted(c) /\ Recorded(c) = c
  <2>1. SnapshotFields("ACTION_CREATED") = actionFields
    BY DEF SnapshotFields
  <2>2. /\ operationRules["ACTION_CREATED"].entityType = "ACTION"
        /\ operationRules["ACTION_CREATED"].participant = "forbidden"
        /\ operationRules["ACTION_CREATED"].before = Absent
        /\ operationRules["ACTION_CREATED"].after = actionRule
    BY DEF operationRules, ChangeRule, CreationRule
  <2> QED BY <2>1, <2>2, CallsAreKept, ActionSnapshotsPass, NothingPasses
<1>2. \A c \in Call("ACTION_UPDATED", "ACTION", FALSE, actionSnapshot, actionSnapshot, Nothing) :
        Accepted(c) /\ Recorded(c) = c
  <2>1. SnapshotFields("ACTION_UPDATED") = actionFields
    BY DEF SnapshotFields
  <2>2. /\ operationRules["ACTION_UPDATED"].entityType = "ACTION"
        /\ operationRules["ACTION_UPDATED"].participant = "forbidden"
        /\ operationRules["ACTION_UPDATED"].before = actionRule
        /\ operationRules["ACTION_UPDATED"].after = actionRule
    BY DEF operationRules, ChangeRule
  <2> QED BY <2>1, <2>2, CallsAreKept, ActionSnapshotsPass, NothingPasses
<1>3. \A c \in Call("ACTION_UPDATED", "ACTION", FALSE, actionSnapshotOfCode, actionSnapshotOfCode, Nothing) :
        Accepted(c) /\ Recorded(c) = c
  <2>1. SnapshotFields("ACTION_UPDATED") = actionFields
    BY DEF SnapshotFields
  <2>2. /\ operationRules["ACTION_UPDATED"].entityType = "ACTION"
        /\ operationRules["ACTION_UPDATED"].participant = "forbidden"
        /\ operationRules["ACTION_UPDATED"].before = actionRule
        /\ operationRules["ACTION_UPDATED"].after = actionRule
    BY DEF operationRules, ChangeRule
  <2> QED BY <2>1, <2>2, CallsAreKept, ActionSnapshotsPass, NothingPasses
<1>4. \A c \in Call("ACTION_STATUS_CHANGED", "ACTION", FALSE, activeEntity, activeEntity, Nothing) :
        Accepted(c) /\ Recorded(c) = c
  <2>1. SnapshotFields("ACTION_STATUS_CHANGED") = {"id", "isActive"}
    BY DEF SnapshotFields
  <2>2. /\ operationRules["ACTION_STATUS_CHANGED"].entityType = "ACTION"
        /\ operationRules["ACTION_STATUS_CHANGED"].participant = "forbidden"
        /\ operationRules["ACTION_STATUS_CHANGED"].before = activeEntityRule
        /\ operationRules["ACTION_STATUS_CHANGED"].after = activeEntityRule
    BY DEF operationRules, ChangeRule
  <2> QED BY <2>1, <2>2, CallsAreKept, ActionSnapshotsPass, NothingPasses
<1> QED BY <1>1, <1>2, <1>3, <1>4 DEF ActionCalls

(* About a reward or its redemption (RewardsService).                         *)
LEMMA RewardCallsAreKept ==
  \A c \in RewardCalls : Accepted(c) /\ Recorded(c) = c
<1>1. \A c \in Call("REWARD_CREATED", "REWARD", FALSE, Nothing, rewardSnapshot, Nothing) :
        Accepted(c) /\ Recorded(c) = c
  <2>1. SnapshotFields("REWARD_CREATED") = rewardFields
    BY DEF SnapshotFields
  <2>2. /\ operationRules["REWARD_CREATED"].entityType = "REWARD"
        /\ operationRules["REWARD_CREATED"].participant = "forbidden"
        /\ operationRules["REWARD_CREATED"].before = Absent
        /\ operationRules["REWARD_CREATED"].after = rewardRule
    BY DEF operationRules, ChangeRule, CreationRule
  <2> QED BY <2>1, <2>2, CallsAreKept, RewardSnapshotsPass, NothingPasses
<1>2. \A c \in Call("REWARD_UPDATED", "REWARD", FALSE, rewardSnapshot, rewardSnapshot, Nothing) :
        Accepted(c) /\ Recorded(c) = c
  <2>1. SnapshotFields("REWARD_UPDATED") = rewardFields
    BY DEF SnapshotFields
  <2>2. /\ operationRules["REWARD_UPDATED"].entityType = "REWARD"
        /\ operationRules["REWARD_UPDATED"].participant = "forbidden"
        /\ operationRules["REWARD_UPDATED"].before = rewardRule
        /\ operationRules["REWARD_UPDATED"].after = rewardRule
    BY DEF operationRules, ChangeRule
  <2> QED BY <2>1, <2>2, CallsAreKept, RewardSnapshotsPass, NothingPasses
<1>3. \A c \in Call("REWARD_STATUS_CHANGED", "REWARD", FALSE, activeEntity, activeEntity, Nothing) :
        Accepted(c) /\ Recorded(c) = c
  <2>1. SnapshotFields("REWARD_STATUS_CHANGED") = {"id", "isActive"}
    BY DEF SnapshotFields
  <2>2. /\ operationRules["REWARD_STATUS_CHANGED"].entityType = "REWARD"
        /\ operationRules["REWARD_STATUS_CHANGED"].participant = "forbidden"
        /\ operationRules["REWARD_STATUS_CHANGED"].before = activeEntityRule
        /\ operationRules["REWARD_STATUS_CHANGED"].after = activeEntityRule
    BY DEF operationRules, ChangeRule
  <2> QED BY <2>1, <2>2, CallsAreKept, ActionSnapshotsPass, NothingPasses
<1>4. \A c \in Call("REWARD_REDEMPTION_DELIVERED", "REWARD_REDEMPTION", TRUE, redemptionDeliveryBefore,
      redemptionDeliveryAfter, [rewardRedemptionId : Text]) :
        Accepted(c) /\ Recorded(c) = c
  <2>1. SnapshotFields("REWARD_REDEMPTION_DELIVERED") = redemptionFields
    BY DEF SnapshotFields
  <2>2. /\ operationRules["REWARD_REDEMPTION_DELIVERED"].entityType = "REWARD_REDEMPTION"
        /\ operationRules["REWARD_REDEMPTION_DELIVERED"].participant = "required"
        /\ operationRules["REWARD_REDEMPTION_DELIVERED"].before = redemptionDeliveryBeforeRule
        /\ operationRules["REWARD_REDEMPTION_DELIVERED"].after = redemptionDeliveryAfterRule
        /\ operationRules["REWARD_REDEMPTION_DELIVERED"].metadata = redemptionMetadataRule
    BY DEF operationRules, ChangeRule
  <2> QED BY <2>1, <2>2, CallsAreKept, RewardSnapshotsPass, MetadataPasses
<1>5. \A c \in Call("REWARD_REDEMPTION_CANCELLED", "REWARD_REDEMPTION", TRUE, redemptionCancellationBefore,
      redemptionCancellationAfter, [rewardRedemptionId : Text, pointEventId : Text]) :
        Accepted(c) /\ Recorded(c) = c
  <2>1. SnapshotFields("REWARD_REDEMPTION_CANCELLED") = redemptionFields
    BY DEF SnapshotFields
  <2>2. /\ operationRules["REWARD_REDEMPTION_CANCELLED"].entityType = "REWARD_REDEMPTION"
        /\ operationRules["REWARD_REDEMPTION_CANCELLED"].participant = "required"
        /\ operationRules["REWARD_REDEMPTION_CANCELLED"].before = redemptionCancellationBeforeRule
        /\ operationRules["REWARD_REDEMPTION_CANCELLED"].after = redemptionCancellationAfterRule
        /\ operationRules["REWARD_REDEMPTION_CANCELLED"].metadata = redemptionCancellationMetadataRule
    BY DEF operationRules, ChangeRule
  <2> QED BY <2>1, <2>2, CallsAreKept, RewardSnapshotsPass, MetadataPasses
<1> QED BY <1>1, <1>2, <1>3, <1>4, <1>5 DEF RewardCalls

(* About a code, a batch or a bulk operation (ClaimCodesService).             *)
LEMMA ClaimCodeCallsAreKept ==
  \A c \in ClaimCodeCalls : Accepted(c) /\ Recorded(c) = c
<1>1. \A c \in Call("CLAIM_CODE_STATUS_CHANGED", "CLAIM_CODE", FALSE, claimCodeSnapshot, claimCodeSnapshot, Nothing) :
        Accepted(c) /\ Recorded(c) = c
  <2>1. /\ operationRules["CLAIM_CODE_STATUS_CHANGED"].entityType = "CLAIM_CODE"
        /\ operationRules["CLAIM_CODE_STATUS_CHANGED"].participant = "optional"
        /\ operationRules["CLAIM_CODE_STATUS_CHANGED"].before = claimCodeRule
        /\ operationRules["CLAIM_CODE_STATUS_CHANGED"].after = claimCodeRule
    BY DEF operationRules, ChangeRule
  <2> QED BY <2>1, CallsAreKept, ClaimCodeSnapshotsPass, NothingPasses
<1>2. \A c \in Call("CLAIM_CODE_BATCH_GENERATED", "CLAIM_CODE_BATCH", FALSE, Nothing, claimCodeBatch, Nothing) :
        Accepted(c) /\ Recorded(c) = c
  <2>1. /\ operationRules["CLAIM_CODE_BATCH_GENERATED"].entityType = "CLAIM_CODE_BATCH"
        /\ operationRules["CLAIM_CODE_BATCH_GENERATED"].participant = "forbidden"
        /\ operationRules["CLAIM_CODE_BATCH_GENERATED"].before = Absent
        /\ operationRules["CLAIM_CODE_BATCH_GENERATED"].after = claimCodeBatchRule
    BY DEF operationRules, ChangeRule, CreationRule
  <2> QED BY <2>1, CallsAreKept, ClaimCodeSnapshotsPass, NothingPasses
<1>3. \A c \in Call("CLAIM_CODE_BULK_STATUS_CHANGED", "CLAIM_CODE_BULK_OPERATION", FALSE, Nothing, claimCodeBulk,
      Nothing) :
        Accepted(c) /\ Recorded(c) = c
  <2>1. /\ operationRules["CLAIM_CODE_BULK_STATUS_CHANGED"].entityType = "CLAIM_CODE_BULK_OPERATION"
        /\ operationRules["CLAIM_CODE_BULK_STATUS_CHANGED"].participant = "forbidden"
        /\ operationRules["CLAIM_CODE_BULK_STATUS_CHANGED"].before = Absent
        /\ operationRules["CLAIM_CODE_BULK_STATUS_CHANGED"].after = claimCodeBulkAuditRule
    BY DEF operationRules, ChangeRule, CreationRule
  <2> QED BY <2>1, CallsAreKept, ClaimCodeSnapshotsPass, NothingPasses
<1> QED BY <1>1, <1>2, <1>3 DEF ClaimCodeCalls

(* About a balance (BalanceOperationsService).                                *)
LEMMA BalanceCallsAreKept ==
  \A c \in BalanceCalls : Accepted(c) /\ Recorded(c) = c
<1>1. \A c \in Call("PARTICIPANT_BALANCE_ADJUSTED", "POINT_EVENT", TRUE, balanceBefore, balanceAfter,
      [pointEventId : Text] \union [pointEventId : Text, actionId : Text]) :
        Accepted(c) /\ Recorded(c) = c
  <2>1. /\ operationRules["PARTICIPANT_BALANCE_ADJUSTED"].entityType = "POINT_EVENT"
        /\ operationRules["PARTICIPANT_BALANCE_ADJUSTED"].participant = "required"
        /\ operationRules["PARTICIPANT_BALANCE_ADJUSTED"].before = balanceBeforeRule
        /\ operationRules["PARTICIPANT_BALANCE_ADJUSTED"].after = balanceAdjustedAfterRule
    BY DEF operationRules, ChangeRule
  <2> QED BY <2>1, CallsAreKept, BalanceSnapshotsPass, MetadataPasses
<1>2. \A c \in Call("PARTICIPANT_BALANCE_ADJUSTMENT_REVERSED", "POINT_EVENT", TRUE, reversalBefore, reversalAfter,
      [originalPointEventId : Text, reversalPointEventId : Text]) :
        Accepted(c) /\ Recorded(c) = c
  <2>1. /\ operationRules["PARTICIPANT_BALANCE_ADJUSTMENT_REVERSED"].entityType = "POINT_EVENT"
        /\ operationRules["PARTICIPANT_BALANCE_ADJUSTMENT_REVERSED"].participant = "required"
        /\ operationRules["PARTICIPANT_BALANCE_ADJUSTMENT_REVERSED"].before = balanceReversalBeforeRule
        /\ operationRules["PARTICIPANT_BALANCE_ADJUSTMENT_REVERSED"].after = balanceReversalAfterRule
    BY DEF operationRules, ChangeRule
  <2> QED BY <2>1, CallsAreKept, BalanceSnapshotsPass, MetadataPasses
<1>3. \A c \in Call("RECONCILIATION_ADJUSTMENT_CONFIRMED", "RECONCILIATION", TRUE, reconciliation,
      reconciliationOfEvents, [pointEventIds : {"ids"}]) :
        Accepted(c) /\ Recorded(c) = c
  <2>1. /\ operationRules["RECONCILIATION_ADJUSTMENT_CONFIRMED"].entityType = "RECONCILIATION"
        /\ operationRules["RECONCILIATION_ADJUSTMENT_CONFIRMED"].participant = "required"
        /\ operationRules["RECONCILIATION_ADJUSTMENT_CONFIRMED"].before = reconciliationBalanceRule
        /\ operationRules["RECONCILIATION_ADJUSTMENT_CONFIRMED"].after = reconciliationBalanceRule
        /\ operationRules["RECONCILIATION_ADJUSTMENT_CONFIRMED"].metadata = balanceMetadataRule
    BY DEF operationRules, ChangeRule
  <2> DEFINE M == [pointEventIds : {"ids"}]
  <2>2. \A m \in M : Passes(balanceMetadataRule, m, MetadataFields, FALSE)
    BY MetadataPasses
  <2> HIDE DEF M
  <2>3. \A c \in Call("RECONCILIATION_ADJUSTMENT_CONFIRMED", "RECONCILIATION", TRUE, reconciliation,
                     reconciliationOfEvents, M) : Accepted(c) /\ Recorded(c) = c
    BY <2>1, <2>2, CallsAreKept, BalanceSnapshotsPass
  <2> QED BY <2>3 DEF M
<1> QED BY <1>1, <1>2, <1>3 DEF BalanceCalls

LEMMA EachCallIsKept ==
  \A c \in Calls : Accepted(c) /\ Recorded(c) = c
BY OperatorCallsAreKept, ParticipantCallsAreKept, ActionCallsAreKept, RewardCallsAreKept, ClaimCodeCallsAreKept,
   BalanceCallsAreKept DEF Calls

(* Whatever any service passes for any operation is admitted by the rules and *)
(* recorded whole (AuditService.record and every caller of it).               *)
THEOREM CallsStayKept == ContractSpec => []EveryCallIsKept
<1>1. ContractInit => EveryCallIsKept
  BY DEF ContractInit, EveryCallIsKept
<1>2. EveryCallIsKept /\ [ContractNext]_contractVars => EveryCallIsKept'
  BY EachCallIsKept DEF ContractNext, Record, contractVars, EveryCallIsKept
<1> QED BY <1>1, <1>2, PTL DEF ContractSpec

-----------------------------------------------------------------------------
(* AuditTrail.  What an event shows is what its call passes and the row       *)
(* keeps: the calls are sorted by the service they come from, and for every   *)
(* operation on a row the fields that stay of its two snapshots are found.    *)

CallFields == {"operation", "entityType", "hasParticipant", "before", "after", "metadata"}

OperatorOperations ==
  {"ADMIN_OPERATOR_CREATED", "ADMIN_OPERATOR_UPDATED", "ADMIN_OPERATOR_STATUS_CHANGED",
   "ADMIN_OPERATOR_ACTIVATION_RESET", "ADMIN_OPERATOR_ACTIVATED"}
ParticipantOperations == {"PARTICIPANT_PASSWORD_RESET", "PARTICIPANT_STATUS_CHANGED"}
ActionOperations == {"ACTION_CREATED", "ACTION_UPDATED", "ACTION_STATUS_CHANGED"}
RewardOperations ==
  {"REWARD_CREATED", "REWARD_UPDATED", "REWARD_STATUS_CHANGED", "REWARD_REDEMPTION_DELIVERED",
   "REWARD_REDEMPTION_CANCELLED"}
ClaimCodeOperations ==
  {"CLAIM_CODE_STATUS_CHANGED", "CLAIM_CODE_BATCH_GENERATED", "CLAIM_CODE_BULK_STATUS_CHANGED"}
BalanceOperations ==
  {"PARTICIPANT_BALANCE_ADJUSTED", "PARTICIPANT_BALANCE_ADJUSTMENT_REVERSED", "RECONCILIATION_ADJUSTMENT_CONFIRMED"}

(* A call about an operator's row passes the operator before and after        *)
(* (AdminOperatorsService).                                                   *)
LEMMA OperatorCallsPass ==
  ASSUME NEW c \in OperatorCalls
  PROVE  /\ DOMAIN c = CallFields /\ c.operation \in OperatorOperations
         /\ c.operation \in {"ADMIN_OPERATOR_UPDATED", "ADMIN_OPERATOR_STATUS_CHANGED"} =>
              c.before \in operatorSnapshot /\ c.after \in operatorSnapshot
<1>1. CASE c \in Call("ADMIN_OPERATOR_CREATED", "ADMIN_OPERATOR", FALSE, Nothing, operatorSnapshot, Nothing)
  BY <1>1 DEF Call, OperatorOperations, CallFields
<1>2. CASE c \in Call("ADMIN_OPERATOR_ACTIVATED", "ADMIN_OPERATOR", FALSE, operatorSnapshot, operatorSnapshot, Nothing)
  BY <1>2 DEF Call, OperatorOperations, CallFields
<1>3. ASSUME NEW o \in {"ADMIN_OPERATOR_UPDATED", "ADMIN_OPERATOR_STATUS_CHANGED", "ADMIN_OPERATOR_ACTIVATION_RESET"},
             c \in Call(o, "ADMIN_OPERATOR", FALSE, operatorSnapshot, operatorSnapshot, sessionsRevoked)
      PROVE  /\ DOMAIN c = CallFields /\ c.operation \in OperatorOperations
             /\ c.before \in operatorSnapshot /\ c.after \in operatorSnapshot
  BY <1>3 DEF Call, OperatorOperations, CallFields
<1> QED BY <1>1, <1>2, <1>3 DEF OperatorCalls

(* The same of a participant's status (AdminParticipantsService).             *)
LEMMA ParticipantCallsPass ==
  ASSUME NEW c \in ParticipantCalls
  PROVE  /\ DOMAIN c = CallFields /\ c.operation \in ParticipantOperations
         /\ c.operation = "PARTICIPANT_STATUS_CHANGED" => c.before \in participantStatus /\ c.after \in participantStatus
BY DEF ParticipantCalls, Call, CallFields, ParticipantOperations

(* The same of an activity; an edit may tell that the code changed            *)
(* (ActionsService.update).                                                   *)
LEMMA ActionCallsPass ==
  ASSUME NEW c \in ActionCalls
  PROVE  /\ DOMAIN c = CallFields /\ c.operation \in ActionOperations
         /\ c.operation = "ACTION_UPDATED" =>
              /\ c.before \in actionSnapshot \union actionSnapshotOfCode
              /\ c.after \in actionSnapshot \union actionSnapshotOfCode
         /\ c.operation = "ACTION_STATUS_CHANGED" => c.before \in activeEntity /\ c.after \in activeEntity
BY DEF ActionCalls, Call, CallFields, ActionOperations

(* The same of a reward and of its redemption (RewardsService).               *)
LEMMA RewardCallsPass ==
  ASSUME NEW c \in RewardCalls
  PROVE  /\ DOMAIN c = CallFields /\ c.operation \in RewardOperations
         /\ c.operation = "REWARD_UPDATED" => c.before \in rewardSnapshot /\ c.after \in rewardSnapshot
         /\ c.operation = "REWARD_STATUS_CHANGED" => c.before \in activeEntity /\ c.after \in activeEntity
         /\ c.operation = "REWARD_REDEMPTION_DELIVERED" =>
              c.before \in redemptionDeliveryBefore /\ c.after \in redemptionDeliveryAfter
         /\ c.operation = "REWARD_REDEMPTION_CANCELLED" =>
              c.before \in redemptionCancellationBefore /\ c.after \in redemptionCancellationAfter
BY DEF RewardCalls, Call, CallFields, RewardOperations

(* The same of a code (ClaimCodesService.updateStatus).                       *)
LEMMA ClaimCodeCallsPass ==
  ASSUME NEW c \in ClaimCodeCalls
  PROVE  /\ DOMAIN c = CallFields /\ c.operation \in ClaimCodeOperations
         /\ c.operation = "CLAIM_CODE_STATUS_CHANGED" => c.before \in claimCodeSnapshot /\ c.after \in claimCodeSnapshot
BY DEF ClaimCodeCalls, Call, CallFields, ClaimCodeOperations

(* No other call is about one of these rows.                                  *)
LEMMA BalanceCallsPass ==
  ASSUME NEW c \in BalanceCalls
  PROVE  c.operation \in BalanceOperations
BY DEF BalanceCalls, Call, BalanceOperations

\* The operations an administrator's change of one row is recorded under, and
\* the fields of that row that the event of each shows.
RowOperations ==
  {"PARTICIPANT_STATUS_CHANGED", "ADMIN_OPERATOR_UPDATED", "ADMIN_OPERATOR_STATUS_CHANGED", "ACTION_UPDATED",
   "ACTION_STATUS_CHANGED", "REWARD_UPDATED", "REWARD_STATUS_CHANGED", "REWARD_REDEMPTION_DELIVERED",
   "REWARD_REDEMPTION_CANCELLED", "CLAIM_CODE_STATUS_CHANGED"}
RowFields == {"name", "adminProfile", "isActive", "stock", "image", "status", "points", "isUsed"}
Shown(o) ==
  CASE o \in {"PARTICIPANT_STATUS_CHANGED", "ACTION_STATUS_CHANGED", "REWARD_STATUS_CHANGED"} -> {"isActive"}
    [] o \in {"ADMIN_OPERATOR_UPDATED", "ADMIN_OPERATOR_STATUS_CHANGED"} -> {"name", "adminProfile", "isActive"}
    [] o = "ACTION_UPDATED" -> {"name", "points", "isActive"}
    [] o = "REWARD_UPDATED" -> {"name", "stock", "isActive"}
    [] o = "REWARD_REDEMPTION_DELIVERED" -> {"status"}
    [] o = "REWARD_REDEMPTION_CANCELLED" -> {"status", "stock", "points"}
    [] o = "CLAIM_CODE_STATUS_CHANGED" -> {"isActive", "isUsed"}

\* A snapshot as an event keeps it for an operation, and what it shows of a row.
Keeps(o, object) ==
  /\ object # Absent
  /\ DOMAIN object \intersect SnapshotFields(o) \intersect RowFields = Shown(o)

(* The snapshots passed for each operation have, of the fields the row of the *)
(* audit keeps, those listed above (sanitizeSnapshot).                        *)
LEMMA SnapshotsAreKept ==
  /\ \A s \in participantStatus : Keeps("PARTICIPANT_STATUS_CHANGED", s)
  /\ \A s \in operatorSnapshot : Keeps("ADMIN_OPERATOR_UPDATED", s) /\ Keeps("ADMIN_OPERATOR_STATUS_CHANGED", s)
  /\ \A s \in actionSnapshot \union actionSnapshotOfCode : Keeps("ACTION_UPDATED", s)
  /\ \A s \in activeEntity : Keeps("ACTION_STATUS_CHANGED", s) /\ Keeps("REWARD_STATUS_CHANGED", s)
  /\ \A s \in rewardSnapshot : Keeps("REWARD_UPDATED", s)
  /\ \A s \in redemptionDeliveryBefore \union redemptionDeliveryAfter : Keeps("REWARD_REDEMPTION_DELIVERED", s)
  /\ \A s \in redemptionCancellationBefore \union redemptionCancellationAfter :
       Keeps("REWARD_REDEMPTION_CANCELLED", s)
  /\ \A s \in claimCodeSnapshot : Keeps("CLAIM_CODE_STATUS_CHANGED", s)
<1> USE AbsentAssumption DEF AbsentAssumption, Snapshots, Keeps, RowFields
<1>1. \A s \in participantStatus : Keeps("PARTICIPANT_STATUS_CHANGED", s)
  <2>1. SnapshotFields("PARTICIPANT_STATUS_CHANGED") = {"id", "isActive"}
    BY DEF SnapshotFields
  <2>2. Shown("PARTICIPANT_STATUS_CHANGED") = {"isActive"}
    BY DEF Shown
  <2>3. \A s \in participantStatus : DOMAIN s = {"id", "isActive"}
    BY DEF participantStatus
  <2> QED BY <2>1, <2>2, <2>3
<1>2. \A s \in operatorSnapshot : Keeps("ADMIN_OPERATOR_UPDATED", s) /\ Keeps("ADMIN_OPERATOR_STATUS_CHANGED", s)
  <2>1. /\ SnapshotFields("ADMIN_OPERATOR_UPDATED") = operatorFields
        /\ SnapshotFields("ADMIN_OPERATOR_STATUS_CHANGED") = operatorFields
    BY DEF SnapshotFields
  <2>2. /\ Shown("ADMIN_OPERATOR_UPDATED") = {"name", "adminProfile", "isActive"}
        /\ Shown("ADMIN_OPERATOR_STATUS_CHANGED") = {"name", "adminProfile", "isActive"}
    BY DEF Shown
  <2>3. \A s \in operatorSnapshot : DOMAIN s = operatorFields
    BY DEF operatorSnapshot, operatorFields
  <2>4. operatorFields \intersect operatorFields \intersect RowFields = {"name", "adminProfile", "isActive"}
    BY DEF operatorFields
  <2> QED BY <2>1, <2>2, <2>3, <2>4
<1>3. \A s \in actionSnapshot \union actionSnapshotOfCode : Keeps("ACTION_UPDATED", s)
  <2>1. SnapshotFields("ACTION_UPDATED") = actionFields
    BY DEF SnapshotFields
  <2>2. Shown("ACTION_UPDATED") = {"name", "points", "isActive"}
    BY DEF Shown
  <2>3. \A s \in actionSnapshot : DOMAIN s = actionFields \ {"codeChanged"}
    BY DEF actionSnapshot, actionFields
  <2>4. \A s \in actionSnapshotOfCode : DOMAIN s = actionFields
    BY DEF actionSnapshotOfCode, actionFields
  <2>5. /\ (actionFields \ {"codeChanged"}) \intersect actionFields \intersect RowFields = {"name", "points", "isActive"}
        /\ actionFields \intersect actionFields \intersect RowFields = {"name", "points", "isActive"}
    BY DEF actionFields
  <2> QED BY <2>1, <2>2, <2>3, <2>4, <2>5
<1>4. \A s \in activeEntity : Keeps("ACTION_STATUS_CHANGED", s) /\ Keeps("REWARD_STATUS_CHANGED", s)
  <2>1. /\ SnapshotFields("ACTION_STATUS_CHANGED") = {"id", "isActive"}
        /\ SnapshotFields("REWARD_STATUS_CHANGED") = {"id", "isActive"}
    BY DEF SnapshotFields
  <2>2. Shown("ACTION_STATUS_CHANGED") = {"isActive"} /\ Shown("REWARD_STATUS_CHANGED") = {"isActive"}
    BY DEF Shown
  <2>3. \A s \in activeEntity : DOMAIN s = {"isActive"}
    BY DEF activeEntity
  <2> QED BY <2>1, <2>2, <2>3
<1>5. \A s \in rewardSnapshot : Keeps("REWARD_UPDATED", s)
  <2>1. SnapshotFields("REWARD_UPDATED") = rewardFields
    BY DEF SnapshotFields
  <2>2. Shown("REWARD_UPDATED") = {"name", "stock", "isActive"}
    BY DEF Shown
  <2>3. \A s \in rewardSnapshot : DOMAIN s = rewardFields
    BY DEF rewardSnapshot, rewardFields
  <2>4. rewardFields \intersect rewardFields \intersect RowFields = {"name", "stock", "isActive"}
    BY DEF rewardFields
  <2> QED BY <2>1, <2>2, <2>3, <2>4
<1>6. \A s \in redemptionDeliveryBefore \union redemptionDeliveryAfter : Keeps("REWARD_REDEMPTION_DELIVERED", s)
  <2>1. SnapshotFields("REWARD_REDEMPTION_DELIVERED") = redemptionFields
    BY DEF SnapshotFields
  <2>2. Shown("REWARD_REDEMPTION_DELIVERED") = {"status"}
    BY DEF Shown
  <2>3. \A s \in redemptionDeliveryBefore \union redemptionDeliveryAfter :
          DOMAIN s = {"id", "status", "deliveredAt", "deliveredByAdminId"}
    BY DEF redemptionDeliveryBefore, redemptionDeliveryAfter
  <2>4. {"id", "status", "deliveredAt", "deliveredByAdminId"} \intersect redemptionFields \intersect RowFields = {"status"}
    BY DEF redemptionFields
  <2> QED BY <2>1, <2>2, <2>3, <2>4
<1>7. \A s \in redemptionCancellationBefore \union redemptionCancellationAfter :
        Keeps("REWARD_REDEMPTION_CANCELLED", s)
  <2>1. SnapshotFields("REWARD_REDEMPTION_CANCELLED") = redemptionFields
    BY DEF SnapshotFields
  <2>2. Shown("REWARD_REDEMPTION_CANCELLED") = {"status", "stock", "points"}
    BY DEF Shown
  <2>3. \A s \in redemptionCancellationBefore : DOMAIN s = {"id", "status", "stock", "points"}
    BY DEF redemptionCancellationBefore
  <2>4. \A s \in redemptionCancellationAfter :
          DOMAIN s = {"id", "status", "stock", "points", "cancelledAt", "cancelledByAdminId", "pointEventId"}
    BY DEF redemptionCancellationAfter
  <2>5. /\ {"id", "status", "stock", "points"} \intersect redemptionFields \intersect RowFields
             = {"status", "stock", "points"}
        /\ {"id", "status", "stock", "points", "cancelledAt", "cancelledByAdminId", "pointEventId"}
             \intersect redemptionFields \intersect RowFields = {"status", "stock", "points"}
    BY DEF redemptionFields
  <2> QED BY <2>1, <2>2, <2>3, <2>4, <2>5
<1>8. \A s \in claimCodeSnapshot : Keeps("CLAIM_CODE_STATUS_CHANGED", s)
  <2>1. SnapshotFields("CLAIM_CODE_STATUS_CHANGED") = {"id", "isActive", "isUsed", "maskedCode"}
    BY DEF SnapshotFields
  <2>2. Shown("CLAIM_CODE_STATUS_CHANGED") = {"isActive", "isUsed"}
    BY DEF Shown
  <2>3. \A s \in claimCodeSnapshot : DOMAIN s = {"id", "isActive", "isUsed", "maskedCode"}
    BY DEF claimCodeSnapshot
  <2> QED BY <2>1, <2>2, <2>3
<1> QED BY <1>1, <1>2, <1>3, <1>4, <1>5, <1>6, <1>7, <1>8

(* A call made under one of these operations passes two such snapshots.       *)
LEMMA CallsPassTheirSnapshots ==
  ASSUME NEW c \in Calls, c.operation \in RowOperations
  PROVE  DOMAIN c = CallFields /\ Keeps(c.operation, c.before) /\ Keeps(c.operation, c.after)
<1> USE DEF RowOperations
<1>1. CASE c \in OperatorCalls
  BY <1>1, OperatorCallsPass, SnapshotsAreKept DEF OperatorOperations
<1>2. CASE c \in ParticipantCalls
  BY <1>2, ParticipantCallsPass, SnapshotsAreKept DEF ParticipantOperations
<1>3. CASE c \in ActionCalls
  BY <1>3, ActionCallsPass, SnapshotsAreKept DEF ActionOperations
<1>4. CASE c \in RewardCalls
  BY <1>4, RewardCallsPass, SnapshotsAreKept DEF RewardOperations
<1>5. CASE c \in ClaimCodeCalls
  BY <1>5, ClaimCodeCallsPass, SnapshotsAreKept DEF ClaimCodeOperations
<1>6. CASE c \in BalanceCalls
  BY <1>6, BalanceCallsPass DEF BalanceOperations
<1> QED BY <1>1, <1>2, <1>3, <1>4, <1>5, <1>6 DEF Calls

(* There is a call for each of them.                                          *)
LEMMA EachIsCalled ==
  ASSUME NEW o \in RowOperations
  PROVE  \E c \in Calls : c.operation = o
<1> DEFINE CallWith(b, a, m, e, h) ==
      [operation |-> o, entityType |-> e, hasParticipant |-> h, before |-> b, after |-> a, metadata |-> m]
<1>1. CASE o \in {"ADMIN_OPERATOR_UPDATED", "ADMIN_OPERATOR_STATUS_CHANGED"}
  <2> DEFINE s == [id |-> "string", name |-> "string", adminProfile |-> "string", isActive |-> "boolean",
                   createdAt |-> "date", updatedAt |-> "date"]
  <2>1. s \in operatorSnapshot /\ [sessionsRevoked |-> "number"] \in sessionsRevoked
    BY DEF operatorSnapshot, sessionsRevoked, Text, Flag, Date, Number
  <2>2. CallWith(s, s, [sessionsRevoked |-> "number"], "ADMIN_OPERATOR", FALSE)
          \in Call(o, "ADMIN_OPERATOR", FALSE, operatorSnapshot, operatorSnapshot, sessionsRevoked)
    BY <2>1 DEF Call
  <2>3. CallWith(s, s, [sessionsRevoked |-> "number"], "ADMIN_OPERATOR", FALSE) \in OperatorCalls
    BY <1>1, <2>2 DEF OperatorCalls
  <2> QED BY <2>3 DEF Calls
<1>2. CASE o = "PARTICIPANT_STATUS_CHANGED"
  <2> DEFINE s == [id |-> "string", isActive |-> "boolean"]
  <2>1. s \in participantStatus
    BY DEF participantStatus, Text, Flag
  <2>2. CallWith(s, s, Absent, "PARTICIPANT", TRUE) \in ParticipantCalls
    BY <1>2, <2>1 DEF ParticipantCalls, Call, Nothing
  <2> QED BY <2>2 DEF Calls
<1>3. CASE o = "ACTION_UPDATED"
  <2> DEFINE s == [id |-> "string", name |-> "string", description |-> "string", type |-> "string",
                   points |-> "number", isActive |-> "boolean", isCodeActive |-> "boolean", hasCode |-> "boolean"]
  <2>1. s \in actionSnapshot
    BY DEF actionSnapshot, Text, Flag, Number, Nullable
  <2>2. CallWith(s, s, Absent, "ACTION", FALSE) \in ActionCalls
    BY <1>3, <2>1 DEF ActionCalls, Call, Nothing
  <2> QED BY <2>2 DEF Calls
<1>4. CASE o = "ACTION_STATUS_CHANGED"
  <2>1. [isActive |-> "boolean"] \in activeEntity
    BY DEF activeEntity, Flag
  <2>2. CallWith([isActive |-> "boolean"], [isActive |-> "boolean"], Absent, "ACTION", FALSE) \in ActionCalls
    BY <1>4, <2>1 DEF ActionCalls, Call, Nothing
  <2> QED BY <2>2 DEF Calls
<1>5. CASE o = "REWARD_UPDATED"
  <2> DEFINE s == [id |-> "string", name |-> "string", description |-> "string", costInPoints |-> "number",
                   stock |-> "number", isActive |-> "boolean"]
  <2>1. s \in rewardSnapshot
    BY DEF rewardSnapshot, Text, Flag, Number, Nullable
  <2>2. CallWith(s, s, Absent, "REWARD", FALSE) \in RewardCalls
    BY <1>5, <2>1 DEF RewardCalls, Call, Nothing
  <2> QED BY <2>2 DEF Calls
<1>6. CASE o = "REWARD_STATUS_CHANGED"
  <2>1. [isActive |-> "boolean"] \in activeEntity
    BY DEF activeEntity, Flag
  <2>2. CallWith([isActive |-> "boolean"], [isActive |-> "boolean"], Absent, "REWARD", FALSE) \in RewardCalls
    BY <1>6, <2>1 DEF RewardCalls, Call, Nothing
  <2> QED BY <2>2 DEF Calls
<1>7. CASE o = "REWARD_REDEMPTION_DELIVERED"
  <2> DEFINE b == [id |-> "string", status |-> "string", deliveredAt |-> "null", deliveredByAdminId |-> "null"]
             a == [id |-> "string", status |-> "string", deliveredAt |-> "date", deliveredByAdminId |-> "string"]
             m == [rewardRedemptionId |-> "string"]
  <2>1. b \in redemptionDeliveryBefore /\ a \in redemptionDeliveryAfter /\ m \in [rewardRedemptionId : Text]
    BY DEF redemptionDeliveryBefore, redemptionDeliveryAfter, Text, Date
  <2>2. CallWith(b, a, m, "REWARD_REDEMPTION", TRUE) \in RewardCalls
    BY <1>7, <2>1 DEF RewardCalls, Call
  <2> QED BY <2>2 DEF Calls
<1>8. CASE o = "REWARD_REDEMPTION_CANCELLED"
  <2> DEFINE b == [id |-> "string", status |-> "string", stock |-> "number", points |-> "number"]
             a == [id |-> "string", status |-> "string", stock |-> "number", points |-> "number",
                   cancelledAt |-> "date", cancelledByAdminId |-> "string", pointEventId |-> "string"]
             m == [rewardRedemptionId |-> "string", pointEventId |-> "string"]
  <2>1. /\ b \in redemptionCancellationBefore /\ a \in redemptionCancellationAfter
        /\ m \in [rewardRedemptionId : Text, pointEventId : Text]
    BY DEF redemptionCancellationBefore, redemptionCancellationAfter, Text, Date, Number
  <2>2. CallWith(b, a, m, "REWARD_REDEMPTION", TRUE) \in RewardCalls
    BY <1>8, <2>1 DEF RewardCalls, Call
  <2> QED BY <2>2 DEF Calls
<1>9. CASE o = "CLAIM_CODE_STATUS_CHANGED"
  <2> DEFINE s == [id |-> "string", isActive |-> "boolean", isUsed |-> "boolean", maskedCode |-> "mask"]
  <2>1. s \in claimCodeSnapshot
    BY DEF claimCodeSnapshot, Text, Flag
  <2>2. CallWith(s, s, Absent, "CLAIM_CODE", FALSE) \in ClaimCodeCalls
    BY <1>9, <2>1 DEF ClaimCodeCalls, Call, Nothing
  <2> QED BY <2>2 DEF Calls
<1> QED BY <1>1, <1>2, <1>3, <1>4, <1>5, <1>6, <1>7, <1>8, <1>9 DEF RowOperations

(* So an event of one of them shows those fields of the row as it was, and of *)
(* the row as it became (AuditService.record).                                *)
LEMMA EventShows ==
  ASSUME NEW o \in RowOperations, NEW b, NEW a, DOMAIN b \subseteq RowFields, DOMAIN a = DOMAIN b
  PROVE  LET e == Event(o, b, a) IN
         /\ e.operation = o
         /\ DOMAIN e.before = DOMAIN b \intersect Shown(o) /\ DOMAIN e.after = DOMAIN b \intersect Shown(o)
         /\ \A f \in DOMAIN b \intersect Shown(o) : e.before[f] = b[f] /\ e.after[f] = a[f]
<1> DEFINE c == CHOOSE x \in Calls : x.operation = o
           r == Recorded(c)
<1>1. c \in Calls /\ c.operation = o
  BY EachIsCalled
<1>2. DOMAIN c = CallFields /\ Keeps(o, c.before) /\ Keeps(o, c.after)
  BY <1>1, CallsPassTheirSnapshots
<1> HIDE DEF c
<1>3. /\ r.before = Restrict(c.before, SnapshotFields(o) \intersect DOMAIN c.before)
      /\ r.after = Restrict(c.after, SnapshotFields(o) \intersect DOMAIN c.after)
  BY <1>1, <1>2 DEF Recorded, Kept, Keeps, CallFields
<1>4. /\ DOMAIN r.before = SnapshotFields(o) \intersect DOMAIN c.before
      /\ DOMAIN r.after = SnapshotFields(o) \intersect DOMAIN c.after
  BY <1>3 DEF Restrict
<1>5. /\ DOMAIN b \intersect DOMAIN r.before = DOMAIN b \intersect Shown(o)
      /\ DOMAIN a \intersect DOMAIN r.after = DOMAIN b \intersect Shown(o)
  <2> HIDE DEF r
  <2> QED BY <1>2, <1>4 DEF Keeps
<1> HIDE DEF r
<1>6. Event(o, b, a) = [operation |-> o, before |-> Restrict(b, DOMAIN b \intersect DOMAIN r.before),
                        after |-> Restrict(a, DOMAIN a \intersect DOMAIN r.after)]
  BY DEF Event, r, c
<1> QED BY <1>5, <1>6 DEF Restrict

-----------------------------------------------------------------------------
\* The two parts of continuity, and what an event that is added must tell.
FieldsAreContinuous ==
  \A f \in AuditedFields[kind] : \A i, j \in Places(f) : Follows(i, j, f) => LeftBy(i, f) = FoundBy(j, f)
RefundIsShown(e) ==
  e.operation = "REWARD_REDEMPTION_CANCELLED" =>
    e.after.stock = e.before.stock + 1 /\ e.after.points = e.before.points + Price
RefundsAreShown == \A i \in 1 .. Len(trail) : RefundIsShown(trail[i])

Tells(e, from, to) ==
  \A f \in AuditedFields[kind] :
    /\ f \in DOMAIN e.before => e.before[f] = from[f] /\ e.after[f] = to[f]
    /\ f \notin DOMAIN e.before => to[f] = from[f]

IsSequence(s) == \E S : s \in Seq(S)

(* Appending an event keeps a sequence, leaves its earlier events in place,   *)
(* and puts the new one last.                                                 *)
LEMMA Appended ==
  ASSUME NEW s, NEW e, IsSequence(s)
  PROVE  /\ IsSequence(Append(s, e)) /\ Len(s) \in Nat /\ Len(Append(s, e)) = Len(s) + 1
         /\ \A i \in 1 .. Len(s) : Append(s, e)[i] = s[i]
         /\ Append(s, e)[Len(s) + 1] = e
<1>1. PICK S : s \in Seq(S)
  BY DEF IsSequence
<1>2. s \in Seq(S \union {e}) /\ e \in S \union {e}
  BY <1>1, SeqMonotonic
<1>3. /\ Append(s, e) \in Seq(S \union {e}) /\ Len(s) \in Nat /\ Len(Append(s, e)) = Len(s) + 1
      /\ \A i \in 1 .. Len(s) : Append(s, e)[i] = s[i]
      /\ Append(s, e)[Len(s) + 1] = e
  BY <1>2
<1> QED BY <1>3 DEF IsSequence

(* An event that finds the audited fields as the row has them, and leaves     *)
(* them as the row gets them, continues the trail: of two places that follow  *)
(* each other the new one can only be the second as the row was, or the first *)
(* as the row is now.                                                         *)
LEMMA EventContinues ==
  ASSUME IsSequence(trail), FieldsAreContinuous, NEW e, trail' = Append(trail, e), kind' = kind, Tells(e, row, row')
  PROVE  FieldsAreContinuous'
<1>1. PICK n \in Nat : /\ Len(trail) = n /\ Len(trail') = n + 1 /\ trail'[n + 1] = e
                      /\ \A i \in 1 .. n : trail'[i] = trail[i]
  BY Appended
<1> SUFFICES ASSUME NEW f \in AuditedFields[kind], NEW i \in Places(f)', NEW j \in Places(f)', Follows(i, j, f)'
             PROVE  LeftBy(i, f)' = FoundBy(j, f)'
  BY DEF FieldsAreContinuous
<1>2. Places(f)' \subseteq Nat /\ Places(f) \subseteq Nat
  BY <1>1 DEF Places
<1>3. /\ Places(f)' \ {n + 1, n + 2} = Places(f) \ {n + 1}
      /\ n + 1 \in Places(f) /\ n + 2 \in Places(f)' /\ n + 2 \notin Places(f)
      /\ n + 1 \in Places(f)' <=> f \in DOMAIN e.before
      /\ \A k \in Places(f)' : k <= n + 2
      /\ \A k \in Places(f) : k <= n + 1
  BY <1>1 DEF Places
<1>4. i < j /\ i <= n + 1 /\ \A k \in Places(f)' : k <= i \/ j <= k
  BY <1>2, <1>3 DEF Follows
<1>5. \A k \in Places(f) : k <= n /\ k # 0 => FoundBy(k, f)' = FoundBy(k, f)
  BY <1>1, <1>2 DEF FoundBy, Places
<1>6. \A k \in Places(f) : k <= n => LeftBy(k, f)' = LeftBy(k, f)
  BY <1>1, <1>2 DEF LeftBy, Places
<1>7. FoundBy(n + 1, f) = row[f] /\ FoundBy(n + 2, f)' = row'[f]
  BY <1>1 DEF FoundBy
<1>8. \A k, l \in Places(f) : Follows(k, l, f) => LeftBy(k, f) = FoundBy(l, f)
  BY DEF FieldsAreContinuous
<1>9. CASE j <= n
  <2>1. i \in Places(f) /\ j \in Places(f) /\ Follows(i, j, f)
    BY <1>1, <1>2, <1>3, <1>4, <1>9 DEF Follows
  <2>2. FoundBy(j, f)' = FoundBy(j, f)
    BY <1>1, <1>2, <1>4, <1>5, <1>9, <2>1
  <2> QED BY <1>1, <1>2, <1>4, <1>6, <1>8, <1>9, <2>1, <2>2
<1>10. CASE j = n + 1
  <2>1. f \in DOMAIN e.before /\ i \in Places(f) /\ Follows(i, n + 1, f)
    BY <1>1, <1>2, <1>3, <1>4, <1>10 DEF Follows
  <2>2. FoundBy(n + 1, f)' = e.before[f]
    BY <1>1 DEF FoundBy
  <2> QED BY <1>1, <1>2, <1>3, <1>4, <1>6, <1>7, <1>8, <1>10, <2>1, <2>2 DEF Tells
<1>11. CASE j = n + 2 /\ i = n + 1
  <2>1. f \in DOMAIN e.before
    BY <1>3, <1>11
  <2>2. LeftBy(n + 1, f)' = e.after[f]
    BY <1>1 DEF LeftBy
  <2> QED BY <1>7, <1>11, <2>1, <2>2 DEF Tells
<1>12. CASE j = n + 2 /\ i # n + 1
  <2>1. n + 1 \notin Places(f)'
    BY <1>1, <1>2, <1>4, <1>12
  <2>2. f \notin DOMAIN e.before /\ i \in Places(f) /\ Follows(i, n + 1, f)
    BY <1>1, <1>2, <1>3, <1>4, <1>12, <2>1 DEF Follows
  <2> QED BY <1>1, <1>2, <1>3, <1>4, <1>6, <1>7, <1>8, <1>12, <2>2 DEF Tells
<1> QED BY <1>1, <1>2, <1>3, <1>9, <1>10, <1>11, <1>12

(* A step that changes no audited field, and records nothing, continues it    *)
(* too: a participant's, or a failure.                                        *)
LEMMA NothingToTell ==
  ASSUME FieldsAreContinuous, UNCHANGED <<trail, kind>>, \A f \in AuditedFields[kind] : row'[f] = row[f]
  PROVE  FieldsAreContinuous'
<1> SUFFICES ASSUME NEW f \in AuditedFields[kind], NEW i \in Places(f)', NEW j \in Places(f)', Follows(i, j, f)'
             PROVE  LeftBy(i, f)' = FoundBy(j, f)'
  BY DEF FieldsAreContinuous
<1>1. Places(f)' = Places(f)
  BY DEF Places
<1>2. Follows(i, j, f)
  BY <1>1 DEF Follows
<1>3. LeftBy(i, f)' = LeftBy(i, f) /\ FoundBy(j, f)' = FoundBy(j, f)
  BY DEF LeftBy, FoundBy
<1> QED BY <1>1, <1>2, <1>3 DEF FieldsAreContinuous

\* The fields that a form has.
FormFields ==
  [participant |-> {"isActive"}, action |-> {"name", "isActive"}, operator |-> {"name", "adminProfile", "isActive"},
   reward |-> {"name", "stock", "image", "isActive"}, claimCode |-> {}]

Locked(a) == holder = [pc |-> "locked", by |-> a]

\* A request under way: one that holds the row's lock has read it as it is,
\* and one that has read a code without it asks for the status it did not see.
RequestIsSound(a) ==
  \/ request[a] = Free
  \/ /\ request[a].pc = "edit" /\ Locked(a) /\ request[a].seen = row
     /\ kind # "claimCode"
     /\ DOMAIN request[a].wish # {} /\ DOMAIN request[a].wish \subseteq FormFields[kind]
  \/ /\ request[a].pc = "transition" /\ Locked(a) /\ request[a].seen = row
     /\ kind = "reward" /\ request[a].to \in {"DELIVERED", "CANCELLED"}
  \/ /\ request[a].pc = "code" /\ kind = "claimCode"
     /\ request[a].wish = [isActive |-> ~request[a].seen.isActive]
     /\ DOMAIN request[a].seen = DOMAIN FirstRows[kind]

TrailTypeOK ==
  /\ kind \in DOMAIN FirstRows
  /\ DOMAIN row = DOMAIN FirstRows[kind]
  /\ IsSequence(trail)
  /\ DOMAIN request = Administrators

TrailInvariant ==
  /\ TrailTypeOK
  /\ \A a \in Administrators : RequestIsSound(a)
  /\ FieldsAreContinuous
  /\ RefundsAreShown

(* The fields of a row and of its form, and the kinds there are.              *)
LEMMA Rows ==
  /\ DOMAIN FirstRows = {"participant", "action", "operator", "reward", "claimCode"}
  /\ \A k \in DOMAIN FirstRows :
       /\ DOMAIN FirstRows[k] \subseteq RowFields
       /\ FormFields[k] \subseteq DOMAIN FirstRows[k] /\ AuditedFields[k] \subseteq DOMAIN FirstRows[k]
BY DEF FirstRows, RowFields, FormFields, AuditedFields

(* The trail starts empty, and the row as it is first (the rows' creation).   *)
LEMMA TrailStarts ==
  ASSUME TrailInit
  PROVE  TrailInvariant
<1>1. IsSequence(trail) /\ Len(trail) = 0
  <2>1. <<>> \in Seq({}) /\ Len(<<>>) = 0
    OBVIOUS
  <2> QED BY <2>1 DEF TrailInit, IsSequence
<1>2. TrailTypeOK
  BY <1>1 DEF TrailInit, TrailTypeOK
<1>3. \A a \in Administrators : RequestIsSound(a)
  BY DEF TrailInit, RequestIsSound
<1>4. FieldsAreContinuous
  BY <1>1 DEF TrailInit, FieldsAreContinuous, Places, Follows, LeftBy, FoundBy
<1>5. RefundsAreShown
  BY <1>1 DEF RefundsAreShown
<1> QED BY <1>2, <1>3, <1>4, <1>5 DEF TrailInvariant

\* Nobody but a, who may be about to record, holds the lock of the row.
NoOtherHolds(a) == \A b \in Administrators \ {a} : ~Locked(b)

(* The lock has one holder; without one, nobody holds it.                     *)
LEMMA OneHolder ==
  ASSUME NEW a \in Administrators
  PROVE  (Locked(a) \/ holder = Nobody) => NoOtherHolds(a) /\ (holder = Nobody => ~Locked(a))
BY DEF Locked, Nobody, NoOtherHolds

(* A commit whose event shows, of the audited fields, all that it changes as  *)
(* the row has them, keeps the invariant: the requests of the others hold no  *)
(* lock, so none of them has read what changed (runRetryableTransaction).     *)
LEMMA CommitKeeps ==
  ASSUME TrailInvariant, NEW a \in Administrators, NEW o \in RowOperations, NEW to, Commit(a, o, to), kind' = kind,
         NoOtherHolds(a), DOMAIN to = DOMAIN row, DOMAIN request[a].seen = DOMAIN row,
         \A f \in AuditedFields[kind] :
           IF f \in Shown(o) THEN request[a].seen[f] = row[f] ELSE to[f] = row[f],
         o = "REWARD_REDEMPTION_CANCELLED" =>
           /\ {"stock", "points"} \subseteq DOMAIN row
           /\ to.stock = request[a].seen.stock + 1 /\ to.points = request[a].seen.points + Price
  PROVE  TrailInvariant'
<1> DEFINE e == Event(o, request[a].seen, to)
<1>1. /\ row' = to /\ trail' = Append(trail, e) /\ holder' = Nobody
      /\ request' = [request EXCEPT ![a] = Free]
  BY DEF Commit
<1>2. kind \in DOMAIN FirstRows /\ DOMAIN row = DOMAIN FirstRows[kind] /\ DOMAIN row \subseteq RowFields
  BY Rows DEF TrailInvariant, TrailTypeOK
<1>3. /\ e.operation = o
      /\ DOMAIN e.before = DOMAIN row \intersect Shown(o)
      /\ \A f \in DOMAIN row \intersect Shown(o) : e.before[f] = request[a].seen[f] /\ e.after[f] = to[f]
  BY <1>2, EventShows
<1> HIDE DEF e
<1>4. TrailTypeOK'
  BY <1>1, Appended DEF TrailInvariant, TrailTypeOK
<1>5. ASSUME NEW b \in Administrators
      PROVE  RequestIsSound(b)'
  <2>1. CASE b = a
    BY <1>1, <2>1 DEF RequestIsSound, TrailInvariant, TrailTypeOK
  <2>2. CASE b # a
    <3>1. ~Locked(b) /\ RequestIsSound(b) /\ request'[b] = request[b]
      BY <1>1, <2>2 DEF NoOtherHolds, TrailInvariant, TrailTypeOK
    <3> QED BY <1>1, <3>1 DEF RequestIsSound
  <2> QED BY <2>1, <2>2
<1>6. FieldsAreContinuous'
  <2>1. AuditedFields[kind] \subseteq DOMAIN row
    BY <1>2, Rows
  <2>2. Tells(e, row, row')
    BY <1>1, <1>3, <2>1 DEF Tells
  <2> QED BY <1>1, <2>2, EventContinues DEF TrailInvariant, TrailTypeOK
<1>7. RefundsAreShown'
  <2>1. RefundIsShown(e)
    <3>1. CASE o # "REWARD_REDEMPTION_CANCELLED"
      BY <1>3, <3>1 DEF RefundIsShown
    <3>2. CASE o = "REWARD_REDEMPTION_CANCELLED"
      <4>1. Shown(o) = {"status", "stock", "points"}
        BY <3>2 DEF Shown
      <4>2. "stock" \in DOMAIN row \intersect Shown(o) /\ "points" \in DOMAIN row \intersect Shown(o)
        BY <3>2, <4>1
      <4> QED BY <1>3, <3>2, <4>2 DEF RefundIsShown
    <3> QED BY <3>1, <3>2
  <2>2. /\ Len(trail) \in Nat /\ Len(trail') = Len(trail) + 1 /\ trail'[Len(trail) + 1] = e
        /\ \A i \in 1 .. Len(trail) : trail'[i] = trail[i]
    BY <1>1, Appended DEF TrailInvariant, TrailTypeOK
  <2>3. \A i \in 1 .. Len(trail) : RefundIsShown(trail[i])
    BY DEF TrailInvariant, RefundsAreShown
  <2>4. ASSUME NEW i \in 1 .. Len(trail')
        PROVE  RefundIsShown(trail'[i])
    <3>1. CASE i = Len(trail) + 1
      BY <2>1, <2>2, <3>1
    <3>2. CASE i # Len(trail) + 1
      <4>1. i \in 1 .. Len(trail)
        BY <2>2, <3>2
      <4> QED BY <2>2, <2>3, <4>1
    <3> QED BY <3>1, <3>2
  <2> QED BY <2>4 DEF RefundsAreShown, RefundIsShown
<1> QED BY <1>4, <1>5, <1>6, <1>7 DEF TrailInvariant

(* Opening a request changes nothing that is recorded; whoever locks the row  *)
(* has read it.                                                               *)
LEMMA OpenKeeps ==
  ASSUME TrailInvariant, NEW a \in Administrators, NEW r, Open(a, r), UNCHANGED <<kind, row, trail>>,
         UNCHANGED holder \/ (holder = Nobody /\ holder' = [pc |-> "locked", by |-> a]),
         request'[a] = r => RequestIsSound(a)'
  PROVE  TrailInvariant'
<1>1. request' = [request EXCEPT ![a] = r] /\ DOMAIN request = Administrators
  BY DEF Open, TrailInvariant, TrailTypeOK
<1>2. TrailTypeOK'
  BY <1>1 DEF TrailInvariant, TrailTypeOK
<1>3. ASSUME NEW b \in Administrators
      PROVE  RequestIsSound(b)'
  <2>1. CASE b = a
    BY <1>1, <2>1
  <2>2. CASE b # a
    <3>1. RequestIsSound(b) /\ request'[b] = request[b]
      BY <1>1, <2>2 DEF TrailInvariant
    <3>2. Locked(b) => Locked(b)'
      BY OneHolder DEF Locked
    <3> QED BY <3>1, <3>2 DEF RequestIsSound
  <2> QED BY <2>1, <2>2
<1>4. FieldsAreContinuous'
  BY NothingToTell DEF TrailInvariant
<1>5. RefundsAreShown'
  BY DEF TrailInvariant, RefundsAreShown, RefundIsShown
<1> QED BY <1>2, <1>3, <1>4, <1>5 DEF TrailInvariant

(* What is sent of a form, and differs from the row, is of the form's fields  *)
(* (the DTOs of the edits).                                                   *)
LEMMA WishesAreOfTheForm ==
  ASSUME NEW k \in DOMAIN FirstRows, kind = k, NEW form \in Forms[k], NEW sent \in Sendable
  PROVE  sent \subseteq FormFields[k]
<1>1. \A x \in Forms[k] : DOMAIN x \subseteq FormFields[k]
  <2>1. CASE k = "participant"
    BY <2>1 DEF Forms, FormFields
  <2>2. CASE k = "action"
    BY <2>2 DEF Forms, FormFields
  <2>3. CASE k = "operator"
    BY <2>3 DEF Forms, FormFields
  <2>4. CASE k = "reward"
    BY <2>4 DEF Forms, FormFields
  <2>5. CASE k = "claimCode"
    BY <2>5 DEF Forms, FormFields
  <2> QED BY <2>1, <2>2, <2>3, <2>4, <2>5, Rows
<1>2. PICK x \in Forms[k] : sent \subseteq DOMAIN x
  BY DEF Sendable
<1> QED BY <1>1, <1>2

(* An edit locks what it has read (the FOR UPDATE of every update).           *)
LEMMA LockEditKeeps ==
  ASSUME TrailInvariant, NEW a \in Administrators, LockEdit(a)
  PROVE  TrailInvariant'
<1>1. PICK form \in Forms[kind], sent \in Sendable :
        LET changed == Changed(Restrict(form, sent), row) IN
        /\ holder = Nobody /\ changed # {}
        /\ Open(a, [pc |-> "edit", wish |-> Restrict(form, changed), seen |-> row])
        /\ holder' = [pc |-> "locked", by |-> a]
        /\ UNCHANGED <<kind, row, trail>>
  BY DEF LockEdit
<1> DEFINE changed == Changed(Restrict(form, sent), row)
           r == [pc |-> "edit", wish |-> Restrict(form, changed), seen |-> row]
<1>2. kind \in DOMAIN FirstRows /\ kind # "claimCode"
  <2>1. Forms["claimCode"] = {}
    BY DEF Forms
  <2> QED BY <1>1, <2>1 DEF TrailInvariant, TrailTypeOK
<1>6. sent \subseteq FormFields[kind]
  BY <1>1, <1>2, WishesAreOfTheForm
<1>3. changed \subseteq FormFields[kind] /\ changed # {}
  BY <1>1, <1>6 DEF Changed, Restrict
<1> HIDE DEF changed
<1>4. DOMAIN r.wish = changed
  BY DEF Restrict
<1>5. request'[a] = r => RequestIsSound(a)'
  BY <1>1, <1>2, <1>3, <1>4 DEF RequestIsSound, Locked
<1> HIDE DEF r
<1> QED BY <1>1, <1>5, OpenKeeps DEF r, changed

(* An edit records the row it holds, and what it makes of it: an operation    *)
(* that shows the status alone is of a wish for nothing else (CommitEdit).    *)
LEMMA CommitEditKeeps ==
  ASSUME TrailInvariant, NEW a \in Administrators, CommitEdit(a)
  PROVE  TrailInvariant'
<1> DEFINE sent == request[a].wish
           o == EditOperation(DOMAIN sent)
           to == Edited(row, sent)
<1>1. Commit(a, o, to) /\ kind' = kind /\ request[a].pc = "edit"
  BY DEF CommitEdit
<1>2. /\ Locked(a) /\ request[a].seen = row /\ kind # "claimCode"
      /\ DOMAIN sent # {} /\ DOMAIN sent \subseteq FormFields[kind]
  <2>1. RequestIsSound(a)
    BY DEF TrailInvariant
  <2>2. request[a] # Free
    BY <1>1 DEF Free
  <2> QED BY <1>1, <2>1, <2>2 DEF RequestIsSound
<1>3. kind \in DOMAIN FirstRows /\ DOMAIN row = DOMAIN FirstRows[kind]
  BY DEF TrailInvariant, TrailTypeOK
<1>4. /\ DOMAIN to = DOMAIN row
      /\ \A f \in DOMAIN row \ DOMAIN sent : to[f] = row[f]
  BY DEF Edited
<1>5. /\ o \in RowOperations /\ o # "REWARD_REDEMPTION_CANCELLED"
      /\ DOMAIN sent \intersect AuditedFields[kind] \subseteq Shown(o)
  <2> HIDE DEF sent
  <2>1. CASE kind = "participant"
    BY <1>2, <2>1 DEF EditOperation, RowOperations, Shown, AuditedFields
  <2>2. CASE kind = "operator"
    BY <1>2, <2>2 DEF EditOperation, RowOperations, Shown, AuditedFields
  <2>3. CASE kind = "action"
    <3>1. CASE DOMAIN sent = {"isActive"}
      BY <2>3, <3>1 DEF EditOperation, RowOperations, Shown
    <3>2. CASE DOMAIN sent # {"isActive"}
      BY <2>3, <3>2 DEF EditOperation, RowOperations, Shown, AuditedFields
    <3> QED BY <3>1, <3>2
  <2>4. CASE kind = "reward"
    <3>1. CASE DOMAIN sent = {"isActive"}
      BY <2>4, <3>1 DEF EditOperation, RowOperations, Shown
    <3>2. CASE DOMAIN sent # {"isActive"}
      <4>1. DOMAIN sent \intersect AuditedFields[kind] \subseteq {"name", "isActive"}
        BY <1>2, <2>4 DEF FormFields, AuditedFields
      <4> QED BY <2>4, <3>2, <4>1 DEF EditOperation, RowOperations, Shown
    <3> QED BY <3>1, <3>2
  <2> QED BY <1>2, <1>3, <2>1, <2>2, <2>3, <2>4, Rows
<1>6. \A f \in AuditedFields[kind] : IF f \in Shown(o) THEN request[a].seen[f] = row[f] ELSE to[f] = row[f]
  BY <1>2, <1>3, <1>4, <1>5, Rows
<1>7. NoOtherHolds(a)
  BY <1>2, OneHolder
<1> HIDE DEF o, to
<1> QED BY <1>1, <1>2, <1>4, <1>5, <1>6, <1>7, CommitKeeps

(* A delivery or a cancellation locks a pending redemption (lockRedemption).  *)
LEMMA LockTransitionKeeps ==
  ASSUME TrailInvariant, NEW a \in Administrators, LockTransition(a)
  PROVE  TrailInvariant'
<1>1. PICK to \in {"DELIVERED", "CANCELLED"} :
        /\ kind = "reward" /\ holder = Nobody
        /\ Open(a, [pc |-> "transition", to |-> to, seen |-> row])
        /\ holder' = [pc |-> "locked", by |-> a]
        /\ UNCHANGED <<kind, row, trail>>
  BY DEF LockTransition
<1> DEFINE r == [pc |-> "transition", to |-> to, seen |-> row]
<1>2. request'[a] = r => RequestIsSound(a)'
  BY <1>1 DEF RequestIsSound, Locked
<1> HIDE DEF r
<1> QED BY <1>1, <1>2, OpenKeeps DEF r

(* A delivery shows the status, and a cancellation what it gives back too     *)
(* (deliverRedemption, cancelRedemption).                                     *)
LEMMA CommitTransitionKeeps ==
  ASSUME TrailInvariant, NEW a \in Administrators, CommitTransition(a)
  PROVE  TrailInvariant'
<1>1. request[a].pc = "transition" /\ kind' = kind
  BY DEF CommitTransition
<1>2. Locked(a) /\ request[a].seen = row /\ kind = "reward" /\ request[a].to \in {"DELIVERED", "CANCELLED"}
  <2>1. RequestIsSound(a)
    BY DEF TrailInvariant
  <2>2. request[a] # Free
    BY <1>1 DEF Free
  <2> QED BY <1>1, <2>1, <2>2 DEF RequestIsSound
<1>3. DOMAIN row = {"name", "stock", "image", "isActive", "status", "points"}
  BY <1>2 DEF TrailInvariant, TrailTypeOK, FirstRows
<1>4. NoOtherHolds(a)
  BY <1>2, OneHolder
<1>5. AuditedFields[kind] = {"name", "isActive", "status"}
  BY <1>2 DEF AuditedFields
<1>6. CASE request[a].to = "DELIVERED"
  <2> DEFINE to == [row EXCEPT !.status = "DELIVERED"]
  <2>1. Commit(a, "REWARD_REDEMPTION_DELIVERED", to)
    BY <1>6 DEF CommitTransition
  <2>2. Shown("REWARD_REDEMPTION_DELIVERED") = {"status"} /\ "REWARD_REDEMPTION_DELIVERED" \in RowOperations
    BY DEF Shown, RowOperations
  <2>3. DOMAIN to = DOMAIN row /\ to["name"] = row["name"] /\ to["isActive"] = row["isActive"]
    BY <1>3
  <2> HIDE DEF to
  <2>4. \A f \in AuditedFields[kind] :
          IF f \in Shown("REWARD_REDEMPTION_DELIVERED") THEN request[a].seen[f] = row[f] ELSE to[f] = row[f]
    BY <1>2, <1>5, <2>2, <2>3
  <2> QED BY <1>1, <1>2, <1>4, <2>1, <2>2, <2>3, <2>4, CommitKeeps
<1>7. CASE request[a].to = "CANCELLED"
  <2> DEFINE to == [row EXCEPT !.status = "CANCELLED", !.stock = @ + 1, !.points = @ + Price]
  <2>1. Commit(a, "REWARD_REDEMPTION_CANCELLED", to)
    BY <1>7 DEF CommitTransition
  <2>2. /\ Shown("REWARD_REDEMPTION_CANCELLED") = {"status", "stock", "points"}
        /\ "REWARD_REDEMPTION_CANCELLED" \in RowOperations
    BY DEF Shown, RowOperations
  <2>3. /\ DOMAIN to = DOMAIN row /\ to["name"] = row["name"] /\ to["isActive"] = row["isActive"]
        /\ to.stock = row.stock + 1 /\ to.points = row.points + Price
    BY <1>3
  <2> HIDE DEF to
  <2>4. \A f \in AuditedFields[kind] :
          IF f \in Shown("REWARD_REDEMPTION_CANCELLED") THEN request[a].seen[f] = row[f] ELSE to[f] = row[f]
    BY <1>2, <1>5, <2>2, <2>3
  <2>5. {"stock", "points"} \subseteq DOMAIN row
    BY <1>3
  <2> QED BY <1>1, <1>2, <1>4, <2>1, <2>2, <2>3, <2>4, <2>5, CommitKeeps
<1> QED BY <1>2, <1>6, <1>7

(* A code is read without a lock; what is asked for is the other status       *)
(* (ClaimCodesService.updateStatus).                                          *)
LEMMA ReadCodeKeeps ==
  ASSUME TrailInvariant, NEW a \in Administrators, ReadCode(a)
  PROVE  TrailInvariant'
<1> DEFINE r == [pc |-> "code", wish |-> [isActive |-> ~row.isActive], seen |-> row]
<1>1. kind = "claimCode" /\ Open(a, r) /\ UNCHANGED <<kind, row, holder, trail>>
  BY DEF ReadCode
<1>2. DOMAIN row = DOMAIN FirstRows[kind]
  BY DEF TrailInvariant, TrailTypeOK
<1>3. request'[a] = r => RequestIsSound(a)'
  BY <1>1, <1>2 DEF RequestIsSound
<1> HIDE DEF r
<1> QED BY <1>1, <1>3, OpenKeeps

(* Its update finds the status that was read, or records nothing              *)
(* (updateStatusIfUnused).                                                    *)
LEMMA CommitCodeKeeps ==
  ASSUME TrailInvariant, NEW a \in Administrators, CommitCode(a)
  PROVE  TrailInvariant'
<1>1. request[a].pc = "code" /\ holder = Nobody /\ kind' = kind
  BY DEF CommitCode
<1>2. /\ kind = "claimCode" /\ request[a].wish = [isActive |-> ~request[a].seen.isActive]
      /\ DOMAIN request[a].seen = DOMAIN FirstRows[kind]
  <2>1. RequestIsSound(a)
    BY DEF TrailInvariant
  <2>2. request[a] # Free
    BY <1>1 DEF Free
  <2> QED BY <1>1, <2>1, <2>2 DEF RequestIsSound
<1>3. DOMAIN row = DOMAIN FirstRows[kind] /\ DOMAIN row = {"isActive", "isUsed"}
  BY <1>2 DEF TrailInvariant, TrailTypeOK, FirstRows
<1>4. NoOtherHolds(a) /\ \A b \in Administrators : ~Locked(b)
  BY <1>1, OneHolder
<1>5. AuditedFields[kind] = {"isActive"}
  BY <1>2 DEF AuditedFields
<1>6. CASE ~row.isUsed /\ row.isActive = request[a].seen.isActive
  <2> DEFINE to == Edited(row, request[a].wish)
  <2>1. Commit(a, "CLAIM_CODE_STATUS_CHANGED", to)
    BY <1>6 DEF CommitCode
  <2>2. /\ Shown("CLAIM_CODE_STATUS_CHANGED") = {"isActive", "isUsed"}
        /\ "CLAIM_CODE_STATUS_CHANGED" \in RowOperations
    BY DEF Shown, RowOperations
  <2>3. DOMAIN to = DOMAIN row
    BY DEF Edited
  <2> HIDE DEF to
  <2>4. \A f \in AuditedFields[kind] :
          IF f \in Shown("CLAIM_CODE_STATUS_CHANGED") THEN request[a].seen[f] = row[f] ELSE to[f] = row[f]
    BY <1>5, <1>6, <2>2
  <2> QED BY <1>1, <1>2, <1>3, <1>4, <2>1, <2>2, <2>3, <2>4, CommitKeeps
<1>7. CASE ~(~row.isUsed /\ row.isActive = request[a].seen.isActive)
  <2>1. request' = [request EXCEPT ![a] = Free] /\ UNCHANGED <<kind, row, holder, trail>>
    BY <1>1, <1>7 DEF CommitCode
  <2>2. TrailTypeOK'
    BY <2>1 DEF TrailInvariant, TrailTypeOK
  <2>3. ASSUME NEW b \in Administrators
        PROVE  RequestIsSound(b)'
    <3>1. RequestIsSound(b) /\ (request'[b] = request[b] \/ request'[b] = Free)
      BY <2>1 DEF TrailInvariant, TrailTypeOK
    <3> QED BY <2>1, <3>1 DEF RequestIsSound, Locked
  <2>4. FieldsAreContinuous' /\ RefundsAreShown'
    BY <2>1, NothingToTell DEF TrailInvariant, RefundsAreShown, RefundIsShown
  <2> QED BY <2>2, <2>3, <2>4 DEF TrailInvariant
<1> QED BY <1>6, <1>7

(* A bulk operation keeps the outcome of the code it changed                  *)
(* (bulkUpdateStatus).                                                        *)
LEMMA BulkStatusKeeps ==
  ASSUME TrailInvariant, NEW a \in Administrators, BulkStatus(a)
  PROVE  TrailInvariant'
<1> DEFINE e == [operation |-> "CLAIM_CODE_BULK_STATUS_CHANGED",
                 before |-> [isActive |-> row.isActive], after |-> [isActive |-> row'.isActive]]
<1>1. /\ kind = "claimCode" /\ holder = Nobody
      /\ row' = [row EXCEPT !.isActive = ~@] /\ trail' = Append(trail, e)
      /\ UNCHANGED <<kind, holder, request>>
  BY DEF BulkStatus
<1>2. AuditedFields[kind] = {"isActive"} /\ DOMAIN row' = DOMAIN row
  BY <1>1 DEF AuditedFields
<1>3. Tells(e, row, row')
  BY <1>2 DEF Tells
<1>4. RefundIsShown(e)
  BY DEF RefundIsShown
<1> HIDE DEF e
<1>5. TrailTypeOK'
  BY <1>1, <1>2, Appended DEF TrailInvariant, TrailTypeOK
<1>6. ASSUME NEW b \in Administrators
      PROVE  RequestIsSound(b)'
  <2>1. RequestIsSound(b) /\ ~Locked(b)
    BY <1>1, OneHolder DEF TrailInvariant
  <2> QED BY <1>1, <2>1 DEF RequestIsSound
<1>7. FieldsAreContinuous'
  BY <1>1, <1>3, EventContinues DEF TrailInvariant, TrailTypeOK
<1>8. RefundsAreShown'
  <2>1. /\ Len(trail) \in Nat /\ Len(trail') = Len(trail) + 1 /\ trail'[Len(trail) + 1] = e
        /\ \A i \in 1 .. Len(trail) : trail'[i] = trail[i]
    BY <1>1, Appended DEF TrailInvariant, TrailTypeOK
  <2>2. \A i \in 1 .. Len(trail) : RefundIsShown(trail[i])
    BY DEF TrailInvariant, RefundsAreShown
  <2>3. ASSUME NEW i \in 1 .. Len(trail')
        PROVE  RefundIsShown(trail'[i])
    <3>1. CASE i = Len(trail) + 1
      BY <1>4, <2>1, <3>1
    <3>2. CASE i # Len(trail) + 1
      <4>1. i \in 1 .. Len(trail)
        BY <2>1, <3>2
      <4> QED BY <2>1, <2>2, <4>1
    <3> QED BY <3>1, <3>2
  <2> QED BY <2>3 DEF RefundsAreShown, RefundIsShown
<1> QED BY <1>5, <1>6, <1>7, <1>8 DEF TrailInvariant

(* What a participant changes is audited of no row, and waits for the lock    *)
(* (the redemptions of a code and of a reward).                               *)
LEMMA ParticipantsKeep ==
  ASSUME TrailInvariant, RedeemCode \/ BuyReward
  PROVE  TrailInvariant'
<1>1. /\ holder = Nobody /\ UNCHANGED <<kind, holder, request, trail>> /\ DOMAIN row' = DOMAIN row
      /\ \A f \in AuditedFields[kind] : row'[f] = row[f]
  <2>1. CASE RedeemCode
    <3>1. AuditedFields[kind] = {"isActive"} /\ row' = [row EXCEPT !["isUsed"] = TRUE]
      BY <2>1 DEF RedeemCode, AuditedFields
    <3>2. row'["isActive"] = row["isActive"]
      <4>1. "isActive" \in DOMAIN row
        BY <2>1 DEF RedeemCode, TrailInvariant, TrailTypeOK, FirstRows
      <4> QED BY <3>1, <4>1
    <3> QED BY <2>1, <3>1, <3>2 DEF RedeemCode
  <2>2. CASE BuyReward
    <3>1. AuditedFields[kind] = {"name", "isActive", "status"} /\ row' = [row EXCEPT !["stock"] = @ - 1]
      BY <2>2 DEF BuyReward, AuditedFields
    <3>2. row'["name"] = row["name"] /\ row'["isActive"] = row["isActive"] /\ row'["status"] = row["status"]
      <4>1. {"name", "isActive", "status"} \subseteq DOMAIN row
        BY <2>2 DEF BuyReward, TrailInvariant, TrailTypeOK, FirstRows
      <4> QED BY <3>1, <4>1
    <3> QED BY <2>2, <3>1, <3>2 DEF BuyReward
  <2> QED BY <2>1, <2>2
<1>2. TrailTypeOK'
  BY <1>1 DEF TrailInvariant, TrailTypeOK
<1>3. ASSUME NEW b \in Administrators
      PROVE  RequestIsSound(b)'
  <2>1. RequestIsSound(b) /\ ~Locked(b)
    BY <1>1, OneHolder DEF TrailInvariant
  <2> QED BY <1>1, <2>1 DEF RequestIsSound
<1>4. FieldsAreContinuous' /\ RefundsAreShown'
  BY <1>1, NothingToTell DEF TrailInvariant, RefundsAreShown, RefundIsShown
<1> QED BY <1>2, <1>3, <1>4 DEF TrailInvariant

(* A request that fails gives back its lock, and leaves the row as it was.    *)
LEMMA FailRequestKeeps ==
  ASSUME TrailInvariant, NEW a \in Administrators, FailRequest(a)
  PROVE  TrailInvariant'
<1>1. /\ request' = [request EXCEPT ![a] = Free] /\ UNCHANGED <<kind, row, trail>>
      /\ holder' = IF Locked(a) THEN Nobody ELSE holder
  BY DEF FailRequest, Locked
<1>2. TrailTypeOK'
  BY <1>1 DEF TrailInvariant, TrailTypeOK
<1>3. ASSUME NEW b \in Administrators
      PROVE  RequestIsSound(b)'
  <2>1. CASE b = a
    BY <1>1, <2>1 DEF RequestIsSound, TrailInvariant, TrailTypeOK
  <2>2. CASE b # a
    <3>1. RequestIsSound(b) /\ request'[b] = request[b]
      BY <1>1, <2>2 DEF TrailInvariant, TrailTypeOK
    <3>2. Locked(b) => Locked(b)'
      BY <1>1, <2>2, OneHolder DEF Locked, NoOtherHolds
    <3> QED BY <1>1, <3>1, <3>2 DEF RequestIsSound
  <2> QED BY <2>1, <2>2
<1>4. FieldsAreContinuous' /\ RefundsAreShown'
  BY <1>1, NothingToTell DEF TrailInvariant, RefundsAreShown, RefundIsShown
<1> QED BY <1>2, <1>3, <1>4 DEF TrailInvariant

(* The invariant of the trail: whoever holds the lock of a row has read it as *)
(* it is, a status asked for without it is the one that was not there, and    *)
(* the trail is continuous.                                                   *)
THEOREM TrailInvariance == TrailSpec => []TrailInvariant
<1>1. TrailInit => TrailInvariant
  BY TrailStarts
<1>2. TrailInvariant /\ [TrailNext]_trailVars => TrailInvariant'
  <2> SUFFICES ASSUME TrailInvariant, [TrailNext]_trailVars
               PROVE  TrailInvariant'
    OBVIOUS
  <2>1. CASE UNCHANGED trailVars
    <3>1. TrailTypeOK'
      BY <2>1 DEF trailVars, TrailInvariant, TrailTypeOK
    <3>2. \A b \in Administrators : RequestIsSound(b)'
      BY <2>1 DEF trailVars, TrailInvariant, RequestIsSound, Locked
    <3>3. FieldsAreContinuous' /\ RefundsAreShown'
      BY <2>1, NothingToTell DEF trailVars, TrailInvariant, RefundsAreShown, RefundIsShown
    <3> QED BY <3>1, <3>2, <3>3 DEF TrailInvariant
  <2>2. ASSUME NEW a \in Administrators,
               \/ LockEdit(a) \/ CommitEdit(a) \/ LockTransition(a) \/ CommitTransition(a)
               \/ ReadCode(a) \/ CommitCode(a) \/ BulkStatus(a) \/ FailRequest(a)
        PROVE  TrailInvariant'
    BY <2>2, LockEditKeeps, CommitEditKeeps, LockTransitionKeeps, CommitTransitionKeeps, ReadCodeKeeps,
       CommitCodeKeeps, BulkStatusKeeps, FailRequestKeeps
  <2>3. CASE RedeemCode \/ BuyReward
    BY <2>3, ParticipantsKeep
  <2> QED BY <2>1, <2>2, <2>3 DEF TrailNext
<1> QED BY <1>1, <1>2, PTL DEF TrailSpec

(* The trail of a row is continuous whatever number of administrators change  *)
(* it, and however long it gets: each event finds the audited fields as the   *)
(* one before left them, and the last left them as they are.                  *)
THEOREM TrailStaysContinuous == TrailSpec => []AuditIsContinuous
<1>1. TrailInvariant => AuditIsContinuous
  BY DEF TrailInvariant, FieldsAreContinuous, RefundsAreShown, RefundIsShown, AuditIsContinuous
<1> QED BY <1>1, TrailInvariance, PTL
=============================================================================
