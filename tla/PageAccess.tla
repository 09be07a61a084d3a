------------------------------ MODULE PageAccess ------------------------------
(***************************************************************************)
(* Which pages a browser shows, and what the API answers them              *)
(* (frontend/app/**/layout.tsx, components/shared/RoleGate.tsx, the login  *)
(* and change-password pages, backend/src/modules/auth).  A zone's layout  *)
(* asks auth/me once, when it is mounted, and decides by that answer for   *)
(* as long as it stays mounted; the API decides every request by the row   *)
(* of the account at that moment.  In between, an admin edits the account  *)
(* and the access cookie ends.                                             *)
(*                                                                         *)
(* One browser, one account.  auth/me is answered and heard in one step: a *)
(* change between the two is the same as a change right after.             *)
(***************************************************************************)
EXTENDS ApiRoutes, Naturals

CONSTANTS
  MaxVisits,  \* bound: pages the user asks for, by a link, an address or a form
  MaxEdits,   \* bound: times the account changes or its cookies end
  MaxFaults   \* bound: requests for auth/me or auth/logout that fail on the way

VARIABLES
  account,   \* the row in users: role, disabled, owes (mustChangePassword)
  cookies,   \* whether the browser holds an access cookie that is still good
  page,      \* the path it is at
  gate,      \* useAuth of what is mounted there
  call,      \* the last request the page sent, and its answer
  budget     \* visits, edits and faults so far

vars == <<account, cookies, page, gate, call, budget>>

-----------------------------------------------------------------------------
(* The pages *)

LoginPage    == "/login"
PasswordPage == "/auth/change-password"

(* What a page may send: its loads when it is mounted, its commands when   *)
(* they are clicked.                                                       *)
PublicPages ==
  "/" :> ArticlesApi.listPublished
  @@ "/news" :> ArticlesApi.listPublished
  @@ "/news/[id]" :> ArticlesApi.findPublished \cup ArticlesApi.listPublished
  @@ "/volunteer" :> VolunteerApi.submit
  @@ "/shop" :> ShopApi.listProducts
  @@ "/shop/[id]" :> ShopApi.findProduct \cup ShopApi.listProducts
  @@ "/shop/checkout" :> ShopApi.createOrder
  @@ "/fundraising" :> CampaignsApi.listPublic \cup CampaignsApi.listTransactions

InvitePage == "/invite/accept" :> InvitesApi.accept

Volunteers == VolunteerApi.list \cup VolunteerApi.review
Orders     == ShopApi.listAdminOrders \cup ShopApi.updateOrderStatus

AdminPages ==
  "/admin" :> ReportsApi.getDashboard
  @@ "/admin/dashboard" :> ReportsApi.getDashboard
  @@ "/admin/users" :> UsersFetches
  @@ "/admin/accounts" :> InvitesApi.list \cup InvitesApi.create \cup InvitesApi.revoke
  @@ "/admin/volunteer-applications" :> Volunteers
  @@ "/admin/volunteer-applications/[id]" :> Volunteers
  @@ "/admin/activities" :> ActivitiesApi.list \cup ActivitiesApi.create
  @@ "/admin/activities/[id]" :>
       ActivitiesApi.getById \cup ActivitiesApi.listTasks \cup ActivitiesApi.addTask
  @@ "/admin/activities/[id]/matcher" :>
       MatchingApi.listAssignments \cup ActivitiesApi.listTasks
       \cup MatchingApi.run \cup MatchingApi.overrideAssignment
  @@ "/admin/articles" :> ArticlesApi.listAll \cup ArticlesApi.update \cup ArticlesApi.archive
  @@ "/admin/articles/new" :> ArticlesApi.create
  @@ "/admin/articles/[id]" :> ArticlesApi.findAdmin \cup ArticlesApi.update
  @@ "/admin/products" :>
       ShopApi.listAllProducts \cup ShopApi.createProduct \cup ShopApi.updateProduct
  @@ "/admin/orders" :> Orders
  @@ "/admin/reports" :> ReportsApi.getOverview
  @@ "/admin/fundraising" :> CampaignsApi.listTransactions

MemberPages ==
  "/member/feed" :> FeedApi.list
  @@ "/member/activities" :> MemberActivitiesApi.listOpen
  @@ "/member/activities/[id]" :>
       MemberActivitiesApi.getDetail \cup MemberActivitiesApi.submitRegistration
  @@ "/member/assignments" :>
       MemberActivitiesApi.listOpen \cup MemberAssignmentsApi.listMyAssignments
  @@ "/member/notifications" :>
       NotificationsApi.list \cup NotificationsApi.markRead \cup NotificationsApi.markAllRead
  @@ "/member/profile" :> ProfileApi.getProfile \cup ProfileApi.getImpact
  @@ "/member/streak" :> GamificationApi.getStreak \cup GamificationApi.getLeaderboard
  @@ "/member/recap" :> GalleryApi.listAlbums
  @@ "/member/recap/[id]" :> GalleryApi.getAlbum
  @@ "/member/impact" :> ProfileApi.getImpact

LogisticPages == "/logistic/orders" :> Orders

CallsOf ==
  PublicPages @@ InvitePage @@ AdminPages @@ MemberPages @@ LogisticPages
  @@ LoginPage :> {} @@ PasswordPage :> {}

Pages == DOMAIN CallsOf

(* The layout of a page; the login and change-password pages have none and *)
(* call useAuth themselves.                                                *)
ZoneOf(p) ==
  CASE p \in DOMAIN AdminPages    -> "admin"
    [] p \in DOMAIN MemberPages   -> "member"
    [] p \in DOMAIN LogisticPages -> "logistic"
    [] p = LoginPage              -> "login"
    [] p = PasswordPage           -> "password"
    [] p \in DOMAIN InvitePage    -> "invite"
    [] OTHER                      -> "public"

(* (Broken: the member zone opened to whom most of its routes let in.)      *)
AllowLogisticMembers == [admin |-> {"ADMIN"}, member |-> Roles, logistic |-> {"LOGISTIC", "ADMIN"}]

Allow == [admin |-> {"ADMIN"}, member |-> {"MEMBER", "ADMIN"}, logistic |-> {"LOGISTIC", "ADMIN"}]
Gated == DOMAIN Allow

(* The bell of the shells polls the notifications.                         *)
Sends(p) == CallsOf[p] \cup (IF ZoneOf(p) \in Gated THEN NotificationsApi.list ELSE {})

-----------------------------------------------------------------------------
(* Links: the shells' navigation, and those on the pages themselves *)

Bell == "/member/notifications"

PublicNav == {"/", "/news", "/shop", "/fundraising", "/volunteer", LoginPage}

(* (Broken: an entry for a page docs/ROUTE_MAP.md lists and nobody wrote.)  *)
AdminNavWithGallery == {"/admin", "/admin/users", "/admin/orders", "/admin/gallery"}

AdminNav ==
  {"/admin", "/admin/users", "/admin/accounts", "/admin/volunteer-applications",
   "/admin/activities", "/admin/articles", "/admin/products", "/admin/orders",
   "/admin/reports", "/admin/fundraising"}
MemberNav ==
  {"/member/feed", "/member/activities", "/member/assignments", Bell, "/member/profile",
   "/member/streak", "/member/recap", "/member/impact"}

(* (Broken: the two pages of one component linked to each other.)           *)
LogisticNavToAdmin == {"/logistic/orders", "/admin/orders"}

LogisticNav == {"/logistic/orders"}

NavOf(zone) ==
  CASE zone = "public"   -> PublicNav
    [] zone = "admin"    -> AdminNav \cup {Bell}
    [] zone = "member"   -> MemberNav
    [] zone = "logistic" -> LogisticNav \cup {Bell}
    [] zone = "login"    -> {"/"}
    [] zone = "invite"   -> {LoginPage}
    [] OTHER             -> {}

(* A notification's link is the one its event was published with.          *)
NotificationLinks == {"/member/profile", "/member/assignments", "/member/impact", "/shop"}

LinksOn ==
  "/news" :> {"/news/[id]"} @@ "/" :> {"/news/[id]"} @@ "/shop" :> {"/shop/[id]", "/shop/checkout"}
  @@ "/shop/[id]" :> {"/shop/checkout"}
  @@ "/admin/volunteer-applications" :> {"/admin/volunteer-applications/[id]"}
  @@ "/admin/activities" :> {"/admin/activities/[id]"}
  @@ "/admin/activities/[id]" :> {"/admin/activities/[id]/matcher"}
  @@ "/admin/articles" :> {"/admin/articles/new", "/admin/articles/[id]"}
  @@ "/member/activities" :> {"/member/activities/[id]"}
  @@ "/member/recap" :> {"/member/recap/[id]"}
  @@ "/member/feed" :> NotificationLinks \cup {Bell, "/news/[id]"}
  @@ Bell :> NotificationLinks

Links(p) == NavOf(ZoneOf(p)) \cup (IF p \in DOMAIN LinksOn THEN LinksOn[p] ELSE {})

-----------------------------------------------------------------------------
(* What the API answers: JwtStrategy, JwtAuthGuard, RolesGuard *)

NoUser  == [role |-> Nobody, owes |-> FALSE]
Known   == cookies /\ ~account.disabled
AsUser  == [role |-> account.role, owes |-> account.owes]
WhileOwing == {"GET auth/me", "POST auth/change-password"}

Answer(route) ==
  IF Nobody \in LetsIn[route] THEN "ok"
  ELSE IF ~Known THEN "unauthorized"
  ELSE IF account.owes /\ route \notin WhileOwing THEN "mustChangePassword"
  ELSE IF account.role \notin LetsIn[route] THEN "forbidden"
  ELSE "ok"

Answers == {"ok", "unauthorized", "mustChangePassword", "forbidden"}

-----------------------------------------------------------------------------
(* What is shown, and where the effects of the gates send the browser *)

Home(role) ==
  CASE role = "ADMIN"    -> "/admin"
    [] role = "MEMBER"   -> "/member/activities"
    [] role = "LOGISTIC" -> "/logistic/orders"

AfterLogin(user) == IF user.owes THEN PasswordPage ELSE Home(user.role)

Stay == "stay"

(* RoleGate                                                                *)
GateSends(zone, user) ==
  IF user = NoUser THEN LoginPage
  ELSE IF user.owes THEN PasswordPage
  ELSE IF user.role \notin Allow[zone] THEN "/"
  ELSE Stay

LoginSends(user)    == IF user # NoUser THEN AfterLogin(user) ELSE Stay

(* (Broken: the change-password page sends on everyone who is signed in.)   *)
PasswordSendsAll(user) == IF user = NoUser THEN LoginPage ELSE Home(user.role)

PasswordSends(user) ==
  IF user = NoUser THEN LoginPage ELSE IF ~user.owes THEN Home(user.role) ELSE Stay

SentTo(zone, user) ==
  CASE zone \in Gated     -> GateSends(zone, user)
    [] zone = "login"     -> LoginSends(user)
    [] zone = "password"  -> PasswordSends(user)
    [] OTHER              -> Stay

Zone     == ZoneOf(page)
HasAuth(zone) == zone \notin {"public", "invite"}
Leaving  == gate.known /\ SentTo(Zone, gate.user) # Stay
Shown    == \/ ~HasAuth(Zone) \/ Zone = "login"
            \/ gate.known /\ ~Leaving

-----------------------------------------------------------------------------
(* gate.fresh: the account and the cookies are as the last answer said.    *)
(* gate.led:   a link shown by a page whose gate was fresh led here, and   *)
(*             nothing changed since.                                      *)
NoCall == [route |-> "none", answer |-> "none"]
Mounted(led) == [known |-> FALSE, user |-> NoUser, fresh |-> FALSE, led |-> led]

(* A layout stays mounted while the browser moves inside its zone.         *)
Enter(p, led) ==
  /\ page' = p
  /\ gate' = IF ZoneOf(p) = Zone /\ Zone \in Gated THEN gate ELSE Mounted(led)
  /\ call' = NoCall

Spend(what) == budget' = [budget EXCEPT ![what] = @ + 1]
Left(what, max) == budget[what] < max

Init ==
  /\ account \in [role : Roles, disabled : {FALSE}, owes : BOOLEAN]
  /\ cookies \in BOOLEAN
  /\ page = "/" /\ gate = Mounted(FALSE) /\ call = NoCall
  /\ budget = [visits |-> 0, edits |-> 0, faults |-> 0]

(* useAuth: the answer of auth/me, or nobody when the request fails        *)
MeAnswers ==
  /\ HasAuth(Zone) /\ ~gate.known
  /\ gate' = [gate EXCEPT !.known = TRUE, !.fresh = TRUE,
                          !.user = IF Answer("GET auth/me") = "ok" THEN AsUser ELSE NoUser]
  /\ UNCHANGED <<account, cookies, page, call, budget>>

MeFails ==
  /\ HasAuth(Zone) /\ ~gate.known /\ Left("faults", MaxFaults)
  /\ gate' = [gate EXCEPT !.known = TRUE, !.led = FALSE]
  /\ Spend("faults")
  /\ UNCHANGED <<account, cookies, page, call>>

(* The effect of RoleGate, of the login page or of the change-password page*)
Redirect ==
  /\ Leaving
  /\ Enter(SentTo(Zone, gate.user), FALSE)
  /\ UNCHANGED <<account, cookies, budget>>

(* The page sends one of its requests; what it shows meanwhile is the      *)
(* console pages' business (ConsolePage).                                  *)
Ask(route) ==
  /\ Shown
  /\ call' = [route |-> route, answer |-> Answer(route)]
  /\ UNCHANGED <<account, cookies, page, gate, budget>>

(* A Link: the router moves without loading the document again.            *)
Follow(p) ==
  /\ Shown /\ p # page /\ Left("visits", MaxVisits)
  /\ Enter(p, Zone \in Gated /\ gate.fresh)
  /\ Spend("visits")
  /\ UNCHANGED <<account, cookies>>

(* An address typed, or a reload: everything is mounted anew. /member only *)
(* redirects to the feed.                                                  *)
Open(p) ==
  /\ Left("visits", MaxVisits)
  /\ page' = p /\ gate' = Mounted(FALSE) /\ call' = NoCall
  /\ Spend("visits")
  /\ UNCHANGED <<account, cookies>>

(* The forms: a login or a change of password that the server accepts sets *)
(* the cookies and sends the browser on with the user of the answer.       *)
Login ==
  /\ page = LoginPage /\ ~account.disabled /\ Left("visits", MaxVisits)
  /\ cookies' = TRUE
  /\ Enter(AfterLogin(AsUser), FALSE)
  /\ Spend("visits")
  /\ UNCHANGED account

ChangePassword ==
  /\ page = PasswordPage /\ Shown /\ Left("visits", MaxVisits)
  /\ Answer("POST auth/change-password") = "ok"
  /\ account' = [account EXCEPT !.owes = FALSE]
  /\ Enter(Home(account.role), FALSE)
  /\ Spend("visits")
  /\ UNCHANGED cookies

(* handleLogout of the shells: a request that fails is swallowed.          *)
Logout(fails) ==
  /\ Zone \in Gated /\ Shown /\ Left("visits", MaxVisits)
  /\ fails => Left("faults", MaxFaults)
  /\ cookies' = (cookies /\ fails)
  /\ Enter(LoginPage, FALSE)
  /\ budget' = [budget EXCEPT !.visits = @ + 1, !.faults = IF fails THEN @ + 1 ELSE @]
  /\ UNCHANGED account

(* UsersService.update: an admin gives the account another role or status. *)
EditAccount(role, disabled) ==
  /\ Left("edits", MaxEdits)
  /\ account' = [account EXCEPT !.role = role, !.disabled = disabled]
  /\ account' # account
  /\ gate' = [gate EXCEPT !.fresh = FALSE, !.led = FALSE]
  /\ Spend("edits")
  /\ UNCHANGED <<cookies, page, call>>

(* The access cookie ends, 15 minutes after the last login or change.      *)
CookieEnds ==
  /\ cookies /\ Left("edits", MaxEdits)
  /\ cookies' = FALSE
  /\ gate' = [gate EXCEPT !.fresh = FALSE, !.led = FALSE]
  /\ Spend("edits")
  /\ UNCHANGED <<account, page, call>>

Next ==
  \/ MeAnswers \/ MeFails \/ Redirect
  \/ \E route \in Sends(page) : Ask(route)
  \/ \E p \in Links(page) : Follow(p)
  \/ \E p \in Pages : Open(p)
  \/ Login \/ ChangePassword
  \/ \E fails \in BOOLEAN : Logout(fails)
  \/ \E role \in Roles, disabled \in BOOLEAN : EditAccount(role, disabled)
  \/ CookieEnds

SafetySpec == Init /\ [][Next]_vars

(* A request for auth/me settles, as fetch does, and React runs its        *)
(* effects; the user, the admin and the clock are free.                    *)
Fairness == WF_vars(MeAnswers) /\ WF_vars(Redirect)
Spec     == SafetySpec /\ Fairness

-----------------------------------------------------------------------------
(* Properties *)

(* Types: every link leads to a page there is, every request to a route    *)
(* there is.                                                               *)
TypeOK ==
  /\ account \in [role : Roles, disabled : BOOLEAN, owes : BOOLEAN]
  /\ cookies \in BOOLEAN
  /\ page \in Pages
  /\ gate \in [known : BOOLEAN, fresh : BOOLEAN, led : BOOLEAN,
               user : {NoUser} \cup [role : Roles, owes : BOOLEAN]]
  /\ call \in {NoCall} \cup [route : Routes, answer : Answers]
  /\ budget \in [visits : 0..MaxVisits, edits : 0..MaxEdits, faults : 0..MaxFaults]

Refused == call.answer \in Answers \ {"ok"}
Mismatch == {<<"/member/activities/[id]", "GET admin/activities/:id/tasks">>,
             <<"/fundraising", "GET admin/fundraising/transactions">>}

(* The gates of the frontend and the guards of the API agree: a page that  *)
(* is shown is refused nothing it asks for, unless the account or its      *)
(* cookies changed after the layout asked who the user is.  Two pages do   *)
(* ask for what no visitor of theirs but an admin may have.                *)
ShownIsServed ==
  Refused => \/ Zone \in Gated /\ ~gate.fresh
             \/ <<page, call.route>> \in Mismatch

(* No link turns its user away: who follows a link of a page that let him  *)
(* in is let in there, too. The bell is in every shell, and takes logistic *)
(* staff to a zone that does not allow them.                               *)
LinksLead ==
  gate.known /\ gate.led => ~Leaving \/ (page = Bell /\ gate.user.role = "LOGISTIC")

(* The redirects of the three gates end: once the user, the admin and the  *)
(* network have had their last say, the browser rests at a page it shows.  *)
ComesToAPage == <>[](Shown /\ ~Leaving)
================================================================================
