--------------------------- MODULE MCConsolePages ---------------------------
(***************************************************************************)
(* Two rows and each page in turn.  Two of the filters of a page, all rows *)
(* and its first status, are enough for rows to enter and leave a list, and*)
(* three of the statuses of an order, two of an assignment, for commands to*)
(* be offered, refused and repeated.  A form is filled in up to four times.*)
(* The theorems need neither bound: EveryPageFits is what they ask of the  *)
(* pages as they are.                                                      *)
(***************************************************************************)
EXTENDS ConsolePage, ConsolePages

CONSTANTS r1, r2

Only(p, S) ==
  LET Within(f) == [s \in S |-> f[s] \cap S]
      tabs == {p.firstTab} \cup ({p.first} \cap p.tabs)
  IN  [p EXCEPT !.statuses = S, !.accepts = Within(@), !.offers = Within(@), !.copyOffers = Within(@),
                !.tabs = tabs, !.lists = [t \in tabs |-> @[t] \cap S]]

TwoTabs(p) == Only(p, p.statuses)

(* Two rows and three requests show how rows and overlapping requests meet; *)
(* one row, one filter and four requests, a second command after the first  *)
(* was shown.                                                               *)
Both(p) == [page |-> p, rows |-> {r1, r2}, requests |-> 3]
One(p)  == [page |-> [p EXCEPT !.tabs = {p.firstTab}, !.lists = [t \in {p.firstTab} |-> @[t]]], rows |-> {r1}, requests |-> 4]
More(p) == [page |-> p, rows |-> {r1, r2}, requests |-> 4]
Some(p) == [page |-> p, rows |-> {r1}, requests |-> 3]

SomeOrders      == Only(OrdersPage, {"PENDING_PAYMENT_REVIEW", "CONFIRMED", "DELIVERED"})
SomeApplications == Only(ApplicationsPage, {"PENDING", "APPROVED"})
SomeInvites     == Only(AccountsPage, {"PENDING", "REVOKED", "EXPIRED"})
SomeAssignments == Only(MatcherPage, {"PROPOSED", "CONFIRMED"})

Consoles ==
  { Both(SomeOrders), One(SomeOrders), Both(TwoTabs(ApplicationsPage)), One(SomeApplications),
    One(ApplicationPage), Some(TwoTabs(AccountsPage)), [One(SomeInvites) EXCEPT !.rows = {}],
    More(Only(ArticlesPage, {"DRAFT", "PUBLISHED"})), One(ProductsPage), One(UsersPage),
    One(ActivitiesPage), One(ActivityPage), Some(SomeAssignments),
    Both(NotificationsPage), One(NotificationsPage) }

Viewers ==
  {Both(p) : p \in { TwoTabs(FundraisingPage), TwoTabs(ReportsPage), StreakPage, DashboardPage,
                     ProfilePage, ImpactPage, FeedPage, AlbumsPage, AlbumPage, OpenActivitiesPage,
                     ShopPage, ProductPage, CampaignsPage, MyAssignmentsPage }}

Forms ==
  {[page |-> p, rows |-> {}, requests |-> 4] :
     p \in { RegistrationPage, ChangePasswordPage, LoginPage, InviteAcceptPage, NewArticlePage,
             CheckoutPage, VolunteerPage }}

EveryPageFits ==
  \A p \in { OrdersPage, ApplicationsPage, ApplicationPage, AccountsPage, ArticlesPage, ProductsPage,
             UsersPage, ActivitiesPage, ActivityPage, MatcherPage, NotificationsPage, FundraisingPage,
             ReportsPage, StreakPage, DashboardPage, ProfilePage, ImpactPage, FeedPage, AlbumsPage,
             AlbumPage, OpenActivitiesPage, ShopPage, ProductPage, CampaignsPage, MyAssignmentsPage,
             RegistrationPage, ChangePasswordPage, LoginPage, InviteAcceptPage, NewArticlePage,
             CheckoutPage, VolunteerPage } : IsPage(p)

ASSUME PagesAssumption == EveryPageFits

MCInstances == Consoles \cup Viewers \cup Forms
=============================================================================
