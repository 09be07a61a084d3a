---------------------------- MODULE ConsolePages ----------------------------
(***************************************************************************)
(* The pages of src/frontend/app that list rows, and the forms, for the    *)
(* Instances of ConsolePage.  A page is built in the layers of its file:   *)
(* what it loads, what its handlers do, and which controls it renders when.*)
(***************************************************************************)
EXTENDS Naturals

(* One load that lists every row, an error state with a button to load      *)
(* again, and no controls of its own.                                       *)
Listing(name, statuses, first) ==
  [ name |-> name, statuses |-> statuses, first |-> first,
    tabs |-> {"ALL"}, firstTab |-> "ALL", lists |-> [t \in {"ALL"} |-> statuses],
    accepts |-> [s \in statuses |-> {}], offers |-> [s \in statuses |-> {}],
    copyOffers |-> [s \in statuses |-> {}],
    guard |-> "none", then |-> "reload", copyThen |-> "follows",
    rowsStay |-> FALSE, tabsStay |-> TRUE, modal |-> FALSE,
    creates |-> FALSE, formStays |-> TRUE, formShares |-> FALSE,
    bulk |-> FALSE, reloadsOnError |-> FALSE, retries |-> TRUE,
    loads |-> TRUE, repeats |-> FALSE, clears |-> FALSE ]

(* A load that sends the filter: a status, or none for all rows.            *)
FilteredListing(name, statuses, first) ==
  LET tabs == statuses \cup {"ALL"}
  IN  [Listing(name, statuses, first) EXCEPT
         !.tabs = tabs, !.lists = [t \in tabs |-> IF t = "ALL" THEN statuses ELSE {t}]]

-----------------------------------------------------------------------------
(* Orders, for admins and logistics *)

OrderStatuses == {"PENDING_PAYMENT_REVIEW", "CONFIRMED", "REJECTED", "DELIVERED", "CANCELLED"}

(* ALLOWED_ORDER_TRANSITIONS of the page.                                   *)
OrderButtons ==
  [s \in OrderStatuses |->
     CASE s = "PENDING_PAYMENT_REVIEW" -> {"CONFIRMED", "REJECTED", "CANCELLED"}
       [] s = "CONFIRMED" -> {"DELIVERED", "CANCELLED"}
       [] OTHER -> {}]

(* The API allows the same, and a status over itself.                       *)
OrderChanges == [s \in OrderStatuses |-> OrderButtons[s] \cup {s}]

OrdersLoad == FilteredListing("orders", OrderStatuses, "PENDING_PAYMENT_REVIEW")

(* One busyId; then the open copy follows and the list is loaded again.     *)
OrdersHandlers == [OrdersLoad EXCEPT !.accepts = OrderChanges, !.guard = "row", !.then = "reload"]

(* A button for each next status, in a table that only a ready page shows.  *)
OrdersTable == [OrdersHandlers EXCEPT !.offers = OrderButtons]

(* The same buttons for the order held by the sheet, over the page.         *)
OrdersPage == [OrdersTable EXCEPT !.copyOffers = OrderButtons, !.copyThen = "follows", !.modal = TRUE]

-----------------------------------------------------------------------------
(* Volunteer applications *)

ApplicationStatuses == {"PENDING", "APPROVED", "REJECTED"}

(* A review is accepted in any status.                                      *)
Reviewed == [s \in ApplicationStatuses |-> {"APPROVED", "REJECTED"}]
ReviewButtons == [s \in ApplicationStatuses |-> IF s = "PENDING" THEN {"APPROVED", "REJECTED"} ELSE {}]

ApplicationsLoad == FilteredListing("applications", ApplicationStatuses, "PENDING")

(* One busyId for single reviews, nothing for reviews of a selection.       *)
ApplicationsHandlers ==
  [ApplicationsLoad EXCEPT !.accepts = Reviewed, !.guard = "row", !.then = "reload", !.bulk = TRUE]

ApplicationsPage == [ApplicationsHandlers EXCEPT !.offers = ReviewButtons]

(* The page of one application finds it in the list of all.                 *)
ApplicationLoad == Listing("application", ApplicationStatuses, "PENDING")

ApplicationHandlers == [ApplicationLoad EXCEPT !.accepts = Reviewed, !.guard = "page", !.then = "replace"]

ApplicationPage == [ApplicationHandlers EXCEPT !.offers = ReviewButtons]

-----------------------------------------------------------------------------
(* Accounts: the invites *)

InviteStatuses == {"PENDING", "ACCEPTED", "EXPIRED", "REVOKED"}

(* A pending invite is revoked here, or accepted by whom it was sent to, or *)
(* found to have expired when they try.                                     *)
InviteChanges ==
  [s \in InviteStatuses |-> IF s = "PENDING" THEN {"REVOKED", "ACCEPTED", "EXPIRED"} ELSE {}]

AccountsLoad == FilteredListing("accounts", InviteStatuses, "PENDING")

AccountsHandlers ==
  [AccountsLoad EXCEPT !.accepts = InviteChanges, !.guard = "row", !.then = "reload",
                       !.creates = TRUE, !.repeats = TRUE]

(* The form and the filters stay while the table loads.                     *)
AccountsForm == [AccountsHandlers EXCEPT !.formStays = TRUE, !.tabsStay = TRUE]

AccountsPage ==
  [AccountsForm EXCEPT !.offers = [s \in InviteStatuses |-> IF s = "PENDING" THEN {"REVOKED"} ELSE {}]]

-----------------------------------------------------------------------------
(* Articles *)

ArticleStatuses == {"DRAFT", "PUBLISHED", "ARCHIVED"}

ArticlesLoad == Listing("articles", ArticleStatuses, "DRAFT")

ArticlesHandlers ==
  [ArticlesLoad EXCEPT !.accepts = [s \in ArticleStatuses |-> {"PUBLISHED", "ARCHIVED"}],
                       !.guard = "row", !.then = "replace"]

ArticlesPage ==
  [ArticlesHandlers EXCEPT !.offers = [s \in ArticleStatuses |-> {"PUBLISHED", "ARCHIVED"} \ {s}]]

-----------------------------------------------------------------------------
(* Products *)

ProductStatuses == {"ACTIVE", "INACTIVE"}

ProductsLoad == Listing("products", ProductStatuses, "ACTIVE")

(* One flag, saving, for the form, which creates or sends an edited copy    *)
(* with the status it holds, and for the button that turns a product on or  *)
(* off.                                                                     *)
ProductsHandlers ==
  [ProductsLoad EXCEPT !.accepts = [s \in ProductStatuses |-> ProductStatuses],
                       !.guard = "page", !.then = "reload", !.creates = TRUE, !.repeats = TRUE,
                       !.copyThen = "closes"]

ProductsForm ==
  [ProductsHandlers EXCEPT !.formShares = TRUE, !.formStays = TRUE,
                           !.copyOffers = [s \in ProductStatuses |-> ProductStatuses]]

ProductsPage == [ProductsForm EXCEPT !.offers = [s \in ProductStatuses |-> ProductStatuses \ {s}]]

-----------------------------------------------------------------------------
(* Users, activities and the tasks of an activity: a list, and a form that  *)
(* is disabled by its isSubmitting.  Only the users are unique.             *)

UserStatuses     == {"ACTIVE", "DISABLED"}
ActivityStatuses == {"DRAFT", "OPEN", "CLOSED", "MATCHED", "COMPLETED"}

UsersLoad  == Listing("users", UserStatuses, "ACTIVE")
UsersPage  == [UsersLoad EXCEPT !.creates = TRUE, !.guard = "page", !.then = "reload", !.formStays = TRUE]

ActivitiesLoad == Listing("activities", ActivityStatuses, "DRAFT")
ActivitiesPage ==
  [ActivitiesLoad EXCEPT !.creates = TRUE, !.guard = "page", !.then = "reload", !.formStays = TRUE,
                         !.repeats = TRUE]

(* Here nothing else is rendered while it loads.                            *)
ActivityLoad == Listing("activity", {"TASK"}, "TASK")
ActivityPage ==
  [ActivityLoad EXCEPT !.creates = TRUE, !.guard = "page", !.then = "reload", !.formStays = FALSE,
                       !.repeats = TRUE]

-----------------------------------------------------------------------------
(* The matcher's page *)

AssignmentStatuses == {"PROPOSED", "CONFIRMED", "COMPLETED", "CANCELLED"}

(* A load that fails leaves the board as it was, and there is no button.    *)
MatcherLoad == [Listing("matcher", AssignmentStatuses, "PROPOSED") EXCEPT !.retries = FALSE]

(* Running the matcher makes assignments in the place of those an earlier   *)
(* run left, under a flag of its own, and leaves the dialog open; an        *)
(* override is sent from the dialog's copy, and its answer put in place.    *)
MatcherHandlers ==
  [MatcherLoad EXCEPT !.accepts = [s \in AssignmentStatuses |-> AssignmentStatuses],
                      !.creates = TRUE, !.clears = TRUE, !.guard = "page", !.then = "replace",
                      !.copyThen = "closes"]

(* The board below the table stays, and can be clicked, while it loads.     *)
MatcherBoard == [MatcherHandlers EXCEPT !.rowsStay = TRUE, !.formStays = TRUE]

MatcherPage ==
  [MatcherBoard EXCEPT !.copyOffers = [s \in AssignmentStatuses |-> AssignmentStatuses], !.modal = TRUE]

-----------------------------------------------------------------------------
(* A member's notifications *)

NotificationsLoad ==
  [Listing("notifications", {"UNREAD", "READ"}, "UNREAD") EXCEPT
     !.tabs = {"ALL", "UNREAD"},
     !.lists = [t \in {"ALL", "UNREAD"} |-> IF t = "ALL" THEN {"UNREAD", "READ"} ELSE {"UNREAD"}]]

(* Nothing is disabled; any ApiError loads again.                           *)
NotificationsHandlers ==
  [NotificationsLoad EXCEPT !.accepts = [s \in {"UNREAD", "READ"} |-> {"READ"}],
                            !.then = "reload", !.reloadsOnError = TRUE]

NotificationsPage ==
  [NotificationsHandlers EXCEPT !.offers = [s \in {"UNREAD", "READ"} |-> IF s = "UNREAD" THEN {"READ"} ELSE {}]]

-----------------------------------------------------------------------------
(* Pages that only load, with a filter: the fundraising history by status,  *)
(* the reports by the filters applied, the leaderboard by month             *)

FundraisingLoad == FilteredListing("fundraising", OrderStatuses, "PENDING_PAYMENT_REVIEW")
FundraisingPage == [FundraisingLoad EXCEPT !.accepts = OrderChanges, !.tabsStay = TRUE]

ReportsLoad == FilteredListing("reports", ActivityStatuses, "DRAFT")
ReportsPage ==
  [ReportsLoad EXCEPT !.accepts = [s \in ActivityStatuses |-> IF s = "DRAFT" THEN {"OPEN"} ELSE {}],
                      !.tabsStay = TRUE]

(* The month is chosen in a page that is hidden while it loads.             *)
StreakLoad ==
  [Listing("streak", {"THIS_MONTH", "LAST_MONTH"}, "THIS_MONTH") EXCEPT
     !.tabs = {"THIS_MONTH", "LAST_MONTH"}, !.firstTab = "THIS_MONTH",
     !.lists = [t \in {"THIS_MONTH", "LAST_MONTH"} |-> {t}]]
StreakPage == [StreakLoad EXCEPT !.tabsStay = FALSE]

-----------------------------------------------------------------------------
(* Pages that load once *)

DashboardPage  == Listing("dashboard", {"FIGURES"}, "FIGURES")
ProfilePage    == Listing("profile", {"PROFILE"}, "PROFILE")
ImpactPage     == Listing("impact", {"IMPACT"}, "IMPACT")
FeedPage       == Listing("feed", {"ITEM"}, "ITEM")
AlbumsPage     == Listing("albums", {"ALBUM"}, "ALBUM")
AlbumPage      == Listing("album", {"ALBUM"}, "ALBUM")
OpenActivitiesPage == Listing("open activities", {"OPEN"}, "OPEN")
ShopPage       == Listing("shop", {"PRODUCT"}, "PRODUCT")
ProductPage    == Listing("product", {"PRODUCT"}, "PRODUCT")
CampaignsPage  == Listing("campaigns", {"CAMPAIGN"}, "CAMPAIGN")
MyAssignmentsPage == Listing("my assignments", {"ASSIGNMENT"}, "ASSIGNMENT")

-----------------------------------------------------------------------------
(* Forms.  The page does not list what it sends.                            *)

Blank(name) ==
  [Listing(name, {"SENT"}, "SENT") EXCEPT !.lists = [t \in {"ALL"} |-> {}], !.loads = FALSE]

(* One thing is sent, the button is disabled while it is on its way, and    *)
(* the user is taken elsewhere when it is done.                             *)
Submits(p) == [p EXCEPT !.creates = TRUE, !.formStays = FALSE, !.guard = "page", !.then = "leave"]

(* A member registers for an activity, once: the page loads its tasks.      *)
RegistrationLoad == [Blank("registration") EXCEPT !.loads = TRUE]
RegistrationPage == Submits(RegistrationLoad)

(* The session is looked up first; the current password is right once.      *)
ChangePasswordPage == Submits([Blank("change password") EXCEPT !.loads = TRUE, !.retries = FALSE])

(* A second login is as good as the first; an invite is accepted once, a    *)
(* slug taken once.                                                         *)
LoginPage        == [Submits(Blank("login")) EXCEPT !.repeats = TRUE]
InviteAcceptPage == Submits(Blank("invite"))
NewArticlePage   == Submits(Blank("article"))

(* No Idempotency-Key is sent: an order that is sent again is another one,  *)
(* and so is an application.  What was ordered takes the form's place.      *)
CheckoutSubmit == [Blank("checkout") EXCEPT !.repeats = TRUE, !.guard = "page"]
CheckoutForm   == [CheckoutSubmit EXCEPT !.creates = TRUE, !.formStays = FALSE]
CheckoutPage   == [CheckoutForm EXCEPT !.then = "leave"]

VolunteerSubmit == [Blank("volunteer") EXCEPT !.repeats = TRUE, !.guard = "page"]
VolunteerPage   == Submits(VolunteerSubmit)
=============================================================================
