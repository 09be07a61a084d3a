------------------------------- MODULE ApiRoutes -------------------------------
(***************************************************************************)
(* The routes of the backend with the roles their decorators let in        *)
(* (backend/src/modules/*/*.controller.ts), and the requests the data      *)
(* sources of the frontend send (frontend/lib/datasource/*.api.ts).  The   *)
(* two lists are kept apart in the code and meet only at run time.         *)
(***************************************************************************)
EXTENDS TLC

Roles    == {"ADMIN", "MEMBER", "LOGISTIC"}
Nobody   == "nobody"                 \* a browser the API does not know
Admins   == {"ADMIN"}
Members  == {"MEMBER", "ADMIN"}
Handlers == {"ADMIN", "LOGISTIC"}
Anyone   == Roles \cup {Nobody}      \* a route without JwtAuthGuard

(* @Roles(...) over the routes of some handlers                            *)
For(roles, routes) == [r \in routes |-> roles]

-----------------------------------------------------------------------------
(* The controllers *)

ActivitiesController ==
  For(Admins, {"GET admin/activities", "POST admin/activities",
               "GET admin/activities/:id", "PATCH admin/activities/:id"})
  @@ For(Members, {"GET member/activities", "GET member/activities/:id"})

RegistrationsController ==
  For(Members, {"POST member/activities/:id/registrations"})
  @@ For(Admins, {"GET admin/activities/:id/registrations"})

TasksController ==
  For(Admins, {"GET admin/activities/:id/tasks", "POST admin/activities/:id/tasks",
               "PATCH admin/tasks/:id"})

MatchingController ==
  For(Admins, {"POST admin/activities/:id/matcher/run", "GET admin/activities/:id/assignments",
               "PATCH admin/activities/:id/complete", "PATCH admin/assignments/:id"})
  @@ For(Members, {"GET member/activities/:id/assignments"})

ArticlesController ==
  For(Anyone, {"GET public/articles", "GET public/articles/:id"})
  @@ For(Admins, {"GET admin/articles", "POST admin/articles", "PATCH admin/articles/:id",
                  "DELETE admin/articles/:id"})

AuthController ==
  For(Anyone, {"POST auth/login", "POST auth/refresh", "POST auth/logout"})
  @@ For(Roles, {"GET auth/me", "POST auth/change-password"})

BadgesController ==
  For(Roles, {"GET member/badges"}) @@ For(Admins, {"GET admin/badges", "POST admin/badges"})

CampaignsController ==
  For(Anyone, {"GET public/campaigns", "GET public/campaigns/:id"})
  @@ For(Admins, {"GET admin/campaigns", "POST admin/campaigns", "PATCH admin/campaigns/:id"})
  @@ For(Handlers, {"GET admin/fundraising/transactions"})

GalleryController ==
  For(Anyone, {"GET public/gallery", "GET public/gallery/:id"})
  @@ For(Admins, {"POST admin/gallery", "PATCH admin/gallery/:id", "POST admin/gallery/:id/photos",
                  "DELETE admin/gallery/photos/:id"})

GamificationController == For(Roles, {"GET member/streak", "GET member/leaderboard"})

InvitesController ==
  For(Admins, {"POST admin/invites", "GET admin/invites", "PATCH admin/invites/:id/revoke"})
  @@ For(Anyone, {"POST public/invites/:token/accept"})

NotificationsController ==
  For(Roles, {"GET member/notifications", "PATCH member/notifications/:id/read",
              "POST member/notifications/read-all"})

ProfileController == For(Roles, {"GET member/profile", "GET member/profile/impact"})

ReportsController ==
  For(Admins, {"GET admin/reports/dashboard", "GET admin/reports/overview",
               "GET admin/reports/overview.csv"})

OrdersController ==
  For(Anyone, {"POST public/orders"})
  @@ For(Handlers, {"GET admin/orders", "GET admin/orders/:id", "PATCH admin/orders/:id"})

ProductsController ==
  For(Anyone, {"GET public/products", "GET public/products/:id"})
  @@ For(Admins, {"GET admin/products", "POST admin/products", "PATCH admin/products/:id"})

UsersController ==
  For(Admins, {"GET admin/users", "POST admin/users", "PATCH admin/users/:id"})

VolunteerApplicationsController ==
  For(Anyone, {"POST public/volunteer-applications"})
  @@ For(Admins, {"GET admin/volunteer-applications", "PATCH admin/volunteer-applications/:id"})

LetsIn ==
  ActivitiesController @@ RegistrationsController @@ TasksController @@ MatchingController
  @@ ArticlesController @@ AuthController @@ BadgesController @@ CampaignsController
  @@ GalleryController @@ GamificationController @@ InvitesController
  @@ NotificationsController @@ ProfileController @@ ReportsController @@ OrdersController
  @@ ProductsController @@ UsersController @@ VolunteerApplicationsController

Routes == DOMAIN LetsIn

-----------------------------------------------------------------------------
(* The data sources: the requests behind each of their methods *)

ActivitiesApi ==
  [list |-> {"GET admin/activities"}, getById |-> {"GET admin/activities/:id"},
   create |-> {"POST admin/activities"}, update |-> {"PATCH admin/activities/:id"},
   listTasks |-> {"GET admin/activities/:id/tasks"}, addTask |-> {"POST admin/activities/:id/tasks"}]

MemberActivitiesApi ==
  [listOpen |-> {"GET member/activities"},
   getDetail |-> {"GET member/activities/:id", "GET admin/activities/:id/tasks"},
   submitRegistration |-> {"POST member/activities/:id/registrations"}]

MemberAssignmentsApi == [listMyAssignments |-> {"GET member/activities/:id/assignments"}]

MatchingApi ==
  [run |-> {"POST admin/activities/:id/matcher/run"},
   listAssignments |-> {"GET admin/activities/:id/assignments"},
   overrideAssignment |-> {"PATCH admin/assignments/:id"}]

(* findAdmin looks for its article in listAll                              *)
ArticlesApi ==
  [listPublished |-> {"GET public/articles"}, findPublished |-> {"GET public/articles/:id"},
   listAll |-> {"GET admin/articles"}, findAdmin |-> {"GET admin/articles"},
   create |-> {"POST admin/articles"}, update |-> {"PATCH admin/articles/:id"},
   archive |-> {"DELETE admin/articles/:id"}]

AuthApi ==
  [login |-> {"POST auth/login"}, me |-> {"GET auth/me"}, logout |-> {"POST auth/logout"},
   changePassword |-> {"POST auth/change-password"}]

CampaignsApi ==
  [listPublic |-> {"GET public/campaigns"},
   listTransactions |-> {"GET admin/fundraising/transactions"}]

FeedApi    == [list |-> {"GET member/notifications", "GET public/articles"}]
GalleryApi == [listAlbums |-> {"GET public/gallery"}, getAlbum |-> {"GET public/gallery/:id"}]
ProfileApi == [getProfile |-> {"GET member/profile"}, getImpact |-> {"GET member/profile/impact"}]

GamificationApi ==
  [getStreak |-> {"GET member/streak"}, getLeaderboard |-> {"GET member/leaderboard"}]

InvitesApi ==
  [list |-> {"GET admin/invites"}, create |-> {"POST admin/invites"},
   revoke |-> {"PATCH admin/invites/:id/revoke"}, accept |-> {"POST public/invites/:token/accept"}]

NotificationsApi ==
  [list |-> {"GET member/notifications"}, markRead |-> {"PATCH member/notifications/:id/read"},
   markAllRead |-> {"POST member/notifications/read-all"}]

ReportsApi ==
  [getDashboard |-> {"GET admin/reports/dashboard"}, getOverview |-> {"GET admin/reports/overview"}]

(* createProduct publishes with an update of its own when it was asked to  *)
ShopApi ==
  [listProducts |-> {"GET public/products"}, findProduct |-> {"GET public/products/:id"},
   listAllProducts |-> {"GET admin/products"},
   createProduct |-> {"POST admin/products", "PATCH admin/products/:id"},
   updateProduct |-> {"PATCH admin/products/:id"}, createOrder |-> {"POST public/orders"},
   listAdminOrders |-> {"GET admin/orders"}, updateOrderStatus |-> {"PATCH admin/orders/:id"}]

VolunteerApi ==
  [submit |-> {"POST public/volunteer-applications"}, list |-> {"GET admin/volunteer-applications"},
   review |-> {"PATCH admin/volunteer-applications/:id"}]

(* users/page.tsx fetches by itself                                        *)
UsersFetches == {"GET admin/users", "POST admin/users"}
=============================================================================
