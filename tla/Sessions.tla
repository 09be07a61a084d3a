------------------------------- MODULE Sessions -------------------------------
(***************************************************************************)
(* Who is signed in (backend/src/modules/auth, common/security): one       *)
(* browser with its cookies and several requests of its tabs, sent through *)
(* apiFetch (frontend/lib/api.ts), for one account, which an admin may     *)
(* disable and enable (modules/users) at any moment.                       *)
(*                                                                         *)
(* A JWT is as good as its cookie: both end together, 15 minutes and seven *)
(* days after they were made, and the server keeps no list of them.        *)
(***************************************************************************)
EXTENDS Naturals

CONSTANTS
  Calls,        \* requests of the browser
  Kind,         \* what each of them asks for
  Typed,        \* the password each login or change of password gives
  Chosen,       \* the new password each change of password asks for
  MaxCsrf,      \* bound: CSRF tokens made
  MaxSwitches,  \* bound: times an admin disables or enables the account
  None

Kinds == {"login", "me", "read", "write", "changePassword", "logout"}

VARIABLES
  account,    \* the account: status, password, mustChange; None before there is one
  jar,        \* the browser's cookies: access, refresh, and the CSRF token, 0 for none
  call,       \* each request: where it is and what it carries
  csrfs,      \* CSRF tokens made so far
  switches,
  (* history *)
  barred,     \* requests sent while the account was disabled, and never enabled since
  owing,      \* requests sent while the password had to be changed, and was not since
  handled,    \* requests a business handler ran for
  renewed,    \* requests that were answered with fresh cookies
  changed     \* requests that wrote a new password

sessionVars == <<account, jar, call, csrfs, switches, barred, owing, handled, renewed, changed>>
noted       == <<barred, owing, handled, renewed, changed>>

Unsafe   == {c \in Calls : Kind[c] \in {"login", "write", "changePassword", "logout"}}
Business == {c \in Calls : Kind[c] \in {"read", "write"}}
NoCookies == [access |-> FALSE, refresh |-> FALSE, csrf |-> 0]
Fresh(call_at, header, cookies) == [at |-> call_at, header |-> header, cookies |-> cookies, seen |-> None]

SessionInit ==
  /\ jar = NoCookies
  /\ call = [c \in Calls |-> Fresh("new", 0, NoCookies)]
  /\ csrfs = 0 /\ switches = 0
  /\ barred = {} /\ owing = {} /\ handled = {} /\ renewed = {} /\ changed = {}

IsAt(c, place) == call[c].at = place
To(c, place)   == call' = [call EXCEPT ![c].at = place]
Disabled       == account # None /\ account.status = "DISABLED"
Rejects(a)     == a = None \/ a.status = "DISABLED"

-----------------------------------------------------------------------------
(* The browser: rawFetch *)

(* getCsrfToken reads document.cookie; the cookies themselves are attached  *)
(* when the request leaves, after whatever another tab has received.        *)
Prepare(c) ==
  /\ IsAt(c, "new") /\ account # None
  /\ call' = [call EXCEPT ![c] = Fresh("send", IF c \in Unsafe THEN jar.csrf ELSE 0, NoCookies)]
  /\ UNCHANGED <<account, jar, csrfs, switches, noted>>

Send(c) ==
  /\ IsAt(c, "send")
  /\ call' = [call EXCEPT ![c].at = "csrf", ![c].cookies = jar]
  /\ barred' = IF Disabled THEN barred \cup {c} ELSE barred
  /\ owing' = IF account.mustChange THEN owing \cup {c} ELSE owing
  /\ UNCHANGED <<account, jar, csrfs, switches, handled, renewed, changed>>

(* apiFetch: after CSRF_INVALID it posts auth/refresh, as bootstrapCsrf     *)
(* does, without a header, and tries once more if that succeeds.            *)
Passes(unsafe, header, cookies) ==
  ~unsafe \/ ~(cookies.access \/ cookies.refresh) \/ (header # 0 /\ header = cookies.csrf)

Renew(c) ==
  /\ IsAt(c, "renew")
  /\ To(c, IF Passes(TRUE, 0, jar) /\ jar.refresh /\ ~Rejects(account) THEN "send" ELSE "refused")
  /\ UNCHANGED <<account, jar, csrfs, switches, noted>>

(* Cookies end with their maxAge.                                           *)
AccessEnds ==
  /\ jar.access
  /\ jar' = [jar EXCEPT !.access = FALSE]
  /\ UNCHANGED <<account, call, csrfs, switches, noted>>

RefreshEnds ==
  /\ jar.refresh /\ ~jar.access
  /\ jar' = NoCookies
  /\ UNCHANGED <<account, call, csrfs, switches, noted>>

-----------------------------------------------------------------------------
(* The backend: csrfMiddleware, JwtAuthGuard and JwtStrategy *)

Csrf(c) ==
  /\ IsAt(c, "csrf")
  /\ To(c, IF ~Passes(c \in Unsafe /\ Kind[c] # "login", call[c].header, call[c].cookies)
             THEN "renew"
           ELSE IF Kind[c] \in {"login", "logout"} THEN "handler" ELSE "guard")
  /\ UNCHANGED <<account, jar, csrfs, switches, noted>>

(* validate reads the account again: it must be there and not be disabled,  *)
(* and only auth/me and auth/change-password go through while the password  *)
(* must be changed.  (Broken: the token is believed.)                       *)
GuardByToken(c) ==
  /\ IsAt(c, "guard")
  /\ To(c, IF call[c].cookies.access THEN "handler" ELSE "refused")
  /\ UNCHANGED <<account, jar, csrfs, switches, noted>>

Guard(c) ==
  /\ IsAt(c, "guard")
  /\ To(c, IF /\ call[c].cookies.access /\ ~Rejects(account)
              /\ account.mustChange => Kind[c] \in {"me", "changePassword"}
             THEN "handler" ELSE "refused")
  /\ UNCHANGED <<account, jar, csrfs, switches, noted>>

(* A business handler runs; auth/me answers with what the guard has read.   *)
Handle(c) ==
  /\ IsAt(c, "handler") /\ Kind[c] \in {"me", "read", "write"}
  /\ To(c, "answered")
  /\ handled' = IF c \in Business THEN handled \cup {c} ELSE handled
  /\ UNCHANGED <<account, jar, csrfs, switches, barred, owing, renewed, changed>>

-----------------------------------------------------------------------------
(* AuthService *)

(* login and changePassword read the account, and compare passwords with    *)
(* that row for some hundred milliseconds.                                  *)
FindAccount(c) ==
  /\ IsAt(c, "handler") /\ Kind[c] \in {"login", "changePassword"}
  /\ call' = [call EXCEPT ![c].at = "compare", ![c].seen = account]
  /\ UNCHANGED <<account, jar, csrfs, switches, noted>>

(* login: the status that is checked is the one read before the compare.    *)
Login(c) ==
  /\ IsAt(c, "compare") /\ Kind[c] = "login"
  /\ To(c, IF Typed[c] = call[c].seen.password /\ ~Rejects(call[c].seen) THEN "cookies" ELSE "refused")
  /\ UNCHANGED <<account, jar, csrfs, switches, noted>>

(* changePassword: the same, for another password; then the row is written, *)
(* whatever it has become.                                                  *)
ChangePassword(c) ==
  /\ IsAt(c, "compare") /\ Kind[c] = "changePassword"
  /\ IF /\ Typed[c] = call[c].seen.password /\ ~Rejects(call[c].seen)
        /\ Chosen[c] # call[c].seen.password
       THEN /\ account' = [account EXCEPT !.password = Chosen[c], !.mustChange = FALSE]
            /\ To(c, "rebuild")
            /\ owing' = {}
            /\ changed' = changed \cup {c}
       ELSE To(c, "refused") /\ UNCHANGED <<account, owing, changed>>
  /\ UNCHANGED <<jar, csrfs, switches, barred, handled, renewed>>

(* buildAccessTokenForUser reads the account once more: the password of an  *)
(* account that was disabled meanwhile is changed, and the request refused. *)
Rebuild(c) ==
  /\ IsAt(c, "rebuild")
  /\ To(c, IF Rejects(account) THEN "refused" ELSE "cookies")
  /\ UNCHANGED <<account, jar, csrfs, switches, noted>>

(* The answer reaches the browser: setAuthCookies with a new CSRF token,    *)
(* clearAuthCookies.                                                        *)
TakeCookies(c) ==
  /\ IsAt(c, "cookies") /\ csrfs < MaxCsrf
  /\ csrfs' = csrfs + 1
  /\ jar' = [access |-> TRUE, refresh |-> TRUE, csrf |-> csrfs + 1]
  /\ renewed' = renewed \cup {c}
  /\ To(c, "answered")
  /\ UNCHANGED <<account, switches, barred, owing, handled, changed>>

Logout(c) ==
  /\ IsAt(c, "handler") /\ Kind[c] = "logout"
  /\ jar' = NoCookies
  /\ To(c, "answered")
  /\ UNCHANGED <<account, csrfs, switches, noted>>

(* UsersService.update: an admin disables or enables the account.           *)
SwitchStatus ==
  /\ account # None /\ switches < MaxSwitches
  /\ account' = [account EXCEPT !.status = IF @ = "ACTIVE" THEN "DISABLED" ELSE "ACTIVE"]
  /\ barred' = {}
  /\ switches' = switches + 1
  /\ UNCHANGED <<jar, call, csrfs, owing, handled, renewed, changed>>

-----------------------------------------------------------------------------
CallStep(c) ==
  \/ Prepare(c) \/ Send(c) \/ Renew(c) \/ Csrf(c) \/ Guard(c) \/ Handle(c)
  \/ FindAccount(c) \/ Login(c) \/ ChangePassword(c) \/ Rebuild(c)
  \/ TakeCookies(c) \/ Logout(c)

SessionNext ==
  \/ \E c \in Calls : CallStep(c)
  \/ AccessEnds \/ RefreshEnds \/ SwitchStatus

-----------------------------------------------------------------------------
(* Properties *)

SessionTypeOK ==
  /\ account # None =>
       account \in [status : {"ACTIVE", "DISABLED"}, mustChange : BOOLEAN,
                    password : {"temporary", "own", "other"}]
  /\ jar \in [access : BOOLEAN, refresh : BOOLEAN, csrf : 0..MaxCsrf]
  /\ \A c \in Calls : call[c].at \in
       {"new", "send", "renew", "csrf", "guard", "handler", "compare", "rebuild", "cookies",
        "answered", "refused"}
  /\ csrfs \in 0..MaxCsrf /\ switches \in 0..MaxSwitches
  /\ barred \subseteq Calls /\ owing \subseteq Calls
  /\ handled \subseteq Business /\ renewed \subseteq Calls /\ changed \subseteq Calls

(* Once an account is disabled nothing that is sent from then on is         *)
(* handled, changes its password or brings fresh cookies, whatever cookies  *)
(* the browser still holds.                                                 *)
DisabledIsKeptOut == barred \cap (handled \cup renewed \cup changed) = {}

(* Nothing but auth/me and the change itself is handled for a request that  *)
(* was sent, and is not answered, before the password was changed.          *)
MustChangeFirst == owing \cap handled = {}

(* docs/TROUBLESHOOTING.md: "The frontend calls refresh automatically": a   *)
(* page whose auth/me is refused had no refresh cookie, or a disabled       *)
(* account.                                                                 *)
RefreshKeepsTheSession ==
  \A c \in Calls :
    Kind[c] = "me" /\ call[c].at = "refused" => ~call[c].cookies.refresh \/ Disabled
=============================================================================
