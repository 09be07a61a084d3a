----------------------------- MODULE AccountsProofs -----------------------------
(***************************************************************************)
(* What Accounts promises, for any requests, invites, reviews and calls of *)
(* the browser.  Sessions and onboarding have an invariant each; the row   *)
(* of the users table, which both write, is in the first.                  *)
(***************************************************************************)
EXTENDS Accounts, FiniteSetTheorems, TLAPS

-----------------------------------------------------------------------------
(* Sessions *)

Places == {"new", "send", "renew", "csrf", "guard", "handler", "compare", "rebuild", "cookies",
           "answered", "refused"}
Cookies == [access : BOOLEAN, refresh : BOOLEAN, csrf : 0..MaxCsrf]

Rows      == UserRows \cup {None}
CallState == [at : Places, header : 0..MaxCsrf, cookies : Cookies, seen : Rows]

CallsTypeOK ==
  /\ account \in Rows
  /\ jar \in Cookies
  /\ call \in [Calls -> CallState]
  /\ csrfs \in 0..MaxCsrf /\ switches \in 0..MaxSwitches
  /\ barred \subseteq Calls /\ owing \subseteq Calls
  /\ handled \subseteq Session!Business /\ renewed \subseteq Calls /\ changed \subseteq Calls

(* Nothing is sent before there is an account, and what has been handled is *)
(* not sent again.                                                          *)
SentOnce ==
  /\ \A c \in Calls : call[c].at # "new" => account # None
  /\ \A c \in handled \cup renewed \cup changed :
       call[c].at \in {"rebuild", "cookies", "answered", "refused"}

(* How far a request gets that was sent to a disabled account: to the guard,*)
(* or with a login to the comparison with a row that is disabled.           *)
BarredGetNowhere ==
  /\ barred # {} => account # None /\ account.status = "DISABLED"
  /\ \A c \in barred :
       \/ call[c].at \in {"send", "csrf", "renew", "guard", "refused"}
       \/ call[c].at \in {"handler", "answered"} /\ Kind[c] \in {"login", "logout"} /\ c \notin renewed
       \/ call[c].at = "compare" /\ Kind[c] = "login" /\ Session!Rejects(call[c].seen)
  /\ Session!DisabledIsKeptOut

(* How far one gets whose password has to be changed first.                 *)
OwingGetNowhere ==
  /\ owing # {} => account # None /\ account.mustChange
  /\ \A c \in owing : call[c].at = "handler" => Kind[c] \notin {"read", "write"}
  /\ Session!MustChangeFirst

SInv == CallsTypeOK /\ SentOnce /\ BarredGetNowhere /\ OwingGetNowhere

LEMMA SessionInitSInv == Init => SInv
<1> SUFFICES ASSUME Init PROVE SInv
  OBVIOUS
<1> USE CallsAssumption, ExistingAssumption DEF Init, Session!SessionInit, Session!NoCookies, Session!Fresh
<1>1. CallsTypeOK
  BY DEF CallsTypeOK, CallState, Rows, Cookies, Places
<1>2. SentOnce /\ BarredGetNowhere /\ OwingGetNowhere
  BY DEF SentOnce, BarredGetNowhere, OwingGetNowhere, Session!DisabledIsKeptOut, Session!MustChangeFirst
<1> QED
  BY <1>1, <1>2 DEF SInv

(* A request moves on, and no other with it.                                *)
Moves(c) ==
  /\ call' \in [Calls -> CallState]
  /\ \A d \in Calls \ {c} : call'[d] = call[d]

LEMMA RequestsMove ==
  ASSUME CallsTypeOK, NEW c \in Calls, Session!CallStep(c)
  PROVE  Moves(c)
<1> USE DEF CallsTypeOK, CallState, Places, Session!To, Moves
<1>1. CASE Session!Prepare(c)
  <2> DEFINE sent == call'[c]
  <2>1. call' = [call EXCEPT ![c] = [at |-> "send", header |-> IF c \in Session!Unsafe THEN jar.csrf ELSE 0,
                                     cookies |-> Session!NoCookies, seen |-> None]]
    BY <1>1 DEF Session!Prepare, Session!Fresh
  <2>2. (IF c \in Session!Unsafe THEN jar.csrf ELSE 0) \in 0..MaxCsrf /\ Session!NoCookies \in Cookies
    BY CallsAssumption DEF Cookies, Session!NoCookies
  <2> QED
    BY <2>1, <2>2 DEF Rows
<1>2. CASE Session!Send(c)
  <2>1. call' = [call EXCEPT ![c] = [call[c] EXCEPT !.at = "csrf", !.cookies = jar]]
    BY <1>2 DEF Session!Send
  <2> QED
    BY <2>1
<1>3. CASE Session!Renew(c) \/ Session!Csrf(c)
  <2>1. PICK p \in Places : call' = [call EXCEPT ![c].at = p]
    BY <1>3 DEF Session!Renew, Session!Csrf
  <2> QED
    BY <2>1
<1>4. CASE Session!Guard(c) \/ Session!Handle(c) \/ Session!FindAccount(c)
  BY <1>4 DEF Session!Guard, Session!Handle, Session!FindAccount
<1>5. CASE Session!Login(c) \/ Session!ChangePassword(c) \/ Session!Rebuild(c)
  BY <1>5 DEF Session!Login, Session!ChangePassword, Session!Rebuild
<1>6. CASE Session!TakeCookies(c) \/ Session!Logout(c)
  BY <1>6 DEF Session!TakeCookies, Session!Logout
<1> QED
  BY <1>1, <1>2, <1>3, <1>4, <1>5, <1>6 DEF Session!CallStep

(* The browser: a request is prepared, sent, and sent again.                *)
LEMMA BrowserPreserves ==
  ASSUME SInv, NEW c \in Calls, Session!Prepare(c) \/ Session!Send(c) \/ Session!Renew(c)
  PROVE  SInv'
<1> USE CallsAssumption, NoneAssumption DEF SInv
<1>1. Moves(c)
  BY RequestsMove DEF Session!CallStep
<1>2. call[c].at \in {"new", "send", "renew"} /\ call'[c].at \in {"send", "csrf", "refused"}
  <2>1. CASE Session!Prepare(c)
    BY <2>1 DEF Session!Prepare, Session!IsAt, Session!Fresh, CallsTypeOK
  <2>2. CASE Session!Send(c)
    BY <2>2 DEF Session!Send, Session!IsAt, CallsTypeOK, CallState
  <2>3. CASE Session!Renew(c)
    BY <2>3 DEF Session!Renew, Session!IsAt, Session!To, CallsTypeOK, CallState
  <2> QED
    BY <2>1, <2>2, <2>3
<1>3. /\ UNCHANGED <<account, jar, csrfs, switches, handled, renewed, changed>>
      /\ barred' = IF Session!Send(c) /\ Session!Disabled THEN barred \cup {c} ELSE barred
      /\ owing' = IF Session!Send(c) /\ account.mustChange THEN owing \cup {c} ELSE owing
  <2>1. CASE Session!Send(c)
    BY <2>1 DEF Session!Send
  <2>2. CASE Session!Prepare(c)
    BY <1>2, <2>2 DEF Session!Prepare, Session!Send, Session!IsAt, Session!noted
  <2>3. CASE Session!Renew(c)
    BY <2>3 DEF Session!Renew, Session!Send, Session!IsAt, Session!noted
  <2> QED
    BY <2>1, <2>2, <2>3
<1>4. account # None
  BY DEF Session!Prepare, Session!Send, Session!Renew, Session!IsAt, SentOnce
<1>5. CallsTypeOK'
  BY <1>1, <1>3 DEF CallsTypeOK, Moves
<1>6. SentOnce'
  BY <1>1, <1>2, <1>3, <1>4 DEF CallsTypeOK, Session!Business, Moves, SentOnce
<1>7. BarredGetNowhere'
  BY <1>1, <1>2, <1>3
  DEF CallsTypeOK, Session!Business, Moves, SentOnce, BarredGetNowhere, Session!DisabledIsKeptOut,
      Session!Disabled
<1>8. OwingGetNowhere'
  BY <1>1, <1>2, <1>3, <1>4
  DEF CallsTypeOK, Session!Business, Moves, SentOnce, OwingGetNowhere, Session!MustChangeFirst
<1> QED
  BY <1>5, <1>6, <1>7, <1>8

(* The middleware, the guard and the business handlers.                     *)
LEMMA GuardPreserves ==
  ASSUME SInv, NEW c \in Calls, Session!Csrf(c) \/ Session!Guard(c) \/ Session!Handle(c)
  PROVE  SInv'
<1> USE CallsAssumption, NoneAssumption
    DEF SInv, Session!Csrf, Session!Guard, Session!Handle, Session!IsAt, Session!To, Session!noted,
        Session!Business
<1>1. Moves(c)
  BY RequestsMove DEF Session!CallStep
<1>2. CallsTypeOK'
  BY <1>1 DEF CallsTypeOK, Moves
<1>3. SentOnce'
  BY <1>1 DEF CallsTypeOK, CallState, Moves, SentOnce
<1>4. BarredGetNowhere'
  BY <1>1 DEF CallsTypeOK, CallState, Moves, SentOnce, BarredGetNowhere, Session!DisabledIsKeptOut,
              Session!Rejects
<1>5. OwingGetNowhere'
  BY <1>1 DEF CallsTypeOK, CallState, Moves, SentOnce, OwingGetNowhere, Session!MustChangeFirst
<1> QED
  BY <1>2, <1>3, <1>4, <1>5

(* AuthService; what it writes of the account is the password.              *)
LEMMA AuthPreserves ==
  ASSUME SInv, NEW c \in Calls,
         \/ Session!FindAccount(c) \/ Session!Login(c) \/ Session!ChangePassword(c)
         \/ Session!Rebuild(c) \/ Session!TakeCookies(c) \/ Session!Logout(c)
  PROVE  SInv'
<1> USE CallsAssumption, NoneAssumption
    DEF SInv, Session!FindAccount, Session!Login, Session!ChangePassword, Session!Rebuild,
        Session!TakeCookies, Session!Logout, Session!IsAt, Session!To, Session!noted, Session!Business
<1>1. Moves(c)
  BY RequestsMove DEF Session!CallStep
<1>2. account # None /\ account \in UserRows
  BY DEF CallsTypeOK, SentOnce, Rows
<1>3. account' \in UserRows /\ account'.status = account.status
  BY <1>2 DEF UserRows
<1>4. CallsTypeOK'
  <2>1. jar' \in Cookies
    <3>1. CASE Session!TakeCookies(c)
      BY <3>1 DEF CallsTypeOK, Cookies
    <3>2. CASE Session!Logout(c)
      BY <3>2 DEF Cookies, Session!NoCookies
    <3>3. CASE UNCHANGED jar
      BY <3>3 DEF CallsTypeOK
    <3> QED
      BY <3>1, <3>2, <3>3
  <2>2. csrfs' \in 0..MaxCsrf
    BY DEF CallsTypeOK
  <2> QED
    BY <1>1, <1>3, <2>1, <2>2 DEF CallsTypeOK, Moves, Rows
<1>5. SentOnce'
  BY <1>1, <1>2, <1>3 DEF CallsTypeOK, CallState, Moves, SentOnce
<1>6. BarredGetNowhere'
  BY <1>1, <1>2, <1>3
  DEF CallsTypeOK, CallState, Moves, SentOnce, BarredGetNowhere, Session!DisabledIsKeptOut,
      Session!Rejects
<1>7. OwingGetNowhere'
  BY <1>1, <1>2, <1>3 DEF CallsTypeOK, CallState, Moves, SentOnce, OwingGetNowhere, Session!MustChangeFirst
<1> QED
  BY <1>4, <1>5, <1>6, <1>7

(* Cookies that end, and the admin's switch.                                *)
LEMMA SwitchPreserves ==
  ASSUME SInv, Session!AccessEnds \/ Session!RefreshEnds \/ Session!SwitchStatus
  PROVE  SInv'
<1> USE CallsAssumption, NoneAssumption DEF SInv, Session!noted
<1>1. CASE Session!AccessEnds \/ Session!RefreshEnds
  <2> USE <1>1 DEF Session!AccessEnds, Session!RefreshEnds
  <2>1. jar' \in Cookies
    <3>1. CASE Session!AccessEnds
      BY <3>1 DEF CallsTypeOK, Cookies
    <3>2. CASE Session!RefreshEnds
      BY <3>2 DEF Cookies, Session!NoCookies
    <3> QED
      BY <3>1, <3>2
  <2>2. CallsTypeOK'
    BY <2>1 DEF CallsTypeOK
  <2>3. SentOnce' /\ BarredGetNowhere' /\ OwingGetNowhere'
    BY DEF SentOnce, BarredGetNowhere, OwingGetNowhere, Session!DisabledIsKeptOut, Session!MustChangeFirst
  <2> QED
    BY <2>2, <2>3
<1>2. CASE Session!SwitchStatus
  <2> USE <1>2 DEF Session!SwitchStatus
  <2>1. account \in UserRows /\ account' \in UserRows /\ account'.mustChange = account.mustChange
    BY DEF CallsTypeOK, Rows, UserRows
  <2>2. CallsTypeOK'
    BY <2>1 DEF CallsTypeOK, Rows
  <2>3. SentOnce' /\ BarredGetNowhere' /\ OwingGetNowhere'
    BY <2>1
    DEF SentOnce, BarredGetNowhere, OwingGetNowhere, Session!DisabledIsKeptOut, Session!MustChangeFirst
  <2> QED
    BY <2>2, <2>3
<1> QED
  BY <1>1, <1>2

LEMMA NewAccountIsUser ==
  ASSUME NEW password \in {"temporary", "own"}, NEW mustChange \in BOOLEAN
  PROVE  NewAccount(password, mustChange) \in UserRows /\ NewAccount(password, mustChange) # None
BY NoneAssumption DEF NewAccount, UserRows

(* Onboarding writes the account only where there is none, and then nothing *)
(* has been sent.                                                           *)
LEMMA AccountsAppear ==
  ASSUME Onboards
  PROVE  account' = account \/ (account = None /\ account' \in UserRows)
<1>1. CASE \E i \in Invites \cap load : Lapse(i)
  BY <1>1 DEF Lapse
<1>2. CASE \E q \in Requests \cap load : RequestStep(q)
  <2>1. PICK q \in Requests : RequestStep(q)
    BY <1>2
  <2>2. CASE InsertUser(q) \/ CreateUser(q)
    <3>1. NewAccount("temporary", TRUE) \in UserRows /\ NewAccount("own", FALSE) \in UserRows
      BY NewAccountIsUser
    <3>2. CASE account = None
      BY <2>2, <3>1, <3>2 DEF InsertUser, CreateUser
    <3>3. CASE account # None
      BY <2>2, <3>3 DEF InsertUser, CreateUser
    <3> QED
      BY <3>2, <3>3
  <2>3. CASE UNCHANGED account
    BY <2>3
  <2> QED
    BY <2>1, <2>2, <2>3
    DEF RequestStep, FindAddress, InsertInvite, LookUpToken, MarkExpired, FindUser, UseUp, MarkAccepted,
        FindToRevoke, MarkRevoked, WriteStatus, Review, RecordMail, SendApproval, CallFails
<1> QED
  BY <1>1, <1>2 DEF Onboards

LEMMA OnboardsKeepsSInv == SInv /\ Onboards => SInv'
<1> SUFFICES ASSUME SInv, Onboards PROVE SInv'
  OBVIOUS
<1> USE NoneAssumption DEF SInv, Onboards, browserVars
<1>1. account' = account \/ (account = None /\ account' \in UserRows)
  BY AccountsAppear
<1>2. CallsTypeOK'
  BY <1>1 DEF CallsTypeOK, Rows
<1>3. SentOnce' /\ BarredGetNowhere' /\ OwingGetNowhere'
  BY <1>1
  DEF CallsTypeOK, SentOnce, BarredGetNowhere, OwingGetNowhere, Session!DisabledIsKeptOut,
      Session!MustChangeFirst
<1> QED
  BY <1>2, <1>3

LEMMA CrashKeepsSInv == SInv /\ Crash => SInv'
<1> SUFFICES ASSUME SInv, Crash PROVE SInv'
  OBVIOUS
<1> USE DEF SInv, Crash, OnboardCrash
<1>1. \A c \in Calls :
        /\ call'[c] \in CallState
        /\ call[c].at \in {"new", "answered"} => call'[c] = call[c]
        /\ call[c].at \notin {"new", "answered"} => call'[c].at = "refused"
  BY DEF CallsTypeOK, CallState, Places
<1>2. CallsTypeOK'
  BY <1>1 DEF CallsTypeOK
<1>3. SentOnce'
  BY <1>1 DEF CallsTypeOK, SentOnce, Session!Business
<1>4. BarredGetNowhere' /\ OwingGetNowhere'
  BY <1>1
  DEF CallsTypeOK, BarredGetNowhere, OwingGetNowhere, Session!DisabledIsKeptOut, Session!MustChangeFirst
<1> QED
  BY <1>2, <1>3, <1>4

LEMMA SignsInKeepsSInv == SInv /\ SignsIn => SInv'
BY BrowserPreserves, GuardPreserves, AuthPreserves, SwitchPreserves DEF SignsIn, Session!CallStep

(* Signing in never takes the account away.                                 *)
LEMMA SignsInKeepsAccount ==
  ASSUME SInv, SignsIn, account # None
  PROVE  account' # None
<1>1. account \in UserRows
  BY DEF SInv, CallsTypeOK, Rows
<1>2. account' \in UserRows
  <2>1. CASE UNCHANGED account
    BY <1>1, <2>1
  <2>2. CASE \E c \in Calls : Session!ChangePassword(c)
    BY <1>1, <2>2, CallsAssumption DEF Session!ChangePassword, UserRows
  <2>3. CASE Session!SwitchStatus
    BY <1>1, <2>3 DEF Session!SwitchStatus, UserRows
  <2> QED
    BY <2>1, <2>2, <2>3
    DEF SignsIn, Session!CallStep, Session!Prepare, Session!Send, Session!Renew, Session!Csrf,
        Session!Guard, Session!Handle, Session!FindAccount, Session!Login, Session!Rebuild,
        Session!TakeCookies, Session!Logout, Session!AccessEnds, Session!RefreshEnds
<1> QED
  BY <1>2, NoneAssumption

-----------------------------------------------------------------------------
(* Onboarding: the type of its state *)

LEMMA RequestKeepsType == ASSUME OnboardTypeOK, NEW q \in Requests, RequestStep(q) PROVE OnboardTypeOK'
<1> USE MailAssumption, InviteOfAssumption
    DEF OnboardTypeOK, Ended, To, KeepInvites, KeepReviews
<1>1. CASE FindAddress(q) \/ InsertInvite(q) \/ InsertUser(q)
  BY <1>1 DEF FindAddress, InsertInvite, InsertUser
<1>2. CASE LookUpToken(q) \/ FindToRevoke(q)
  <2>1. q \in Accepts \cup Revokes
    BY <1>2 DEF LookUpToken, FindToRevoke
  <2>2. raced' \subseteq Invites
    BY <1>2, <2>1 DEF LookUpToken, FindToRevoke, NoteRace
  <2> QED
    BY <1>2, <2>2 DEF LookUpToken, FindToRevoke
<1>3. CASE MarkExpired(q) \/ UseUp(q) \/ MarkAccepted(q) \/ MarkRevoked(q)
  BY <1>3 DEF MarkExpired, UseUp, MarkAccepted, MarkRevoked, WriteStatus
<1>4. CASE FindUser(q) \/ CreateUser(q)
  <2>1. CASE FindUser(q)
    BY <2>1 DEF FindUser
  <2>2. CASE CreateUser(q)
    <3>1. q \in Accepts /\ (made' = made \/ made' = made \cup {InviteOf[q]})
      BY <2>2 DEF CreateUser
    <3>2. step' = [step EXCEPT ![q] = "accept"] \/ step' = [step EXCEPT ![q] = "failed"]
      BY <2>2 DEF CreateUser
    <3> QED
      BY <2>2, <3>1, <3>2 DEF CreateUser
  <2> QED
    BY <1>4, <2>1, <2>2
<1>5. CASE Review(q)
  BY <1>5, DecisionAssumption DEF Review
<1>6. CASE RecordMail(q) \/ \E result \in MailResults : SendApproval(q, result)
  BY <1>6 DEF RecordMail, SendApproval
<1>7. CASE CallFails(q)
  BY <1>7 DEF CallFails
<1> QED
  BY <1>1, <1>2, <1>3, <1>4, <1>5, <1>6, <1>7 DEF RequestStep

LEMMA StepKeepsType == OnboardTypeOK /\ [Next]_vars => OnboardTypeOK'
<1> SUFFICES ASSUME OnboardTypeOK, [Next]_vars PROVE OnboardTypeOK'
  OBVIOUS
<1>1. CASE \E q \in Requests \cap load : RequestStep(q)
  BY <1>1, RequestKeepsType
<1>2. CASE \E i \in Invites \cap load : Lapse(i)
  BY <1>2 DEF Lapse, OnboardTypeOK, KeepReviews
<1>3. CASE SignsIn \/ UNCHANGED vars
  BY <1>3 DEF SignsIn, vars, onboardVars, history, OnboardTypeOK
<1>4. CASE Crash
  BY <1>4 DEF Crash, OnboardCrash, OnboardTypeOK, Ended, KeepInvites, KeepReviews
<1> QED
  BY <1>1, <1>2, <1>3, <1>4 DEF Next, Onboards

-----------------------------------------------------------------------------
(* Onboarding: invites *)

(* A request for an invite found it, and what it made is there.             *)
Founded ==
  /\ \A i \in Invites : step[i] \in {"new", "insert"} => invite[i] = None
  /\ \A q \in Accepts \cup Revokes : step[q] \notin {"new", "refused"} => invite[InviteOf[q]] # None
  /\ \A i \in made : invite[i] # None
  /\ \A a \in Accepts : step[a] \in {"accept", "done"} => account # None

(* One request at a time: it is for a pending invite, and when it is        *)
(* through the invite is what the request made it.                          *)
OneAtATime(i) ==
  /\ \A p, q \in Working(i) : p = q
  /\ Working(i) # {} => invite[i] = "PENDING"
  /\ \A v \in Revokes : InviteOf[v] = i =>
       /\ step[v] = "revoke" => (i \notin made \/ CutOff(i))
       /\ step[v] = "done" => invite[i] = "REVOKED" /\ (i \notin made \/ CutOff(i)) /\ Working(i) = {}
  /\ \A a \in Accepts : InviteOf[a] = i /\ step[a] = "done" => invite[i] = "ACCEPTED" /\ Working(i) = {}

InvitesInv == Founded /\ MadeIsUsedUp /\ \A i \in Invites \ raced : OneAtATime(i)

(* What leaves the requests for invites alone keeps their invariant.        *)
LEMMA OthersKeepInvites ==
  ASSUME OnboardTypeOK, InvitesInv,
         account # None => account' # None,
         UNCHANGED <<invite, made, raced, cut>>,
         \A q \in Accepts \cup Revokes : step'[q] = step[q],
         \A i \in Invites : step'[i] \in {"new", "insert"} => step[i] \in {"new", "insert"}
  PROVE  InvitesInv'
<1> USE InviteOfAssumption DEF InvitesInv
<1>1. \A i \in Invites : Working(i)' = Working(i) /\ CutOff(i)' = CutOff(i)
  BY DEF Working, CutOff
<1>2. Founded'
  BY DEF Founded
<1>3. MadeIsUsedUp'
  BY <1>1 DEF MadeIsUsedUp, OnboardTypeOK
<1>4. \A i \in Invites \ raced : OneAtATime(i)'
  BY <1>1 DEF OneAtATime
<1> QED
  BY <1>2, <1>3, <1>4

(* A request for i moves: nothing changes about the other invites.          *)
LEMMA OtherInvitesKeep ==
  ASSUME OnboardTypeOK, NEW i \in Invites, NEW q \in Accepts \cup Revokes, InviteOf[q] # i,
         NEW place, step' = [step EXCEPT ![q] = place],
         invite'[i] = invite[i], i \in made' <=> i \in made, cut \subseteq cut',
         OneAtATime(i)
  PROVE  OneAtATime(i)'
<1>1. \A p \in Accepts \cup Revokes : InviteOf[p] = i => step'[p] = step[p]
  BY DEF OnboardTypeOK, Requests
<1>2. Working(i)' = Working(i)
  BY <1>1 DEF Working
<1>3. CutOff(i) => CutOff(i)'
  BY DEF CutOff
<1> QED
  BY <1>1, <1>2, <1>3 DEF OneAtATime

(* findByTokenHash and findById: the request begins to work, alone or in a  *)
(* race, or is refused.                                                     *)
LEMMA LookUpKeepsInvites ==
  ASSUME OnboardTypeOK, InvitesInv, NEW q \in Accepts \cup Revokes, LookUpToken(q) \/ FindToRevoke(q)
  PROVE  InvitesInv'
<1> DEFINE j == InviteOf[q]
<1> USE InviteOfAssumption, KindsAssumption, NoneAssumption DEF InvitesInv, KeepReviews
<1>1. PICK place \in {"refused", "expire", "findUser", "revoke"} : step' = [step EXCEPT ![q] = place]
  BY DEF LookUpToken, FindToRevoke, To
<1>2. /\ step[q] = "new" /\ j \in Invites
      /\ place # "refused" => invite[j] = "PENDING"
      /\ place = "revoke" <=> (q \in Revokes /\ place # "refused")
      /\ q \in Accepts => invite[j] # None
  BY <1>1 DEF LookUpToken, FindToRevoke, To, IsAt, OnboardTypeOK, Requests, RefusedStatuses
<1>3. UNCHANGED <<account, invite, made, cut>> /\ NoteRace(j)
  BY DEF LookUpToken, FindToRevoke
<1>4. \A i \in Invites : CutOff(i)' = CutOff(i)
  BY <1>3 DEF CutOff
<1>5. Founded'
  BY <1>1, <1>2, <1>3 DEF Founded, OnboardTypeOK, Requests
<1>6. MadeIsUsedUp'
  <2>1. \A a \in Accepts : step[a] = "accept" => step'[a] = "accept"
    BY <1>1, <1>2 DEF OnboardTypeOK, Requests
  <2>2. raced \subseteq raced'
    BY <1>3 DEF NoteRace
  <2> QED
    BY <1>3, <1>4, <2>1, <2>2 DEF MadeIsUsedUp, OnboardTypeOK
<1>7. ASSUME NEW i \in Invites, i \notin raced' PROVE OneAtATime(i)'
  <2>1. i \notin raced /\ OneAtATime(i) /\ (i = j => Working(i) = {})
    BY <1>3, <1>7 DEF NoteRace
  <2>2. CASE i # j
    BY <1>1, <1>3, <2>1, <2>2, OtherInvitesKeep
  <2>3. CASE i = j
    <3>1. Working(i)' = IF place = "refused" THEN {} ELSE {q}
      BY <1>1, <1>2, <2>1, <2>3 DEF Working, OnboardTypeOK, Requests, Ended
    <3>2. place = "revoke" => (i \notin made \/ CutOff(i))
      BY <1>2, <2>1, <2>3 DEF MadeIsUsedUp, Working, Ended
    <3>3. place # "refused" => \A p \in Accepts \cup Revokes : InviteOf[p] = i => step[p] # "done"
      BY <1>2, <2>1, <2>3 DEF OneAtATime
    <3> QED
      BY <1>1, <1>2, <1>3, <1>4, <2>1, <2>3, <3>1, <3>2, <3>3 DEF OneAtATime, OnboardTypeOK, Requests
  <2> QED
    BY <2>2, <2>3
<1> QED
  BY <1>5, <1>6, <1>7

(* The account is looked up, and made.                                      *)
LEMMA UserKeepsInvites ==
  ASSUME OnboardTypeOK, InvitesInv, NEW q \in Accepts, FindUser(q) \/ CreateUser(q)
  PROVE  InvitesInv'
<1> DEFINE j == InviteOf[q]
<1> USE InviteOfAssumption, KindsAssumption, NoneAssumption DEF InvitesInv, KeepReviews, KeepInvites
<1>1. PICK place \in {"createUser", "useUp", "accept", "failed"} : step' = [step EXCEPT ![q] = place]
  <2>1. CASE FindUser(q)
    BY <2>1 DEF FindUser, To
  <2>2. CASE CreateUser(q)
    BY <2>2 DEF CreateUser, To
  <2> QED
    BY <2>1, <2>2
<1>2. UNCHANGED <<invite, raced, cut>> /\ step[q] \in {"findUser", "createUser"} /\ j \in Invites
  BY DEF FindUser, CreateUser, IsAt
<1>3. step'[q] = place
  BY <1>1 DEF OnboardTypeOK, Requests
<1>4. \/ UNCHANGED <<account, made>> /\ place # "accept"
      \/ made' = made \cup {j} /\ place = "accept" /\ account' # None
  <2>1. CASE FindUser(q)
    BY <2>1, <1>3 DEF FindUser, To, OnboardTypeOK, Requests
  <2>2. CASE CreateUser(q) /\ account = None
    <3>1. account' = NewAccount("own", FALSE) /\ made' = made \cup {j} /\ step' = [step EXCEPT ![q] = "accept"]
      BY <2>2 DEF CreateUser, To
    <3>2. place = "accept"
      BY <3>1, <1>3 DEF OnboardTypeOK, Requests
    <3>3. NewAccount("own", FALSE) # None
      BY NewAccountIsUser
    <3> QED
      BY <3>1, <3>2, <3>3
  <2>3. CASE CreateUser(q) /\ account # None
    BY <2>3, <1>3 DEF CreateUser, To, OnboardTypeOK, Requests
  <2> QED
    BY <2>1, <2>2, <2>3
<1>5. q \in Working(j) /\ invite[j] # None
  BY <1>2 DEF Working, Ended, Founded
<1>6. \A i \in Invites : CutOff(i)' = CutOff(i)
  BY <1>2 DEF CutOff
<1>7. Founded'
  BY <1>1, <1>2, <1>4, <1>5 DEF Founded, OnboardTypeOK, Requests
<1>8. MadeIsUsedUp'
  BY <1>1, <1>2, <1>4, <1>6 DEF MadeIsUsedUp, OnboardTypeOK, Requests
<1>9. ASSUME NEW i \in Invites \ raced' PROVE OneAtATime(i)'
  <2>1. CASE i # j
    BY <1>1, <1>2, <1>4, <2>1, OtherInvitesKeep
  <2>2. CASE i = j
    <3>1. Working(i)' \subseteq Working(i)
      BY <1>1, <1>2, <1>5, <2>2 DEF Working, OnboardTypeOK, Requests
    <3>2. \A v \in Revokes : InviteOf[v] = i => step'[v] = step[v] /\ step[v] \notin {"revoke", "done"}
      BY <1>1, <1>2, <1>5, <2>2 DEF OneAtATime, Working, OnboardTypeOK, Requests, Ended
    <3>3. \A a \in Accepts : InviteOf[a] = i => step'[a] # "done"
      BY <1>1, <1>2, <1>5, <2>2 DEF OneAtATime, OnboardTypeOK, Requests
    <3> QED
      BY <1>2, <1>9, <2>2, <3>1, <3>2, <3>3 DEF OneAtATime
  <2> QED
    BY <2>1, <2>2
<1> QED
  BY <1>2, <1>7, <1>8, <1>9

(* updateStatus: the invite ends, and the request with it.                  *)
LEMMA WriteKeepsInvites ==
  ASSUME OnboardTypeOK, InvitesInv, NEW q \in Accepts \cup Revokes,
         MarkExpired(q) \/ UseUp(q) \/ MarkAccepted(q) \/ MarkRevoked(q)
  PROVE  InvitesInv'
<1> DEFINE j == InviteOf[q]
<1> USE InviteOfAssumption, KindsAssumption, NoneAssumption DEF InvitesInv, KeepReviews
<1>1. PICK status \in {"EXPIRED", "ACCEPTED", "REVOKED"}, place \in {"refused", "done"} :
        /\ invite' = [invite EXCEPT ![j] = status]
        /\ step' = [step EXCEPT ![q] = place]
        /\ UNCHANGED <<account, made, raced, cut>>
        /\ \/ step[q] \in {"expire", "useUp"} /\ q \in Accepts /\ place = "refused"
           \/ step[q] = "accept" /\ q \in Accepts /\ status = "ACCEPTED" /\ place = "done"
           \/ step[q] = "revoke" /\ q \in Revokes /\ status = "REVOKED" /\ place = "done"
  <2>1. CASE MarkExpired(q)
    BY <2>1 DEF MarkExpired, WriteStatus, IsAt, To
  <2>2. CASE UseUp(q)
    BY <2>2 DEF UseUp, WriteStatus, IsAt, To
  <2>3. CASE MarkAccepted(q)
    BY <2>3 DEF MarkAccepted, WriteStatus, IsAt, To
  <2>4. CASE MarkRevoked(q)
    BY <2>4 DEF MarkRevoked, WriteStatus, IsAt, To
  <2> QED
    BY <2>1, <2>2, <2>3, <2>4
<1>2. q \in Working(j) /\ j \in Invites /\ invite'[j] = status /\ status # None
  BY <1>1 DEF Working, Ended, OnboardTypeOK
<1>3. \A i \in Invites : CutOff(i)' = CutOff(i)
  BY <1>1 DEF CutOff
<1>4. Founded'
  BY <1>1, <1>2 DEF Founded, OnboardTypeOK, Requests
<1>5. MadeIsUsedUp'
  <2> SUFFICES ASSUME NEW i \in made, i \notin raced, ~CutOff(i)
               PROVE  \/ invite'[i] = "ACCEPTED"
                      \/ \E a \in Accepts : InviteOf[a] = i /\ step'[a] = "accept"
    BY <1>1, <1>3 DEF MadeIsUsedUp, OnboardTypeOK
  <2>1. i \in Invites /\ OneAtATime(i)
    BY DEF OnboardTypeOK
  <2>2. invite[i] = "ACCEPTED" \/ \E a \in Accepts : InviteOf[a] = i /\ step[a] = "accept"
    BY DEF MadeIsUsedUp
  <2>3. CASE i # j
    BY <1>1, <2>1, <2>2, <2>3 DEF OnboardTypeOK, Requests
  <2>4. CASE i = j
    <3>1. invite[i] = "PENDING"
      BY <1>2, <2>1, <2>4 DEF OneAtATime
    <3>2. PICK a \in Accepts : InviteOf[a] = i /\ step[a] = "accept"
      BY <2>2, <3>1
    <3>3. a = q
      BY <1>2, <2>1, <2>4, <3>2 DEF OneAtATime, Working, Ended
    <3> QED
      BY <1>1, <1>2, <2>4, <3>2, <3>3
  <2> QED
    BY <2>3, <2>4
<1>6. ASSUME NEW i \in Invites, i \notin raced' PROVE OneAtATime(i)'
  <2>1. OneAtATime(i)
    BY <1>1, <1>6
  <2>2. CASE i # j
    BY <1>1, <2>1, <2>2, OtherInvitesKeep DEF OnboardTypeOK
  <2>3. CASE i = j
    <3>1. Working(i)' = {}
      BY <1>1, <1>2, <2>1, <2>3 DEF OneAtATime, Working, Ended, OnboardTypeOK, Requests
    <3>2. \A p \in Accepts \cup Revokes : InviteOf[p] = i => step[p] # "done" /\ (p # q => step[p] # "revoke")
      BY <1>2, <2>1, <2>3 DEF OneAtATime, Working, Ended
    <3>3. step[q] = "revoke" => (i \notin made \/ CutOff(i))
      BY <1>1, <2>1, <2>3 DEF OneAtATime
    <3> QED
      BY <1>1, <1>2, <1>3, <2>3, <3>1, <3>2, <3>3 DEF OneAtATime, OnboardTypeOK, Requests
  <2> QED
    BY <2>2, <2>3
<1> QED
  BY <1>4, <1>5, <1>6

(* Requests are cut off: what works for an invite afterwards did before.    *)
LEMMA CutsKeepInvites ==
  ASSUME OnboardTypeOK, InvitesInv,
         UNCHANGED <<account, invite, made, raced>>, cut \subseteq cut',
         \A q \in Requests :
           \/ step'[q] = step[q]
           \/ /\ step'[q] \in {"failed", "crashed"} /\ step[q] \notin Ended \cup {"new"}
              /\ step[q] = "accept" => q \in cut'
  PROVE  InvitesInv'
<1> USE InviteOfAssumption DEF InvitesInv
<1>1. \A i \in Invites : Working(i)' \subseteq Working(i) /\ (CutOff(i) => CutOff(i)')
  BY DEF Working, CutOff, Ended, Requests
<1>2. \A q \in Requests : step'[q] \notin {"failed", "crashed"} => step'[q] = step[q]
  OBVIOUS
<1>3. Founded'
  BY <1>2 DEF Founded, Requests, Ended
<1>4. MadeIsUsedUp'
  <2> SUFFICES ASSUME NEW i \in made, invite[i] # "ACCEPTED", i \notin raced, ~CutOff(i)'
               PROVE  \E a \in Accepts : InviteOf[a] = i /\ step'[a] = "accept"
    BY DEF MadeIsUsedUp
  <2>1. PICK a \in Accepts : InviteOf[a] = i /\ step[a] = "accept"
    BY <1>1 DEF MadeIsUsedUp, OnboardTypeOK
  <2>2. a \notin cut'
    BY <2>1 DEF CutOff
  <2> QED
    BY <2>1, <2>2 DEF Requests
<1>5. ASSUME NEW i \in Invites \ raced PROVE OneAtATime(i)'
  BY <1>1, <1>2 DEF OneAtATime, Requests
<1> QED
  BY <1>3, <1>4, <1>5

LEMMA RequestKeepsInvites ==
  ASSUME OnboardTypeOK, InvitesInv, NEW q \in Requests, RequestStep(q)
  PROVE  InvitesInv'
<1> USE KindsAssumption DEF To, KeepInvites, OnboardTypeOK
<1>1. CASE FindAddress(q)
  BY <1>1, OthersKeepInvites DEF FindAddress, IsAt, Requests
<1>2. CASE InsertUser(q)
  <2>1. account' # None
    BY <1>2, NewAccountIsUser DEF InsertUser
  <2>2. PICK place \in {"done", "failed"} : step' = [step EXCEPT ![q] = place]
    <3>1. CASE account = None
      BY <1>2, <3>1 DEF InsertUser
    <3>2. CASE account # None
      BY <1>2, <3>2 DEF InsertUser
    <3> QED
      BY <3>1, <3>2
  <2>3. q \in Provisions /\ UNCHANGED <<invite, made, raced, cut>>
    BY <1>2 DEF InsertUser
  <2>4. \A p \in Accepts \cup Revokes \cup Invites : step'[p] = step[p]
    BY <2>2, <2>3 DEF Requests
  <2> QED
    BY <2>1, <2>3, <2>4, OthersKeepInvites
<1>3. CASE InsertInvite(q)
  <2> USE <1>3, InviteOfAssumption, NoneAssumption DEF InsertInvite, InvitesInv, IsAt
  <2>1. invite[q] = None /\ q \notin made /\ \A p \in Accepts \cup Revokes : step'[p] = step[p]
    BY DEF Founded, Requests
  <2>2. \A p \in Accepts \cup Revokes : InviteOf[p] = q => step[p] \in {"new", "refused"}
    BY <2>1 DEF Founded
  <2>3. \A i \in Invites : Working(i)' = Working(i) /\ CutOff(i)' = CutOff(i)
    BY <2>1 DEF Working, CutOff
  <2>4. Founded'
    BY <2>1 DEF Founded, Requests
  <2>5. MadeIsUsedUp'
    BY <2>1, <2>3 DEF MadeIsUsedUp
  <2>6. \A i \in Invites \ raced : OneAtATime(i)'
    BY <2>1, <2>2, <2>3 DEF OneAtATime
  <2> QED
    BY <2>4, <2>5, <2>6
<1>4. CASE LookUpToken(q) \/ FindToRevoke(q)
  BY <1>4, LookUpKeepsInvites DEF LookUpToken, FindToRevoke
<1>5. CASE MarkExpired(q) \/ UseUp(q) \/ MarkAccepted(q) \/ MarkRevoked(q)
  BY <1>5, WriteKeepsInvites DEF MarkExpired, UseUp, MarkAccepted, MarkRevoked
<1>6. CASE FindUser(q) \/ CreateUser(q)
  BY <1>6, UserKeepsInvites DEF FindUser, CreateUser
<1>7. CASE Review(q) \/ RecordMail(q) \/ \E result \in MailResults : SendApproval(q, result)
  BY <1>7, OthersKeepInvites DEF Review, RecordMail, SendApproval, Requests
<1>8. CASE CallFails(q)
  BY <1>8, CutsKeepInvites DEF CallFails, KeepReviews, AfterAWrite
<1> QED
  BY <1>1, <1>2, <1>3, <1>4, <1>5, <1>6, <1>7, <1>8 DEF RequestStep

LEMMA InvitesInit == Init => InvitesInv
BY KindsAssumption, InviteOfAssumption
DEF Init, OnboardInit, InvitesInv, Founded, MadeIsUsedUp, OneAtATime, Working, Requests

LEMMA StepKeepsInvites ==
  ASSUME OnboardTypeOK, SInv, SInv', InvitesInv, [Next]_vars
  PROVE  InvitesInv'
<1>1. CASE \E q \in Requests \cap load : RequestStep(q)
  BY <1>1, RequestKeepsInvites
<1>2. CASE \E i \in Invites \cap load : Lapse(i)
  BY <1>2, OthersKeepInvites DEF Lapse
<1>3. CASE SignsIn \/ UNCHANGED vars
  <2>1. UNCHANGED <<invite, made, raced, cut, step>>
    BY <1>3 DEF SignsIn, vars, onboardVars, history
  <2>2. account # None => account' # None
    <3>1. CASE UNCHANGED vars
      BY <3>1 DEF vars, onboardVars
    <3>2. CASE SignsIn
      BY <3>2, SignsInKeepsAccount
    <3> QED
      BY <1>3, <3>1, <3>2
  <2> QED
    BY <2>1, <2>2, OthersKeepInvites
<1>4. CASE Crash
  BY <1>4, CutsKeepInvites
  DEF Crash, OnboardCrash, OnboardTypeOK, KeepInvites, KeepReviews, AfterAWrite
<1> QED
  BY <1>1, <1>2, <1>3, <1>4 DEF Next, Onboards

-----------------------------------------------------------------------------
(* Onboarding: reviews *)

(* Of an application that was decided once: what the status says, and, when *)
(* the review is through, the e-mail's.                                     *)
DecidedOnce(w) ==
  /\ application.status = Decision[w]
  /\ step[w] = "done" => (w \in told <=> application.mail = "SENT")

ReviewsInv ==
  /\ IsFiniteSet(decided) /\ told \subseteq decided
  /\ \A w \in Reviews :
       /\ step[w] = "new" <=> w \notin decided
       /\ step[w] \in {"mail"} \cup MailResults \/ w \in told => Decision[w] = "APPROVED"
       /\ step[w] = "mail" => w \notin told
       /\ step[w] \in MailResults => (w \in told <=> step[w] = "SENT")
       /\ decided = {w} => DecidedOnce(w)
  /\ decided = {} => application.mail = "NOT_CONFIGURED"

LEMMA ReviewsInit == Init => ReviewsInv
BY FS_EmptySet, KindsAssumption, MailAssumption
DEF Init, OnboardInit, ReviewsInv, DecidedOnce, Requests

LEMMA RequestKeepsReviews ==
  ASSUME OnboardTypeOK, ReviewsInv, NEW q \in Requests, RequestStep(q)
  PROVE  ReviewsInv'
<1> USE KindsAssumption, MailAssumption DEF To, OnboardTypeOK, ReviewsInv, DecidedOnce
<1>1. CASE q \notin Reviews /\ UNCHANGED <<application, told, decided>>
  <2>1. \E place : step' = [step EXCEPT ![q] = place]
    <3>1. CASE InsertUser(q)
      BY <3>1 DEF InsertUser
    <3>2. CASE CreateUser(q)
      BY <3>2 DEF CreateUser
    <3>3. CASE ~InsertUser(q) /\ ~CreateUser(q)
      BY <1>1, <3>3
      DEF RequestStep, FindAddress, InsertInvite, LookUpToken, MarkExpired, FindUser, UseUp,
          MarkAccepted, FindToRevoke, MarkRevoked, WriteStatus, Review, RecordMail, SendApproval, CallFails
    <3> QED
      BY <3>1, <3>2, <3>3
  <2>2. \A w \in Reviews : step'[w] = step[w]
    BY <1>1, <2>1
  <2> QED
    BY <1>1, <2>2
<1>2. CASE Review(q)
  <2> USE <1>2 DEF Review, IsAt
  <2>1. IsFiniteSet(decided') /\ q \notin decided
    BY FS_AddElement
  <2>2. \A w \in Reviews : decided' = {w} => w = q /\ decided = {}
    BY <2>1
  <2> QED
    BY <2>1, <2>2 DEF Requests
<1>3. CASE \E result \in MailResults : SendApproval(q, result)
  BY <1>3 DEF SendApproval, IsAt, Requests
<1>4. CASE RecordMail(q)
  BY <1>4 DEF RecordMail, IsAt, Requests
<1>5. CASE CallFails(q)
  BY <1>5 DEF CallFails, Requests, KeepReviews, Ended
<1> QED
  BY <1>1, <1>2, <1>3, <1>4, <1>5
  DEF RequestStep, FindAddress, InsertInvite, InsertUser, LookUpToken, MarkExpired, FindUser, UseUp,
      CreateUser, MarkAccepted, FindToRevoke, MarkRevoked, WriteStatus, KeepReviews

LEMMA StepKeepsReviews ==
  ASSUME OnboardTypeOK, ReviewsInv, [Next]_vars
  PROVE  ReviewsInv'
<1>1. CASE \E q \in Requests \cap load : RequestStep(q)
  BY <1>1, RequestKeepsReviews
<1>2. CASE \E i \in Invites \cap load : Lapse(i)
  BY <1>2 DEF Lapse, KeepReviews, ReviewsInv, DecidedOnce
<1>3. CASE SignsIn \/ UNCHANGED vars
  BY <1>3 DEF SignsIn, vars, onboardVars, history, ReviewsInv, DecidedOnce
<1>4. CASE Crash
  BY <1>4, MailAssumption
  DEF Crash, OnboardCrash, KeepReviews, ReviewsInv, DecidedOnce, Ended, Requests
<1> QED
  BY <1>1, <1>2, <1>3, <1>4 DEF Next, Onboards

-----------------------------------------------------------------------------
(* What they promise *)

IInv == SInv /\ OnboardTypeOK /\ InvitesInv /\ ReviewsInv

LEMMA InitIInv == Init => IInv
<1>1. Init => OnboardTypeOK
  BY DEF Init, OnboardInit, OnboardTypeOK, Ended
<1> QED
  BY <1>1, SessionInitSInv, InvitesInit, ReviewsInit DEF IInv

LEMMA StepIInv == IInv /\ [Next]_vars => IInv'
<1> SUFFICES ASSUME IInv, [Next]_vars PROVE IInv'
  OBVIOUS
<1> USE DEF IInv
<1>1. SInv'
  <2>1. CASE UNCHANGED vars
    BY <2>1
    DEF vars, browserVars, onboardVars, SInv, CallsTypeOK, SentOnce, BarredGetNowhere, OwingGetNowhere,
        Session!DisabledIsKeptOut, Session!MustChangeFirst
  <2> QED
    BY <2>1, OnboardsKeepsSInv, SignsInKeepsSInv, CrashKeepsSInv DEF Next
<1> QED
  BY <1>1, StepKeepsType, StepKeepsInvites, StepKeepsReviews

LEMMA IInvAlways == Spec => []IInv
BY InitIInv, StepIInv, PTL DEF Spec

(* Type correctness of accounts, invites, applications and sessions         *)
(* (users, invites, volunteer_applications; AuthService).                   *)
THEOREM AccountsTypeCorrect == Spec => []TypeOK
<1>1. SInv => Session!SessionTypeOK
  BY DEF SInv, CallsTypeOK, CallState, Places, Cookies, Rows, UserRows, Session!SessionTypeOK
<1> QED
  BY <1>1, IInvAlways, PTL DEF IInv, TypeOK

(* JwtStrategy.validate, AuthService: what is sent for a disabled account,  *)
(* or for one whose password must be changed first, gets nowhere, in any    *)
(* interleaving with the admin, other tabs and changes of the password.     *)
THEOREM DisabledAreKeptOut == Spec => []KeptOut
<1>1. SInv => KeptOut
  BY DEF SInv, BarredGetNowhere, OwingGetNowhere, KeptOut
<1> QED
  BY <1>1, IInvAlways, PTL DEF IInv

(* InvitesService.accept and revoke: an invite ends once, as whoever ended  *)
(* it was told, for any number of invites, accepts and revokes.             *)
THEOREM InvitesKeptTheirWord == Spec => []InvitesKeepTheirWord
<1>1. InvitesInv => InvitesKeepTheirWord
  BY InviteOfAssumption
  DEF InvitesInv, Founded, OneAtATime, InvitesKeepTheirWord, RevokedIsFinal, AcceptedIsFinal
<1> QED
  BY <1>1, IInvAlways, PTL DEF IInv

(* VolunteerApplicationsService.review: the e-mail, email_status and the    *)
(* decision agree when an application was reviewed once.                    *)
THEOREM MailAgrees == Spec => []MailAgreesWithReview
<1>1. ASSUME OnboardTypeOK, ReviewsInv PROVE MailAgreesWithReview
  <2> SUFFICES ASSUME Cardinality(decided) = 1, NEW w \in decided
               PROVE  /\ DecidedOnce(w)
                      /\ w \in told => Decision[w] = "APPROVED"
    BY DEF MailAgreesWithReview, ReviewedOnceAgrees, DecidedOnce
  <2>1. decided = {w} /\ w \in Reviews
    BY <1>1, FS_Singleton DEF ReviewsInv, OnboardTypeOK
  <2> QED
    BY <1>1, <2>1 DEF ReviewsInv
<1> QED
  BY <1>1, IInvAlways, PTL DEF IInv
=============================================================================
