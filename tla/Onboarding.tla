------------------------------ MODULE Onboarding ------------------------------
(***************************************************************************)
(* How a person comes to an account: a volunteer application and its       *)
(* reviews (backend/src/modules/volunteer-applications), an invite that is *)
(* accepted, revoked or lapses (modules/invites), an account made by an    *)
(* admin (modules/users).  One person, with one e-mail address.            *)
(*                                                                         *)
(* No request runs in a transaction: every await is a step.  The e-mail of *)
(* an invite is a job of SideEffectQueue; the rate limit and the           *)
(* idempotency key of the public requests are those of Shop.               *)
(***************************************************************************)
EXTENDS FiniteSets, Naturals

CONSTANTS
  Invites,       \* requests POST admin/invites; the invite has the request's name
  Accepts,       \* requests POST public/invites/:token/accept
  Revokes,       \* requests PATCH admin/invites/:id/revoke
  InviteOf,      \* the invite each of those two is for
  Provisions,    \* requests POST admin/users
  Reviews,       \* requests PATCH admin/volunteer-applications/:id
  Decision,      \* the status each of them writes
  MailResults,   \* what the e-mail provider may answer, or throw
  None,
  OnboardFaults  \* TRUE: a database call may fail, the process may die

ASSUME DecisionAssumption == Decision \in [Reviews -> {"APPROVED", "REJECTED"}]
ASSUME OnboardFaultsAssumption == OnboardFaults \in BOOLEAN
ASSUME MailAssumption == MailResults \subseteq {"NOT_CONFIGURED", "SENT", "FAILED"}
ASSUME InviteOfAssumption == InviteOf \in [Accepts \cup Revokes -> Invites]
ASSUME KindsAssumption ==
  /\ Invites \cap Accepts = {} /\ Invites \cap Revokes = {} /\ Accepts \cap Revokes = {}
  /\ (Invites \cup Accepts \cup Revokes) \cap (Provisions \cup Reviews) = {}
  /\ Provisions \cap Reviews = {}

(* A row of the users table, as far as anybody looks at it.                 *)
UserRows == [status : {"ACTIVE", "DISABLED"}, mustChange : BOOLEAN, password : {"temporary", "own", "other"}]

ASSUME NoneAssumption == None \notin UserRows \cup {"PENDING", "ACCEPTED", "EXPIRED", "REVOKED"}

VARIABLES
  account,      \* users: the row of the person's e-mail, or None
  invite,       \* invites.status of each invite, None before its INSERT
  lapsed,       \* the invites whose expires_at has passed
  application,  \* the application: status, email_status
  step,         \* where each request is
  (* history *)
  made,         \* the invites an account was made from
  raced,        \* the invites two requests were in progress for at once
  cut,          \* the requests that failed or died after their first write
  told,         \* the approvals the person was sent an e-mail about
  decided       \* the reviews that wrote their decision

onboardVars == <<account, invite, lapsed, application, step, made, raced, cut, told, decided>>
history     == <<made, raced, cut, told, decided>>

Requests == Invites \cup Accepts \cup Revokes \cup Provisions \cup Reviews
Ended    == {"done", "refused", "failed", "crashed"}

(* users.create: ACTIVE by default.                                         *)
NewAccount(password, mustChange) ==
  [status |-> "ACTIVE", password |-> password, mustChange |-> mustChange]

OnboardInit ==
  /\ invite = [i \in Invites |-> None]
  /\ lapsed = {}
  /\ application = [status |-> "PENDING", mail |-> "NOT_CONFIGURED"]
  /\ step = [q \in Requests |-> "new"]
  /\ made = {} /\ raced = {} /\ cut = {} /\ told = {} /\ decided = {}

IsAt(q, place) == step[q] = place
To(q, place)   == step' = [step EXCEPT ![q] = place]
KeepInvites    == UNCHANGED <<invite, lapsed, made, raced>>
KeepReviews    == UNCHANGED <<application, told, decided>>

-----------------------------------------------------------------------------
(* InvitesService.create, UsersService.create *)

(* findByEmail: 409 for an address that has an account.  Nobody asks for    *)
(* another pending invite.                                                  *)
FindAddress(q) ==
  /\ q \in Invites \cup Provisions
  /\ IsAt(q, "new")
  /\ To(q, IF account = None THEN "insert" ELSE "refused")
  /\ KeepInvites /\ KeepReviews /\ UNCHANGED <<account, cut>>

InsertInvite(i) ==
  /\ i \in Invites
  /\ IsAt(i, "insert")
  /\ invite' = [invite EXCEPT ![i] = "PENDING"]
  /\ To(i, "done")
  /\ KeepReviews /\ UNCHANGED <<account, lapsed, made, raced, cut>>

(* users.create after bcrypt.hash; the unique e-mail makes a second one     *)
(* fail, as a 500.                                                          *)
InsertUser(p) ==
  /\ p \in Provisions
  /\ IsAt(p, "insert")
  /\ IF account = None
       THEN account' = NewAccount("temporary", TRUE) /\ To(p, "done")
       ELSE UNCHANGED account /\ To(p, "failed")
  /\ KeepInvites /\ KeepReviews /\ UNCHANGED cut

-----------------------------------------------------------------------------
(* InvitesService.accept and revoke *)

(* The requests for an invite that have looked it up and are not through.   *)
Working(i)  == {q \in Accepts \cup Revokes : InviteOf[q] = i /\ step[q] \notin Ended \cup {"new"}}
NoteRace(i) == raced' = IF Working(i) = {} THEN raced ELSE raced \cup {i}

(* findByTokenHash, the status, the clock.  (Broken: a revoked invite is    *)
(* taken for a pending one.)                                                *)
RefusedStatusesLax == {"ACCEPTED", "EXPIRED"}

RefusedStatuses == {"ACCEPTED", "REVOKED", "EXPIRED"}

LookUpToken(a) ==
  /\ a \in Accepts
  /\ IsAt(a, "new") /\ invite[InviteOf[a]] # None
  /\ To(a, IF invite[InviteOf[a]] \in RefusedStatuses THEN "refused"
           ELSE IF InviteOf[a] \in lapsed THEN "expire" ELSE "findUser")
  /\ NoteRace(InviteOf[a])
  /\ KeepReviews /\ UNCHANGED <<account, invite, lapsed, made, cut>>

(* updateStatus EXPIRED, ACCEPTED or REVOKED, whatever the status is by now.*)
WriteStatus(q, from, status, to) ==
  /\ IsAt(q, from)
  /\ invite' = [invite EXCEPT ![InviteOf[q]] = status]
  /\ To(q, to)
  /\ KeepReviews /\ UNCHANGED <<account, lapsed, made, raced, cut>>

MarkExpired(a) == a \in Accepts /\ WriteStatus(a, "expire", "EXPIRED", "refused")

(* findByEmail: somebody who has an account uses the invite up, and gets    *)
(* 409.                                                                     *)
FindUser(a) ==
  /\ a \in Accepts
  /\ IsAt(a, "findUser")
  /\ To(a, IF account = None THEN "createUser" ELSE "useUp")
  /\ KeepInvites /\ KeepReviews /\ UNCHANGED <<account, cut>>

UseUp(a) == a \in Accepts /\ WriteStatus(a, "useUp", "ACCEPTED", "refused")

(* users.create.  (Broken: with the status of its invite.)                  *)
CreateUserAsInvited(a) ==
  /\ a \in Accepts
  /\ IsAt(a, "createUser")
  /\ IF account = None
       THEN /\ account' = [NewAccount("own", FALSE) EXCEPT !.status = invite[InviteOf[a]]]
            /\ made' = made \cup {InviteOf[a]}
            /\ To(a, "accept")
       ELSE UNCHANGED <<account, made>> /\ To(a, "failed")
  /\ KeepReviews /\ UNCHANGED <<invite, lapsed, raced, cut>>

CreateUser(a) ==
  /\ a \in Accepts
  /\ IsAt(a, "createUser")
  /\ IF account = None
       THEN /\ account' = NewAccount("own", FALSE)
            /\ made' = made \cup {InviteOf[a]}
            /\ To(a, "accept")
       ELSE UNCHANGED <<account, made>> /\ To(a, "failed")
  /\ KeepReviews /\ UNCHANGED <<invite, lapsed, raced, cut>>

MarkAccepted(a) == a \in Accepts /\ WriteStatus(a, "accept", "ACCEPTED", "done")

(* findById, `status !== 'PENDING'`.                                        *)
FindToRevoke(v) ==
  /\ v \in Revokes
  /\ IsAt(v, "new")
  /\ To(v, IF invite[InviteOf[v]] = "PENDING" THEN "revoke" ELSE "refused")
  /\ NoteRace(InviteOf[v])
  /\ KeepReviews /\ UNCHANGED <<account, invite, lapsed, made, cut>>

MarkRevoked(v) == v \in Revokes /\ WriteStatus(v, "revoke", "REVOKED", "done")

Lapse(i) ==
  /\ invite[i] # None /\ i \notin lapsed
  /\ lapsed' = lapsed \cup {i}
  /\ KeepReviews /\ UNCHANGED <<account, invite, step, made, raced, cut>>

-----------------------------------------------------------------------------
(* VolunteerApplicationsService.review *)

(* findById, then update: whatever the status is, an application that was   *)
(* reviewed is reviewed again.  A rejection is answered at once.  (Broken:  *)
(* a rejection goes on to the approval's e-mail.)                           *)
ReviewAndMail(w) ==
  /\ w \in Reviews
  /\ IsAt(w, "new")
  /\ application' = [application EXCEPT !.status = Decision[w]]
  /\ decided' = decided \cup {w}
  /\ To(w, "mail")
  /\ KeepInvites /\ UNCHANGED <<account, cut, told>>

Review(w) ==
  /\ w \in Reviews
  /\ IsAt(w, "new")
  /\ application' = [application EXCEPT !.status = Decision[w]]
  /\ decided' = decided \cup {w}
  /\ To(w, IF Decision[w] = "APPROVED" THEN "mail" ELSE "done")
  /\ KeepInvites /\ UNCHANGED <<account, cut, told>>

(* sendConfirmation answers, or throws, which counts as FAILED.             *)
SendApproval(w, result) ==
  /\ w \in Reviews
  /\ IsAt(w, "mail")
  /\ told' = IF result = "SENT" THEN told \cup {w} ELSE told
  /\ To(w, result)
  /\ KeepInvites /\ UNCHANGED <<account, application, decided, cut>>

RecordMail(w) ==
  /\ w \in Reviews
  /\ step[w] \in MailResults
  /\ application' = [application EXCEPT !.mail = step[w]]
  /\ To(w, "done")
  /\ KeepInvites /\ UNCHANGED <<account, told, decided, cut>>

-----------------------------------------------------------------------------
(* A database call throws: the request fails where it is.                   *)
AfterAWrite(q) == step[q] \in {"accept", "mail"} \cup MailResults

CallFails(q) ==
  /\ OnboardFaults
  /\ step[q] \notin Ended \cup {"new", "mail"}
  /\ To(q, "failed")
  /\ cut' = IF AfterAWrite(q) THEN cut \cup {q} ELSE cut
  /\ KeepInvites /\ KeepReviews /\ UNCHANGED account

OnboardCrash ==
  /\ step' = [q \in Requests |-> IF step[q] \in Ended \cup {"new"} THEN step[q] ELSE "crashed"]
  /\ cut' = cut \cup {q \in Requests : AfterAWrite(q)}
  /\ KeepInvites /\ KeepReviews /\ UNCHANGED account

RequestStep(q) ==
  \/ FindAddress(q) \/ InsertInvite(q) \/ InsertUser(q)
  \/ LookUpToken(q) \/ MarkExpired(q) \/ FindUser(q) \/ UseUp(q) \/ CreateUser(q) \/ MarkAccepted(q)
  \/ FindToRevoke(q) \/ MarkRevoked(q)
  \/ Review(q) \/ RecordMail(q) \/ \E result \in MailResults : SendApproval(q, result)
  \/ CallFails(q)

-----------------------------------------------------------------------------
(* Properties *)

OnboardTypeOK ==
  /\ invite \in [Invites -> {None, "PENDING", "ACCEPTED", "EXPIRED", "REVOKED"}]
  /\ lapsed \subseteq Invites
  /\ application \in [status : {"PENDING", "APPROVED", "REJECTED"},
                      mail : {"NOT_CONFIGURED", "SENT", "FAILED"}]
  /\ step \in [Requests -> Ended \cup MailResults \cup
       {"new", "insert", "expire", "findUser", "useUp", "createUser", "accept", "revoke", "mail"}]
  /\ made \subseteq Invites /\ raced \subseteq Invites
  /\ cut \subseteq Requests /\ told \subseteq Reviews /\ decided \subseteq Reviews

(* The request that made an account from the invite was cut off after that. *)
CutOff(i) == \E a \in Accepts \cap cut : InviteOf[a] = i

(* A revoked invite stays revoked and has made no account.                  *)
RevokedIsFinal ==
  \A v \in Revokes : step[v] = "done" /\ InviteOf[v] \notin raced =>
    /\ invite[InviteOf[v]] = "REVOKED"
    /\ InviteOf[v] \notin made \/ CutOff(InviteOf[v])

(* Who was told that his invite is accepted has an account, and the invite  *)
(* stays accepted.                                                          *)
AcceptedIsFinal ==
  \A a \in Accepts : step[a] = "done" =>
    account # None /\ (InviteOf[a] \in raced \/ invite[InviteOf[a]] = "ACCEPTED")

(* An invite that made an account is used up, unless the request that made  *)
(* it is not through, or was cut off.                                       *)
MadeIsUsedUp ==
  \A i \in made :
    \/ invite[i] = "ACCEPTED" \/ i \in raced \/ CutOff(i)
    \/ \E a \in Accepts : InviteOf[a] = i /\ step[a] = "accept"

(* What the person was sent, what email_status says and what was decided    *)
(* agree for an application that was reviewed once.                         *)
ReviewedOnceAgrees ==
  Cardinality(decided) = 1 =>
    \A w \in decided :
      /\ application.status = Decision[w]
      /\ w \in told => Decision[w] = "APPROVED"
      /\ step[w] = "done" => (w \in told <=> application.mail = "SENT")
=============================================================================
