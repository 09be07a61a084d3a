------------------------------- MODULE Accounts -------------------------------
(***************************************************************************)
(* A person's account from the application or the invite (Onboarding) to   *)
(* signing in, changing the password and being disabled (Sessions): the    *)
(* two share the row of the users table.                                   *)
(***************************************************************************)
EXTENDS Onboarding

CONSTANTS
  Calls, Kind, Typed, Chosen, MaxCsrf, MaxSwitches,   \* see Sessions
  Existing,    \* the accounts the person may have at the start, or None
  Workloads    \* sets of requests that come in together

VARIABLES
  load,        \* the requests of this behaviour
  jar, call, csrfs, switches, barred, owing, handled, renewed, changed

Session == INSTANCE Sessions

browserVars == <<jar, call, csrfs, switches, barred, owing, handled, renewed, changed>>
vars        == <<load, onboardVars, browserVars>>

ASSUME ExistingAssumption ==
  Existing \subseteq {None} \cup {a \in UserRows : a.status = "ACTIVE"}
ASSUME CallsAssumption ==
  /\ Kind \in [Calls -> Session!Kinds]
  /\ \A c \in Calls : Kind[c] = "changePassword" => Chosen[c] \in {"temporary", "own", "other"}
  /\ MaxCsrf \in Nat /\ MaxSwitches \in Nat

Init ==
  /\ load \in Workloads
  /\ account \in Existing
  /\ OnboardInit
  /\ Session!SessionInit

(* The requests of either module; what the other one keeps stays as it is.  *)
Onboards ==
  /\ \/ \E q \in Requests \cap load : RequestStep(q)
     \/ \E i \in Invites \cap load : Lapse(i)
  /\ UNCHANGED <<load, browserVars>>

SignsIn ==
  /\ \/ \E c \in Calls \cap load : Session!CallStep(c)
     \/ Session!AccessEnds \/ Session!RefreshEnds
     \/ load \cap Calls # {} /\ Session!SwitchStatus
  /\ UNCHANGED <<load, invite, lapsed, application, step, history>>

(* The process dies: the browser's requests in it are refused.              *)
Crash ==
  /\ OnboardFaults
  /\ \E q \in Requests : step[q] \notin Ended \cup {"new"}
  /\ OnboardCrash
  /\ call' = [c \in Calls |-> IF call[c].at \in {"new", "answered"} THEN call[c]
                                 ELSE [call[c] EXCEPT !.at = "refused"]]
  /\ UNCHANGED <<load, jar, csrfs, switches, barred, owing, handled, renewed, changed>>

Next == Onboards \/ SignsIn \/ Crash

Spec == Init /\ [][Next]_vars

-----------------------------------------------------------------------------
(* Properties *)

TypeOK == OnboardTypeOK /\ Session!SessionTypeOK

(* Whatever an admin and the person do at once, a disabled account gets     *)
(* nothing it asks for from then on, and an account with a temporary        *)
(* password nothing but auth/me before that password is changed.            *)
KeptOut == Session!DisabledIsKeptOut /\ Session!MustChangeFirst

(* An invite ends once, as whoever ended it was told: revoked and without   *)
(* an account, or accepted and with one.  Unless two requests were in       *)
(* progress for it at once, or one was cut off after making the account.    *)
InvitesKeepTheirWord == RevokedIsFinal /\ AcceptedIsFinal /\ MadeIsUsedUp

(* The e-mail that was sent, email_status and the decision agree, for an    *)
(* application that was reviewed once.                                      *)
MailAgreesWithReview == ReviewedOnceAgrees

(* docs/TROUBLESHOOTING.md, of the access cookie that has ended: "The       *)
(* frontend calls refresh automatically".                                   *)
RefreshKeepsTheSession == Session!RefreshKeepsTheSession
=============================================================================
