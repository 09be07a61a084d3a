----------------------------- MODULE ConsolePage -----------------------------
(***************************************************************************)
(* One open page of the Next.js console (src/frontend/app) over the API.   *)
(*                                                                         *)
(* Every page is built alike: an effect loads the rows when the page opens *)
(* and whenever a server-side filter changes, controls send one request    *)
(* and then load again, put the answer in place of the row, or leave.  No  *)
(* page cancels a request or looks at which one an answer belongs to, so   *)
(* the answers of overlapping requests are applied in the order in which   *)
(* they arrive.  What differs from page to page is a record, see IsPage;   *)
(* the pages of this repository are in module ConsolePages.                *)
(***************************************************************************)
EXTENDS Integers, FiniteSets

CONSTANTS
  Instances,   \* the pages to open, see IsPage, each with the rows found and a
               \* bound on the requests it sends: [page, rows, requests]
  Rows,        \* the rows (orders, invites, ...) the server may hold
  NewRow,      \* the row that a create form makes
  MaxOthers,   \* bound: changes by other users
  None

ASSUME NewRowAssumption == NewRow \in Rows

ASSUME RowsAssumption ==
  /\ IsFiniteSet(Rows) /\ "page" \notin Rows
  /\ None \notin Rows \cup {"page", "ok", "refused", "failed"}

VARIABLES
  page,      \* the page that is open
  limit,     \* bound: requests it sends on behalf of the user
  (* server *)
  server,    \* the status of each row, "absent" before it is created
  version,   \* how often each row was written
  (* React state *)
  tab,       \* the filter that the next load asks for
  phase,     \* "loading", "ready", "error", or "left" for another page
  shown,     \* the rows and their statuses in state
  asOf,      \* the version of each row that `shown` reflects
  copy,      \* the row held by an open sheet, dialog or edit form
  busy,      \* busyId, or "page" for a flag of the whole page
  creating,  \* isSubmitting of the create form
  (* requests and their answers on the way *)
  flight,
  issued,
  others,    \* changes by other users so far
  (* history *)
  told,      \* the last version of each row whose command was answered
  surprised, \* rows on which a command found another status than its control showed
  touched,   \* rows that another user changed, or a run of the matcher deleted
  overtaken, \* an answer arrived, or a command ran, before an older one
  strayed,   \* the filter was changed while a command was on its way
  overlapped,\* a command was sent while one for another row, or its load, or a bulk, was on its way,
             \* or a bulk while any command was
  outdated,  \* a command was sent from a copy older than what the page was told,
             \* or from a selection of rows that are not on show
  lost       \* a command may have run without the page being told: its answer
             \* did not arrive, or another command sent with it failed

serverVars == <<server, version>>
stateVars  == <<tab, phase, shown, asOf, copy, busy, creating>>
netVars    == <<flight, issued>>
history    == <<told, surprised, touched, overtaken, strayed, overlapped, outdated, lost>>
vars       == <<page, limit, serverVars, stateVars, netVars, others, history>>

-----------------------------------------------------------------------------
(* Data *)

Phases  == {"loading", "ready", "error", "left"}
Guards  == {"row", "page", "none"}
Answers == {None, "ok", "refused", "failed"}

(* What a page is: the filters it sends and the statuses each one lists; the*)
(* status its rows are found in and the changes the API accepts; the        *)
(* statuses each row's buttons and each open copy offer; what its controls  *)
(* are disabled by, what follows a command, whether the API makes another   *)
(* row when asked for it again, or makes it in the place of others, and     *)
(* what is rendered while the page loads, if it loads at all.  Rows that    *)
(* stay on show meanwhile are those that answers replace, no page has both  *)
(* a selection and copies, and a form under the page's flag holds the copy. *)
IsPage(p) ==
  LET S == p.statuses IN
  /\ p.tabs # {} /\ p.lists \in [p.tabs -> SUBSET S] /\ p.firstTab \in p.tabs
  /\ p.first \in S /\ "absent" \notin S
  /\ {p.accepts, p.offers, p.copyOffers} \subseteq [S -> SUBSET S]
  /\ p.guard \in Guards /\ p.then \in {"reload", "replace", "leave"}
  /\ p.copyThen \in {"follows", "closes"}
  /\ p.rowsStay => p.then = "replace"
  /\ p.bulk => \A s \in S : p.copyOffers[s] = {}
  /\ \A flag \in {p.rowsStay, p.tabsStay, p.modal, p.creates, p.formStays, p.formShares, p.bulk,
                  p.reloadsOnError, p.retries, p.loads, p.repeats, p.clears} : flag \in BOOLEAN

ASSUME InstancesAssumption ==
  \A i \in Instances :
    /\ IsPage(i.page) /\ i.requests \in Nat /\ i.rows \subseteq Rows
    /\ i.page.creates => NewRow \notin i.rows

(* Requests on their way.  A load carries the filter of the closure that    *)
(* asked for it and, once the server has read, the rows; a command carries  *)
(* the row, the status asked for and the one its control showed, the control*)
(* and the guard it put up, the filter it will load again with, and the     *)
(* commands it was sent together with.                                      *)
Loads    == {q \in flight : q.kind = "load"}
Commands == {q \in flight : q.kind = "command"}

LoadRequest(id, t, frees) ==
  [kind |-> "load", id |-> id, tab |-> t, frees |-> frees, rows |-> None, asOf |-> None, answer |-> None]

Command(id, r, to, seen, from, frees, group) ==
  [kind |-> "command", id |-> id, row |-> r, to |-> to, seen |-> seen, from |-> from, frees |-> frees,
   tab |-> tab, group |-> group, waited |-> TRUE, answer |-> None, version |-> 0]

(* The rows the API lists under a filter.                                   *)
Listed(t) == [r \in {r \in Rows : server[r] \in page.lists[t]} |-> server[r]]

Init ==
  /\ \E i \in Instances :
       /\ page = i.page /\ limit = i.requests
       /\ server = [r \in Rows |-> IF r \in i.rows THEN page.first ELSE "absent"]
  /\ version = [r \in Rows |-> 0]
  /\ tab = page.firstTab
  /\ shown = <<>> /\ asOf = [r \in Rows |-> 0]
  /\ copy = None /\ busy = None /\ creating = FALSE
  /\ IF page.loads
       THEN phase = "loading" /\ issued = 1 /\ flight = {LoadRequest(1, page.firstTab, "nothing")}
       ELSE phase = "ready" /\ issued = 0 /\ flight = {}
  /\ others = 0
  /\ told = [r \in Rows |-> 0] /\ surprised = {} /\ touched = {}
  /\ overtaken = FALSE /\ strayed = FALSE /\ overlapped = FALSE /\ outdated = FALSE /\ lost = FALSE

-----------------------------------------------------------------------------
(* What the user does *)

(* A load starts: setStatus('loading'), and the request goes out.           *)
StartLoad(t, frees, rest) ==
  /\ phase' = "loading"
  /\ flight' = rest \cup {LoadRequest(issued + 1, t, frees)}
  /\ issued' = issued + 1

Behind == copy # None /\ page.modal         \* an overlay covers the page

(* Another filter: its effect loads with it, whatever is on its way.        *)
Select(t) ==
  /\ issued < limit /\ ~Behind
  /\ t # tab /\ (page.tabsStay \/ phase # "loading")
  /\ tab' = t
  /\ StartLoad(t, "nothing", flight)
  /\ strayed' = (strayed \/ Commands # {})
  /\ UNCHANGED <<page, limit, serverVars, shown, asOf, copy, busy, creating, others,
                 told, surprised, touched, overtaken, overlapped, outdated, lost>>

(* The button of the error state.                                           *)
Retry ==
  /\ issued < limit /\ ~Behind
  /\ phase = "error" /\ page.retries
  /\ StartLoad(tab, "nothing", flight)
  /\ UNCHANGED <<page, limit, serverVars, tab, shown, asOf, copy, busy, creating, others, history>>

RowsVisible == phase = "ready" \/ page.rowsStay

(* A control of row r is disabled while its guard is up.  (Broken: the      *)
(* button forgets `disabled`.)                                              *)
DisabledNever(r) == FALSE
Disabled(r) == busy = r \/ busy = "page"

(* The guard that a handler puts up before it awaits.  (Broken: a busyId    *)
(* set to the status of the row, which is a string as well.)                *)
GuardByStatus(r) ==
  CASE page.guard = "row" -> (IF r \in DOMAIN shown THEN shown[r] ELSE r)
    [] page.guard = "page" -> "page"
    [] OTHER -> busy

GuardFor(r) == CASE page.guard = "row" -> r [] page.guard = "page" -> "page" [] OTHER -> busy

(* The commands sent together: one of each row, all to one status.          *)
Send(targets, to, seen, from, frees) ==
  /\ issued + Cardinality(targets) <= limit
  /\ \E number \in [targets -> issued + 1 .. issued + Cardinality(targets)] :
       /\ \A r, s \in targets : number[r] = number[s] => r = s
       /\ flight' = flight \cup {Command(number[r], r, to, seen[r], from, frees, issued + 1) : r \in targets}
  /\ issued' = issued + Cardinality(targets)
  /\ overlapped' = (\/ overlapped
                    \/ \E c \in Commands : {c.row} # targets \/ "bulk" \in {c.from, from}
                    \/ frees = "row" /\ \E q \in Loads : q.frees = "row")

(* A button of a row in the list.                                           *)
Click(r, to) ==
  /\ RowsVisible /\ ~Behind
  /\ r \in DOMAIN shown /\ to \in page.offers[shown[r]] /\ ~Disabled(r)
  /\ Send({r}, to, shown, "list", "row")
  /\ busy' = GuardFor(r)
  /\ UNCHANGED <<page, limit, serverVars, tab, phase, shown, asOf, copy, creating, others,
                 told, surprised, touched, overtaken, strayed, outdated, lost>>

(* A sheet, dialog or edit form opens on a copy of the row.                 *)
Open(r) ==
  /\ RowsVisible /\ ~Behind
  /\ r \in DOMAIN shown /\ page.copyOffers[shown[r]] # {}
  /\ copy' = [row |-> r, status |-> shown[r], asOf |-> asOf[r]]
  /\ copy' # copy
  /\ UNCHANGED <<page, limit, serverVars, tab, phase, shown, asOf, busy, creating, netVars, others, history>>

Close ==
  /\ copy # None
  /\ copy' = None
  /\ UNCHANGED <<page, limit, serverVars, tab, phase, shown, asOf, busy, creating, netVars, others, history>>

(* A button of the copy: what it offers depends on the copy.                *)
ClickCopy(to) ==
  /\ copy # None /\ to \in page.copyOffers[copy.status] /\ ~Disabled(copy.row)
  /\ Send({copy.row}, to, [r \in {copy.row} |-> copy.status], "copy", "row")
  /\ busy' = GuardFor(copy.row)
  /\ outdated' = (outdated \/ copy.asOf < told[copy.row])
  /\ UNCHANGED <<page, limit, serverVars, tab, phase, shown, asOf, copy, creating, others,
                 told, surprised, touched, overtaken, strayed, lost>>

(* The create form, disabled by its own isSubmitting or by the page's flag. *)
(* The user wants one row and asks until told that it is there.             *)
Create ==
  /\ page.creates /\ copy = None /\ (page.formStays \/ phase = "ready")
  /\ told[NewRow] = 0 /\ NewRow \notin DOMAIN shown
  /\ IF page.formShares
       THEN ~Disabled(NewRow) /\ busy' = "page" /\ UNCHANGED creating
       ELSE ~creating /\ creating' = TRUE /\ UNCHANGED busy
  /\ Send({NewRow}, page.first, [r \in {NewRow} |-> "absent"], "form", IF page.formShares THEN "row" ELSE "form")
  /\ UNCHANGED <<page, limit, serverVars, tab, phase, shown, asOf, copy, others,
                 told, surprised, touched, overtaken, strayed, outdated, lost>>

(* One request for each selected row, none of them guarded; the buttons are *)
(* there while the page loads.                                              *)
ClickBulk(targets, to) ==
  /\ page.bulk /\ ~Behind /\ targets # {}
  /\ targets \subseteq DOMAIN shown
  /\ \A r \in targets : to \in page.offers[shown[r]]
  /\ Send(targets, to, shown, "bulk", "nothing")
  /\ outdated' = (outdated \/ ~RowsVisible)
  /\ UNCHANGED <<page, limit, serverVars, stateVars, others,
                 told, surprised, touched, overtaken, strayed, lost>>

-----------------------------------------------------------------------------
(* The API *)

Answer(q, a) == flight' = (flight \ {q}) \cup {a}

(* It reads the rows for a load ...                                         *)
ServeLoad(q) ==
  /\ q.kind = "load" /\ q.answer = None
  /\ Answer(q, [q EXCEPT !.answer = "ok", !.rows = Listed(q.tab), !.asOf = version])
  /\ UNCHANGED <<page, limit, serverVars, stateVars, issued, others, history>>

(* ... and a command is carried out or refused, by the status the row has   *)
(* by then.  What was made already is refused, or made once more, as a row  *)
(* of its own that the user did not want.                                   *)
Again(c) == c.seen = "absent" /\ server[c.row] # "absent"

Accepted(c) ==
  IF c.seen = "absent" THEN Again(c) => page.repeats
  ELSE server[c.row] # "absent" /\ c.to \in page.accepts[server[c.row]]

(* The rows that what a form makes may take the place of: a run of the      *)
(* matcher deletes what an earlier run left, but no row that an admin has   *)
(* written since.                                                           *)
Clearable(c) ==
  IF page.clears /\ c.from = "form"
    THEN {r \in Rows \ {c.row} : server[r] # "absent" /\ version[r] = 0} ELSE {}

Write(c, gone) ==
  /\ server' = [r \in Rows |-> IF r = c.row THEN c.to ELSE IF r \in gone THEN "absent" ELSE server[r]]
  /\ version' = [r \in Rows |-> IF r \in gone \cup {c.row} THEN version[r] + 1 ELSE version[r]]
  /\ touched' = touched \cup gone

Execute(c) ==
  /\ c.kind = "command" /\ c.answer = None
  /\ surprised' = IF server[c.row] # c.seen THEN surprised \cup {c.row} ELSE surprised
  /\ overtaken' = (overtaken \/ \E q \in flight : /\ q.id > c.id /\ q.answer # None
                                                 /\ (q.kind = "load" \/ q.row = c.row))
  /\ \/ /\ Accepted(c)
        /\ IF Again(c) THEN UNCHANGED <<serverVars, touched>>
           ELSE \E gone \in SUBSET Clearable(c) : Write(c, gone)
        /\ \/ /\ Answer(c, [c EXCEPT !.answer = "ok", !.version = version'[c.row]])
              /\ UNCHANGED lost
           \/ /\ Answer(c, [c EXCEPT !.answer = "failed"])
              /\ lost' = TRUE
     \/ /\ ~Accepted(c)
        /\ Answer(c, [c EXCEPT !.answer = "refused"])
        /\ UNCHANGED <<serverVars, touched, lost>>
  /\ UNCHANGED <<page, limit, stateVars, issued, others, told, strayed, overlapped, outdated>>

(* A request that does not get there, or an error 500 that changed nothing. *)
Fail(q) ==
  /\ q.answer = None
  /\ Answer(q, [q EXCEPT !.answer = "failed"])
  /\ UNCHANGED <<page, limit, serverVars, stateVars, issued, others, history>>

(* Another user changes a row.                                              *)
Other(r) ==
  /\ others < MaxOthers
  /\ server[r] # "absent"
  /\ \E to \in page.accepts[server[r]] : server' = [server EXCEPT ![r] = to]
  /\ version' = [version EXCEPT ![r] = @ + 1]
  /\ others' = others + 1
  /\ touched' = touched \cup {r}
  /\ UNCHANGED <<page, limit, stateVars, netVars, told, surprised, overtaken, strayed, overlapped, outdated, lost>>

-----------------------------------------------------------------------------
(* The answers *)

Overtakes(q) == overtaken \/ \E p \in flight : p.id < q.id

(* The `finally` of the handler that was waiting.  (Broken: no finally.)    *)
FreeNothing(frees) == UNCHANGED <<busy, creating>>
Free(frees) ==
  /\ busy' = IF frees = "row" THEN None ELSE busy
  /\ creating' = (creating /\ frees # "form")

(* The rows of whichever load answered are shown.                           *)
DeliverLoad(q) ==
  /\ q.kind = "load" /\ q.answer # None
  /\ flight' = flight \ {q}
  /\ overtaken' = Overtakes(q)
  /\ IF q.answer = "ok"
       THEN phase' = "ready" /\ shown' = q.rows /\ asOf' = q.asOf
       ELSE phase' = "error" /\ UNCHANGED <<shown, asOf>>
  /\ Free(q.frees)
  /\ UNCHANGED <<page, limit, serverVars, tab, copy, issued, others,
                 told, surprised, touched, strayed, overlapped, outdated, lost>>

(* The filter that the load after a command asks for: the one its handler   *)
(* closed over.  (Broken: all rows, whatever the filter.)                   *)
ReloadsAll(c) == page.firstTab
ReloadsTab(c) == c.tab

(* The others of a Promise.all; once one has failed nobody waits for them.  *)
Mates(c) == {d \in Commands \ {c} : d.group = c.group}
Abandon(c) == (flight \ (Mates(c) \cup {c})) \cup {[d EXCEPT !.waited = FALSE] : d \in Mates(c)}

(* The handler goes on when all its commands were answered.  (Broken: it    *)
(* forgets to load again.)                                                  *)
NeverLoadsAgain(c) == FALSE
LoadsAgain(c) == c.waited /\ Mates(c) = {}

(* The open copy follows the answer to a command for its row, or is closed  *)
(* by the handler that sent it: that of the copy itself, or of the form,    *)
(* where the form holds the copy.                                           *)
ClosesCopy(c) == page.copyThen = "closes" /\ (c.from = "copy" \/ (c.from = "form" /\ page.formShares))

CopyAfter(c) ==
  IF ClosesCopy(c) THEN None
  ELSE IF page.copyThen = "follows" /\ copy # None /\ copy.row = c.row THEN [copy EXCEPT !.status = c.to, !.asOf = c.version] ELSE copy

(* A command was carried out.  The page loads again before the guard comes  *)
(* down, or the answer replaces the row, or the user is taken elsewhere.    *)
Succeed(c) ==
  /\ c.kind = "command" /\ c.answer = "ok"
  /\ overtaken' = Overtakes(c)
  /\ told' = IF c.waited /\ Mates(c) = {} /\ told[c.row] < c.version
               THEN [told EXCEPT ![c.row] = c.version] ELSE told
  /\ copy' = CopyAfter(c)
  /\ IF page.then = "leave"
       THEN /\ phase' = "left" /\ flight' = flight \ {c}
            /\ Free(c.frees)
            /\ UNCHANGED <<shown, asOf, issued>>
     ELSE IF page.then = "replace" /\ c.from # "form"
       THEN /\ shown' = [r \in DOMAIN shown |-> IF r = c.row THEN c.to ELSE shown[r]]
            /\ asOf' = [asOf EXCEPT ![c.row] = c.version]
            /\ flight' = flight \ {c}
            /\ Free(c.frees)
            /\ UNCHANGED <<phase, issued>>
       ELSE /\ IF LoadsAgain(c)
                 THEN StartLoad(ReloadsTab(c), c.frees, flight \ {c})
                 ELSE flight' = flight \ {c} /\ UNCHANGED <<phase, issued>>
            /\ UNCHANGED <<shown, asOf, busy, creating>>
  /\ UNCHANGED <<page, limit, serverVars, tab, others, surprised, touched, strayed, overlapped, outdated, lost>>

(* It was refused or did not get through: the error is shown, if at all,    *)
(* and the rows stay as they were.  One page loads again after any error    *)
(* that the API answered with, an error 500 among them, but not when no     *)
(* answer came; "failed" is either of the two.                              *)
GiveUp(c) ==
  /\ c.kind = "command" /\ c.answer \in {"refused", "failed"}
  /\ overtaken' = Overtakes(c)
  /\ \/ /\ page.reloadsOnError
        /\ StartLoad(ReloadsTab(c), c.frees, Abandon(c))
        /\ UNCHANGED <<busy, creating>>
     \/ /\ page.reloadsOnError => c.answer = "failed"
        /\ flight' = Abandon(c) /\ Free(c.frees)
        /\ UNCHANGED <<phase, issued>>
  /\ lost' = (lost \/ c.from = "bulk")
  /\ UNCHANGED <<page, limit, serverVars, tab, shown, asOf, copy, others,
                 told, surprised, touched, strayed, overlapped, outdated>>

-----------------------------------------------------------------------------
User ==
  \/ \E t \in page.tabs : Select(t)
  \/ Retry \/ Close \/ Create
  \/ \E r \in Rows, to \in page.statuses : Click(r, to)
  \/ \E r \in Rows : Open(r)
  \/ \E to \in page.statuses : ClickCopy(to)
  \/ \E targets \in SUBSET Rows, to \in page.statuses : ClickBulk(targets, to)

Serve   == \E q \in flight : ServeLoad(q) \/ Execute(q) \/ Fail(q)
Deliver == \E q \in flight : DeliverLoad(q) \/ Succeed(q) \/ GiveUp(q)

Next == User \/ Serve \/ Deliver \/ \E r \in Rows : Other(r)

(* fetch settles, one way or the other, and its continuation runs.          *)
Spec == Init /\ [][Next]_vars /\ WF_vars(Serve) /\ WF_vars(Deliver)

-----------------------------------------------------------------------------
(* Properties *)

TypeOK ==
  /\ \E i \in Instances : page = i.page
  /\ server \in [Rows -> page.statuses \cup {"absent"}]
  /\ version \in [Rows -> Nat] /\ asOf \in [Rows -> Nat] /\ told \in [Rows -> Nat]
  /\ tab \in page.tabs /\ phase \in Phases
  /\ DOMAIN shown \subseteq Rows /\ \A r \in DOMAIN shown : shown[r] \in page.statuses
  /\ copy = None \/ (copy.row \in Rows /\ copy.status \in page.statuses)
  /\ busy \in Rows \cup {"page", None} /\ creating \in BOOLEAN
  /\ \A q \in flight : q.id \in 1 .. issued /\ q.answer \in Answers
  /\ \A p, q \in flight : p.id = q.id => p = q
  /\ surprised \subseteq Rows /\ touched \subseteq Rows

Quiet == flight = {} /\ phase = "ready"

(* With nothing on its way and no answer having overtaken an older one, a   *)
(* page shows what its user did: each row is at least as new as the last    *)
(* command that was answered; and the rows are those of the filter that is  *)
(* selected, unless it was changed under a command, whose load is of the    *)
(* filter it was sent from.  (A page that replaces rows filters them.)      *)
ShownIsCurrent ==
  Quiet /\ ~overtaken =>
    /\ \A r \in Rows : told[r] <= asOf[r]
    /\ ~strayed /\ page.then = "reload" => \A r \in DOMAIN shown : shown[r] \in page.lists[tab]

(* One user's clicks never meet each other: on a page whose controls are    *)
(* guarded, a command finds the row as its button showed it - so that no    *)
(* form makes a second order, account or invite - unless another user       *)
(* changed the row or a run deleted it, the handlers of different rows      *)
(* overlapped (the guard remembers one row), answers were lost or           *)
(* overtaken, a copy older than the last answer about its row was sent, or  *)
(* a selection was while its rows were loaded again.                        *)
NoClickTwice ==
  page.guard # "none" /\ ~overlapped /\ ~overtaken /\ ~outdated /\ ~lost =>
    surprised \subseteq touched

(* Every page comes to rest: a load ends in rows or in an error, and every  *)
(* control that a handler disabled is enabled again.                        *)
ComesToRest ==
  /\ (phase = "loading") ~> (phase # "loading")
  /\ (busy # None \/ creating) ~> (busy = None /\ ~creating)
=============================================================================
