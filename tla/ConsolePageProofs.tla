-------------------------- MODULE ConsolePageProofs --------------------------
(***************************************************************************)
(* Any page, any number of rows, requests and changes by other users: a    *)
(* page at rest shows the user's own changes, and the rows of the filter   *)
(* selected, and the clicks of one user do not meet each other.            *)
(***************************************************************************)
EXTENDS ConsolePage, FiniteSetTheorems, TLAPS

-----------------------------------------------------------------------------
(* Types *)

Frees   == {"row", "form", "nothing"}
Sources == {"list", "copy", "form", "bulk"}

IsRows(list, statuses) == DOMAIN list \subseteq Rows /\ \A r \in DOMAIN list : list[r] \in statuses

IsLoad(q) ==
  /\ q.kind = "load"
  /\ q = [kind |-> "load", id |-> q.id, tab |-> q.tab, frees |-> q.frees,
          rows |-> q.rows, asOf |-> q.asOf, answer |-> q.answer]
  /\ q.id \in 1 .. issued /\ q.tab \in page.tabs /\ q.frees \in Frees
  /\ q.answer \in {None, "ok", "failed"}
  /\ q.answer = "ok" => IsRows(q.rows, page.lists[q.tab]) /\ q.asOf \in [Rows -> Nat]

IsCommand(c) ==
  /\ c \in [kind : {"command"}, id : 1 .. issued, row : Rows, to : page.statuses,
            seen : page.statuses \cup {"absent"}, from : Sources, frees : Frees,
            tab : page.tabs, group : 1 .. issued, waited : BOOLEAN, answer : Answers, version : Nat]
  /\ c.from = "form" <=> c.seen = "absent"
  /\ c.from = "form" => page.creates /\ c.row = NewRow
  /\ c.from = "bulk" => page.bulk /\ c.frees = "nothing"
  /\ c.from \in {"list", "copy"} => c.frees = "row"
  /\ c.from = "form" => c.frees = IF page.formShares THEN "row" ELSE "form"

IsCopy(p) == p \in [row : Rows, status : page.statuses, asOf : Nat] /\ ~page.bulk

(* Requests that are told apart by their numbers.                           *)
FlightFits(requests) ==
  /\ \A q \in requests : IsLoad(q) \/ IsCommand(q)
  /\ \A p, q \in requests : p.id = q.id => p = q

TypeInv ==
  /\ (\E i \in Instances : page = i.page) /\ limit \in Nat
  /\ server \in [Rows -> page.statuses \cup {"absent"}]
  /\ version \in [Rows -> Nat] /\ asOf \in [Rows -> Nat] /\ told \in [Rows -> Nat]
  /\ tab \in page.tabs /\ phase \in Phases
  /\ IsRows(shown, page.statuses)
  /\ copy = None \/ IsCopy(copy)
  /\ busy \in Rows \cup {"page", None} /\ creating \in BOOLEAN
  /\ issued \in Nat /\ FlightFits(flight)
  /\ surprised \subseteq Rows /\ touched \subseteq Rows
  /\ overtaken \in BOOLEAN /\ strayed \in BOOLEAN /\ overlapped \in BOOLEAN
  /\ outdated \in BOOLEAN /\ lost \in BOOLEAN

LEMMA PageFacts ==
  ASSUME TypeInv
  PROVE  /\ page.first \in page.statuses /\ "absent" \notin page.statuses
         /\ page.firstTab \in page.tabs /\ page.lists \in [page.tabs -> SUBSET page.statuses]
         /\ page.accepts \in [page.statuses -> SUBSET page.statuses]
         /\ page.offers \in [page.statuses -> SUBSET page.statuses]
         /\ page.copyOffers \in [page.statuses -> SUBSET page.statuses]
         /\ page.guard \in Guards /\ page.then \in {"reload", "replace", "leave"}
         /\ page.rowsStay => page.then = "replace"
         /\ page.bulk => \A s \in page.statuses : page.copyOffers[s] = {}
         /\ page.creates \in BOOLEAN /\ page.bulk \in BOOLEAN
<1>1. PICK i \in Instances : page = i.page
  BY DEF TypeInv
<1>2. IsPage(page)
  BY <1>1, InstancesAssumption
<1>3. page.creates \in BOOLEAN /\ page.bulk \in BOOLEAN
  BY <1>2 DEF IsPage
<1>4. {page.accepts, page.offers, page.copyOffers} \subseteq [page.statuses -> SUBSET page.statuses]
  BY <1>2 DEF IsPage
<1> QED
  BY <1>2, <1>3, <1>4 DEF IsPage

(* Requests keep their types while numbers are given out ...                *)
LEMMA TypesStay ==
  ASSUME page' = page, issued \in Nat, issued' \in Nat, issued <= issued',
         NEW q, IsLoad(q) \/ IsCommand(q)
  PROVE  /\ IsLoad(q)' \/ IsCommand(q)'
         /\ IsLoad(q)' <=> q.kind = "load"
         /\ IsCommand(q)' <=> q.kind = "command"
         /\ q.id \in 1 .. issued
<1>1. CASE IsLoad(q)
  BY <1>1 DEF IsLoad, IsCommand
<1>2. CASE IsCommand(q)
  BY <1>2 DEF IsLoad, IsCommand
<1> QED
  BY <1>1, <1>2

(* ... when new ones are sent ...                                           *)
LEMMA SendingKeepsTypes ==
  ASSUME page' = page, issued \in Nat, issued' \in Nat, issued <= issued',
         NEW rest, FlightFits(rest), NEW new,
         \A q \in new : (IsLoad(q)' \/ IsCommand(q)') /\ issued < q.id,
         \A p, q \in new : p.id = q.id => p = q,
         flight' = rest \cup new
  PROVE  FlightFits(flight)'
<1>1. \A q \in rest : (IsLoad(q)' \/ IsCommand(q)') /\ q.id \in 1 .. issued
  BY TypesStay DEF FlightFits
<1>2. ASSUME NEW p \in flight', NEW q \in flight', p.id = q.id PROVE p = q
  <2>1. CASE p \in rest /\ q \in rest
    BY <1>2, <2>1 DEF FlightFits
  <2>2. CASE p \in new /\ q \in new
    BY <1>2, <2>2
  <2>3. \A r \in new : r.id \notin 1 .. issued
    OBVIOUS
  <2> QED
    BY <1>1, <1>2, <2>1, <2>2, <2>3
<1> QED
  BY <1>1, <1>2 DEF FlightFits

(* ... and when one is answered.                                            *)
LEMMA AnsweringKeepsTypes ==
  ASSUME page' = page, issued' = issued, issued \in Nat, FlightFits(flight),
         NEW q \in flight, NEW a, IsLoad(a) \/ IsCommand(a), a.id = q.id, Answer(q, a)
  PROVE  FlightFits(flight)'
<1>1. \A p \in flight' : IsLoad(p)' \/ IsCommand(p)'
  BY TypesStay DEF Answer, FlightFits
<1>2. \A p, r \in flight' : p.id = r.id => p = r
  BY DEF Answer, FlightFits
<1> QED
  BY <1>1, <1>2 DEF FlightFits

LEMMA LoadRequestType ==
  ASSUME page' = page, issued \in Nat, NEW t \in page.tabs, NEW frees \in Frees, issued' = issued + 1,
         NEW q, q = LoadRequest(issued + 1, t, frees)
  PROVE  IsLoad(q)' /\ q.id = issued + 1
  BY RowsAssumption DEF IsLoad, LoadRequest

LEMMA StartLoadType ==
  ASSUME TypeInv, page' = page, NEW t \in page.tabs, NEW frees \in Frees,
         NEW rest, FlightFits(rest), StartLoad(t, frees, rest)
  PROVE  issued' \in Nat /\ phase' \in Phases /\ FlightFits(flight)'
<1>1. issued \in Nat /\ issued' = issued + 1 /\ phase' \in Phases
  BY DEF TypeInv, StartLoad, Phases
<1> DEFINE new == {LoadRequest(issued + 1, t, frees)}
<1>2. \A q \in new : IsLoad(q)' /\ q.id = issued + 1
  BY <1>1, LoadRequestType
<1>3. flight' = rest \cup new
  BY DEF StartLoad
<1>4. FlightFits(flight)'
  <2>1. \A q \in new : (IsLoad(q)' \/ IsCommand(q)') /\ issued < q.id
    BY <1>1, <1>2
  <2>2. \A p, q \in new : p.id = q.id => p = q
    OBVIOUS
  <2>3. issued <= issued'
    BY <1>1
  <2> HIDE DEF new
  <2> QED
    BY <1>1, <1>3, <2>1, <2>2, <2>3, SendingKeepsTypes
<1> QED
  BY <1>1, <1>4

(* What a control sends is numbered, guarded and typed.                     *)
LEMMA SendType ==
  ASSUME TypeInv, page' = page, tab' = tab, NEW targets \in SUBSET Rows, targets # {},
         NEW to \in page.statuses,
         NEW seen, \A r \in targets : seen[r] \in page.statuses \cup {"absent"},
         NEW from \in Sources, NEW frees \in Frees, Send(targets, to, seen, from, frees),
         \A r \in targets : from = "form" <=> seen[r] = "absent",
         from = "form" => /\ page.creates /\ targets = {NewRow}
                          /\ frees = IF page.formShares THEN "row" ELSE "form",
         from = "bulk" => page.bulk /\ frees = "nothing",
         from \in {"list", "copy"} => frees = "row"
  PROVE  issued' \in Nat /\ FlightFits(flight)' /\ overlapped' \in BOOLEAN
<1> DEFINE n == Cardinality(targets)
<1>1. n \in Nat /\ n > 0
  BY FS_Subset, FS_CardinalityType, FS_EmptySet, RowsAssumption
<1>2. issued \in Nat /\ issued' = issued + n
  BY DEF TypeInv, Send
<1>3. PICK number \in [targets -> issued + 1 .. issued + n] :
        /\ \A r, s \in targets : number[r] = number[s] => r = s
        /\ flight' = flight \cup {Command(number[r], r, to, seen[r], from, frees, issued + 1) : r \in targets}
  BY DEF Send
<1> DEFINE C(r) == Command(number[r], r, to, seen[r], from, frees, issued + 1)
<1> DEFINE new == {C(r) : r \in targets}
<1>4. ASSUME NEW r \in targets, NEW q, q = C(r)
      PROVE  IsCommand(q)' /\ q.id = number[r] /\ issued < q.id
  <2>1. number[r] \in 1 .. issued' /\ issued < number[r] /\ issued + 1 \in 1 .. issued'
    BY <1>1, <1>2, <1>3
  <2>2. tab \in page.tabs /\ None \in Answers
    BY DEF TypeInv, Answers
  <2>3. q = [kind |-> "command", id |-> number[r], row |-> r, to |-> to, seen |-> seen[r], from |-> from,
             frees |-> frees, tab |-> tab, group |-> issued + 1, waited |-> TRUE, answer |-> None, version |-> 0]
    BY <1>4 DEF Command
  <2>4. seen[r] \in page.statuses \cup {"absent"} /\ (from = "form" <=> seen[r] = "absent")
    OBVIOUS
  <2>5. q \in [kind : {"command"}, id : 1 .. issued', row : Rows, to : page.statuses,
               seen : page.statuses \cup {"absent"}, from : Sources, frees : Frees,
               tab : page.tabs, group : 1 .. issued', waited : BOOLEAN, answer : Answers, version : Nat]
    BY <2>1, <2>2, <2>3, <2>4
  <2> QED
    BY <2>1, <2>3, <2>4, <2>5 DEF IsCommand
<1>5. \A q \in new : \E r \in targets : q = C(r)
  OBVIOUS
<1>6. \A q \in new : IsCommand(q)' /\ issued < q.id
  BY <1>4, <1>5
<1>7. \A p, q \in new : p.id = q.id => p = q
  BY <1>3, <1>4, <1>5
<1>8. FlightFits(flight)
  BY DEF TypeInv
<1>9. flight' = flight \cup new
  BY <1>3
<1>10. FlightFits(flight)'
  <2>1. \A q \in new : (IsLoad(q)' \/ IsCommand(q)') /\ issued < q.id
    BY <1>6
  <2>2. issued <= issued' /\ issued' \in Nat
    BY <1>1, <1>2
  <2> HIDE DEF new
  <2> QED
    BY <1>2, <1>7, <1>8, <1>9, <2>1, <2>2, SendingKeepsTypes
<1> QED
  BY <1>1, <1>2, <1>10 DEF TypeInv, Send

(* The requests left when some are removed, or their handler gives up.      *)
LEMMA RemovingKeepsTypes ==
  ASSUME TypeInv, page' = page, issued' = issued, flight' \subseteq flight
  PROVE  FlightFits(flight)'
  BY TypesStay DEF FlightFits, TypeInv

LEMMA AbandonFits ==
  ASSUME TypeInv, NEW c \in flight
  PROVE  FlightFits(Abandon(c))
<1> DEFINE Left(d) == IF d \in Mates(c) THEN [d EXCEPT !.waited = FALSE] ELSE d
<1>1. ASSUME NEW d \in flight PROVE Left(d).id = d.id /\ (IsLoad(Left(d)) \/ IsCommand(Left(d)))
  <2>1. CASE d \in Mates(c)
    <3>1. IsCommand(d)
      BY <2>1 DEF Mates, Commands, TypeInv, FlightFits, IsLoad
    <3>2. IsCommand([d EXCEPT !.waited = FALSE]) /\ [d EXCEPT !.waited = FALSE].id = d.id
      BY <3>1 DEF IsCommand
    <3> QED
      BY <2>1, <3>2
  <2>2. CASE d \notin Mates(c)
    BY <2>2 DEF TypeInv, FlightFits
  <2> QED
    BY <2>1, <2>2
<1>2. \A q \in Abandon(c) : \E d \in flight : q = Left(d)
  BY DEF Abandon, Mates, Commands
<1>3. ASSUME NEW p \in Abandon(c), NEW q \in Abandon(c), p.id = q.id PROVE p = q
  <2>1. PICK d \in flight, e \in flight : p = Left(d) /\ q = Left(e)
    BY <1>2
  <2>2. d.id = e.id
    BY <1>1, <1>3, <2>1
  <2> QED
    BY <2>1, <2>2 DEF TypeInv, FlightFits
<1>4. \A q \in Abandon(c) : IsLoad(q) \/ IsCommand(q)
  BY <1>1, <1>2
<1> QED
  BY <1>3, <1>4 DEF FlightFits

LEMMA InitTypes == Init => TypeInv
<1> SUFFICES ASSUME Init PROVE TypeInv
  OBVIOUS
<1>1. PICK i \in Instances :
        /\ page = i.page /\ limit = i.requests
        /\ server = [r \in Rows |-> IF r \in i.rows THEN page.first ELSE "absent"]
  BY DEF Init
<1>2. IsPage(page) /\ limit \in Nat
  BY <1>1, InstancesAssumption
<1>3. page.first \in page.statuses /\ page.firstTab \in page.tabs
  BY <1>2 DEF IsPage
<1>4. issued \in Nat /\ phase \in Phases
  BY DEF Init, Phases
<1>5. FlightFits(flight)
  <2>1. CASE page.loads
    <3>1. issued = 1 /\ flight = {LoadRequest(1, page.firstTab, "nothing")}
      BY <2>1 DEF Init
    <3>2. IsLoad(LoadRequest(1, page.firstTab, "nothing"))
      BY <1>3, <3>1, RowsAssumption DEF IsLoad, LoadRequest, Frees
    <3> QED
      BY <3>1, <3>2 DEF FlightFits
  <2>2. CASE ~page.loads
    BY <2>2 DEF Init, FlightFits
  <2> QED
    BY <2>1, <2>2
<1>6. IsRows(shown, page.statuses)
  BY DEF Init, IsRows
<1> QED
  BY <1>1, <1>2, <1>3, <1>4, <1>5, <1>6 DEF Init, TypeInv

(* What a command does to the rows: nothing, or it writes its own and takes *)
(* away rows that nobody wrote before, which are on record.                 *)
Deletes(r) == server'[r] = "absent" /\ r \in touched' /\ version[r] = 0 /\ version'[r] = 1

LEMMA WriteFacts ==
  ASSUME TypeInv, NEW c \in flight, Execute(c)
  PROVE  /\ IsCommand(c)
         /\ server' \in [Rows -> page.statuses \cup {"absent"}] /\ version' \in [Rows -> Nat]
         /\ touched \subseteq touched' /\ touched' \subseteq Rows
         /\ \A r \in Rows : version[r] <= version'[r]
         /\ \A r \in Rows \ {c.row} :
              (server'[r] = server[r] /\ version'[r] = version[r]) \/ (page.clears /\ c.from = "form" /\ Deletes(r))
         /\ IF Accepted(c) /\ ~Again(c)
              THEN server'[c.row] = c.to /\ version'[c.row] = version[c.row] + 1
              ELSE UNCHANGED <<server, version, touched>>
<1>1. IsCommand(c) /\ c.row \in Rows /\ c.to \in page.statuses
  BY DEF Execute, TypeInv, FlightFits, IsLoad, IsCommand
<1>2. CASE Accepted(c) /\ ~Again(c)
  <2>1. PICK gone \in SUBSET Clearable(c) : Write(c, gone)
    BY <1>2 DEF Execute
  <2>2. /\ gone \subseteq Rows \ {c.row} /\ \A r \in gone : version[r] = 0
        /\ gone # {} => page.clears /\ c.from = "form"
    BY DEF Clearable
  <2>3. /\ server' = [r \in Rows |-> IF r = c.row THEN c.to ELSE IF r \in gone THEN "absent" ELSE server[r]]
        /\ version' = [r \in Rows |-> IF r \in gone \cup {c.row} THEN version[r] + 1 ELSE version[r]]
        /\ touched' = touched \cup gone
    BY <2>1 DEF Write
  <2>4. server' \in [Rows -> page.statuses \cup {"absent"}] /\ version' \in [Rows -> Nat]
    BY <1>1, <2>3 DEF TypeInv
  <2>5. server'[c.row] = c.to /\ version'[c.row] = version[c.row] + 1 /\ touched \subseteq touched' /\ touched' \subseteq Rows
    BY <1>1, <2>2, <2>3 DEF TypeInv
  <2>6. \A r \in Rows : version[r] <= version'[r]
    BY <2>3 DEF TypeInv
  <2>7. \A r \in Rows \ {c.row} :
          (server'[r] = server[r] /\ version'[r] = version[r]) \/ (page.clears /\ c.from = "form" /\ Deletes(r))
    BY <2>2, <2>3 DEF TypeInv, Deletes
  <2> QED
    BY <1>1, <1>2, <2>4, <2>5, <2>6, <2>7
<1>3. CASE ~(Accepted(c) /\ ~Again(c))
  <2>1. UNCHANGED <<server, version, touched>>
    BY <1>3 DEF Execute, serverVars
  <2> QED
    BY <1>1, <1>3, <2>1 DEF TypeInv
<1> QED
  BY <1>2, <1>3

LEMMA ServingTypes ==
  ASSUME TypeInv, NEW q \in flight, ServeLoad(q) \/ Execute(q) \/ Fail(q)
  PROVE  TypeInv'
<1> USE DEF TypeInv, serverVars, stateVars, netVars, history
<1>1. CASE ServeLoad(q)
  <2> DEFINE a == [q EXCEPT !.answer = "ok", !.rows = Listed(q.tab), !.asOf = version]
  <2>1. IsLoad(q)
    BY <1>1 DEF ServeLoad, FlightFits, IsCommand
  <2>2. IsRows(Listed(q.tab), page.lists[q.tab])
    BY <2>1 DEF Listed, IsRows
  <2>3. a = [kind |-> "load", id |-> q.id, tab |-> q.tab, frees |-> q.frees,
             rows |-> Listed(q.tab), asOf |-> version, answer |-> "ok"]
    <3>1. q \in [kind : {"load"}, id : {q.id}, tab : {q.tab}, frees : {q.frees},
                 rows : {q.rows}, asOf : {q.asOf}, answer : {q.answer}]
      BY <2>1 DEF IsLoad
    <3>2. a \in [kind : {"load"}, id : {q.id}, tab : {q.tab}, frees : {q.frees},
                 rows : {Listed(q.tab)}, asOf : {version}, answer : {"ok"}]
      BY <3>1
    <3> HIDE DEF a
    <3> QED
      BY <3>2
  <2>4. IsLoad(a) /\ a.id = q.id
    BY <2>1, <2>2, <2>3 DEF IsLoad
  <2>5. FlightFits(flight)'
    BY <1>1, <2>4, AnsweringKeepsTypes DEF ServeLoad
  <2> QED
    BY <1>1, <2>5 DEF ServeLoad, IsRows, IsCopy
<1>2. CASE Execute(q)
  <2>1. IsCommand(q)
    BY <1>2 DEF Execute, FlightFits, IsLoad
  <2>2. /\ server' \in [Rows -> page.statuses \cup {"absent"}] /\ version' \in [Rows -> Nat]
        /\ touched' \subseteq Rows
    BY <1>2, WriteFacts
  <2>3. ASSUME NEW a, Answer(q, a),
               \/ a = [q EXCEPT !.answer = "ok", !.version = version'[q.row]]
               \/ a = [q EXCEPT !.answer = "failed"]
               \/ a = [q EXCEPT !.answer = "refused"]
        PROVE  FlightFits(flight)'
    <3>1. version'[q.row] \in Nat
      BY <2>1, <2>2 DEF IsCommand
    <3>2. IsCommand(a) /\ a.id = q.id
      <4>1. ASSUME a = [q EXCEPT !.answer = "ok", !.version = version'[q.row]] PROVE IsCommand(a) /\ a.id = q.id
        BY <2>1, <3>1, <4>1 DEF IsCommand, Answers
      <4>2. ASSUME a = [q EXCEPT !.answer = "failed"] PROVE IsCommand(a) /\ a.id = q.id
        BY <2>1, <4>2 DEF IsCommand, Answers
      <4>3. ASSUME a = [q EXCEPT !.answer = "refused"] PROVE IsCommand(a) /\ a.id = q.id
        BY <2>1, <4>3 DEF IsCommand, Answers
      <4> QED
        BY <2>3, <4>1, <4>2, <4>3
    <3> QED
      BY <1>2, <2>3, <3>2, AnsweringKeepsTypes DEF Execute
  <2>4. FlightFits(flight)'
    BY <1>2, <2>3 DEF Execute
  <2> QED
    BY <1>2, <2>1, <2>2, <2>4 DEF Execute, IsRows, IsCopy, IsCommand
<1>3. CASE Fail(q)
  <2> DEFINE a == [q EXCEPT !.answer = "failed"]
  <2>1. IsLoad(q) => IsLoad(a) /\ a.id = q.id
    BY RowsAssumption DEF IsLoad
  <2>2. IsCommand(q) => IsCommand(a) /\ a.id = q.id
    BY DEF IsCommand, Answers
  <2>3. FlightFits(flight)'
    BY <1>3, <2>1, <2>2, AnsweringKeepsTypes DEF Fail, FlightFits
  <2> QED
    BY <1>3, <2>3 DEF Fail, IsRows, IsCopy
<1> QED
  BY <1>1, <1>2, <1>3

LEMMA DeliveringTypes ==
  ASSUME TypeInv, NEW q \in flight, DeliverLoad(q) \/ Succeed(q) \/ GiveUp(q)
  PROVE  TypeInv'
<1> USE DEF TypeInv, serverVars, stateVars, netVars, history
<1>1. Free(q.frees) => busy' \in Rows \cup {"page", None} /\ creating' \in BOOLEAN
  BY DEF Free
<1>2. CASE DeliverLoad(q)
  <2>1. IsLoad(q)
    BY <1>2 DEF DeliverLoad, FlightFits, IsCommand
  <2>2. phase' \in Phases /\ IsRows(shown, page.statuses)' /\ asOf' \in [Rows -> Nat]
    <3>1. \A r : r \in page.lists[q.tab] => r \in page.statuses
      BY <2>1, PageFacts DEF IsLoad
    <3> QED
      BY <1>2, <2>1, <3>1 DEF DeliverLoad, IsLoad, IsRows, Phases
  <2>3. FlightFits(flight)'
    BY <1>2, RemovingKeepsTypes DEF DeliverLoad
  <2> QED
    BY <1>1, <1>2, <2>2, <2>3 DEF DeliverLoad, Overtakes, IsCopy
<1>3. ASSUME Succeed(q) \/ GiveUp(q) PROVE IsCommand(q)
  BY <1>3 DEF Succeed, GiveUp, FlightFits, IsLoad
<1>4. CASE Succeed(q)
  <2>1. IsCommand(q)
    BY <1>3, <1>4
  <2>2. told' \in [Rows -> Nat] /\ overtaken' \in BOOLEAN
    BY <1>4, <2>1 DEF Succeed, IsCommand, Overtakes
  <2>3. (copy = None \/ IsCopy(copy))'
    BY <1>4, <2>1 DEF Succeed, CopyAfter, IsCopy, IsCommand
  <2>4. IsRows(shown, page.statuses)' /\ asOf' \in [Rows -> Nat]
    BY <1>4, <2>1 DEF Succeed, IsRows, IsCommand, StartLoad
  <2>5. busy' \in Rows \cup {"page", None} /\ creating' \in BOOLEAN
    BY <1>1, <1>4 DEF Succeed
  <2>6. issued' \in Nat /\ phase' \in Phases /\ FlightFits(flight)'
    <3>1. CASE StartLoad(ReloadsTab(q), q.frees, flight \ {q})
      <4>1. FlightFits(flight \ {q})
        BY DEF FlightFits
      <4>2. ReloadsTab(q) \in page.tabs /\ q.frees \in Frees /\ page' = page
        BY <1>4, <2>1 DEF ReloadsTab, IsCommand, Succeed
      <4> HIDE DEF TypeInv
      <4> QED
        BY <3>1, <4>1, <4>2, StartLoadType
    <3>2. CASE flight' = flight \ {q} /\ issued' = issued /\ phase' \in Phases
      BY <1>4, <3>2, RemovingKeepsTypes DEF Succeed
    <3> QED
      BY <1>4, <3>1, <3>2 DEF Succeed, Phases
  <2> QED
    BY <1>4, <2>2, <2>3, <2>4, <2>5, <2>6 DEF Succeed
<1>5. CASE GiveUp(q)
  <2>1. IsCommand(q) /\ page' = page
    BY <1>3, <1>5 DEF GiveUp
  <2>2. FlightFits(Abandon(q))
    BY AbandonFits
  <2>3. issued' \in Nat /\ phase' \in Phases /\ FlightFits(flight)'
    <3>1. CASE StartLoad(ReloadsTab(q), q.frees, Abandon(q))
      <4>1. ReloadsTab(q) \in page.tabs /\ q.frees \in Frees
        BY <2>1 DEF ReloadsTab, IsCommand
      <4> HIDE DEF TypeInv
      <4> QED
        BY <2>1, <2>2, <3>1, <4>1, StartLoadType
    <3>2. CASE flight' = Abandon(q) /\ issued' = issued /\ phase' = phase
      <4>1. \A d \in Abandon(q) : IsLoad(d)' \/ IsCommand(d)'
        BY <2>1, <2>2, <3>2, TypesStay DEF FlightFits
      <4> QED
        BY <2>2, <3>2, <4>1 DEF FlightFits
    <3> QED
      BY <1>5, <3>1, <3>2 DEF GiveUp
  <2>4. busy' \in Rows \cup {"page", None} /\ creating' \in BOOLEAN
    BY <1>1, <1>5 DEF GiveUp
  <2> QED
    BY <1>5, <2>3, <2>4 DEF GiveUp, IsRows, IsCopy, Overtakes
<1> QED
  BY <1>2, <1>4, <1>5

LEMMA TypeStep ==
  ASSUME TypeInv, [Next]_vars
  PROVE  TypeInv'
<1> USE DEF TypeInv, serverVars, stateVars, netVars, history
<1>1. ASSUME NEW t \in page.tabs, Select(t) PROVE TypeInv'
  <2>1. issued' \in Nat /\ phase' \in Phases /\ FlightFits(flight)'
    <3>1. "nothing" \in Frees /\ FlightFits(flight) /\ page' = page /\ StartLoad(t, "nothing", flight)
      BY <1>1 DEF Select, Frees
    <3> HIDE DEF TypeInv
    <3> QED
      BY <3>1, StartLoadType
  <2> QED
    BY <1>1, <2>1 DEF Select, IsRows, IsCopy
<1>2. CASE Retry
  <2>1. issued' \in Nat /\ phase' \in Phases /\ FlightFits(flight)'
    <3>1. /\ "nothing" \in Frees /\ FlightFits(flight) /\ page' = page /\ tab \in page.tabs
          /\ StartLoad(tab, "nothing", flight)
      BY <1>2 DEF Retry, Frees
    <3> HIDE DEF TypeInv
    <3> QED
      BY <3>1, StartLoadType
  <2> QED
    BY <1>2, <2>1 DEF Retry, IsRows, IsCopy
<1>3. CASE Close
  BY <1>3, RemovingKeepsTypes DEF Close
<1>4. ASSUME NEW r \in Rows, NEW to \in page.statuses, Click(r, to) PROVE TypeInv'
  <2>1. shown[r] \in page.statuses /\ "absent" \notin page.statuses
    BY <1>4, PageFacts DEF Click, IsRows
  <2>2. issued' \in Nat /\ FlightFits(flight)' /\ overlapped' \in BOOLEAN
    <3> DEFINE targets == {r}
    <3>1. Send(targets, to, shown, "list", "row") /\ page' = page /\ tab' = tab
      BY <1>4 DEF Click
    <3>2. targets \in SUBSET Rows /\ targets # {} /\ "list" \in Sources /\ "row" \in Frees
      BY DEF Sources, Frees
    <3>3. \A s \in targets : shown[s] \in page.statuses \cup {"absent"} /\ ("list" = "form" <=> shown[s] = "absent")
      BY <2>1
    <3> HIDE DEF targets, TypeInv
    <3> QED
      BY <3>1, <3>2, <3>3, SendType
  <2>3. busy' \in Rows \cup {"page", None}
    BY <1>4 DEF Click, GuardFor
  <2> QED
    BY <1>4, <2>2, <2>3 DEF Click, IsRows, IsCopy
<1>5. ASSUME NEW r \in Rows, Open(r) PROVE TypeInv'
  <2>1. IsCopy(copy)'
    BY <1>5, PageFacts DEF Open, IsCopy, IsRows
  <2> QED
    BY <1>5, <2>1, RemovingKeepsTypes DEF Open
<1>6. ASSUME NEW to \in page.statuses, ClickCopy(to) PROVE TypeInv'
  <2>1. IsCopy(copy) /\ "absent" \notin page.statuses
    BY <1>6, PageFacts DEF ClickCopy
  <2>2. issued' \in Nat /\ FlightFits(flight)' /\ overlapped' \in BOOLEAN
    <3> DEFINE targets == {copy.row}
               seen == [r \in {copy.row} |-> copy.status]
    <3>1. Send(targets, to, seen, "copy", "row") /\ page' = page /\ tab' = tab
      BY <1>6 DEF ClickCopy
    <3>2. targets \in SUBSET Rows /\ targets # {} /\ "copy" \in Sources /\ "row" \in Frees
      BY <2>1 DEF Sources, Frees, IsCopy
    <3>3. \A s \in targets : seen[s] \in page.statuses \cup {"absent"} /\ ("copy" = "form" <=> seen[s] = "absent")
      BY <2>1 DEF IsCopy
    <3> HIDE DEF targets, seen, TypeInv
    <3> QED
      BY <3>1, <3>2, <3>3, SendType
  <2>3. busy' \in Rows \cup {"page", None} /\ outdated' \in BOOLEAN
    BY <1>6, <2>1 DEF ClickCopy, GuardFor, IsCopy
  <2> QED
    BY <1>6, <2>2, <2>3 DEF ClickCopy, IsRows, IsCopy
<1>7. CASE Create
  <2>1. issued' \in Nat /\ FlightFits(flight)' /\ overlapped' \in BOOLEAN
    <3> DEFINE targets == {NewRow}
               seen == [r \in {NewRow} |-> "absent"]
               frees == IF page.formShares THEN "row" ELSE "form"
    <3>1. Send(targets, page.first, seen, "form", frees) /\ page' = page /\ tab' = tab /\ page.creates
      BY <1>7 DEF Create
    <3>2. targets \in SUBSET Rows /\ targets # {} /\ "form" \in Sources /\ frees \in Frees
      BY NewRowAssumption DEF Sources, Frees
    <3>3. \A s \in targets : seen[s] \in page.statuses \cup {"absent"} /\ ("form" = "form" <=> seen[s] = "absent")
      OBVIOUS
    <3>4. /\ page.first \in page.statuses /\ targets = {NewRow}
          /\ frees = IF page.formShares THEN "row" ELSE "form"
      BY PageFacts
    <3> HIDE DEF targets, seen, frees, TypeInv
    <3> QED
      BY <3>1, <3>2, <3>3, <3>4, SendType
  <2>2. busy' \in Rows \cup {"page", None} /\ creating' \in BOOLEAN
    BY <1>7 DEF Create
  <2> QED
    BY <1>7, <2>1, <2>2 DEF Create, IsRows, IsCopy
<1>8. ASSUME NEW targets \in SUBSET Rows, NEW to \in page.statuses, ClickBulk(targets, to) PROVE TypeInv'
  <2>1. issued' \in Nat /\ FlightFits(flight)' /\ overlapped' \in BOOLEAN
    <3>1. Send(targets, to, shown, "bulk", "nothing") /\ page' = page /\ tab' = tab /\ page.bulk
      BY <1>8 DEF ClickBulk
    <3>2. targets # {} /\ "bulk" \in Sources /\ "nothing" \in Frees
      BY <1>8 DEF ClickBulk, Sources, Frees
    <3>3. \A s \in targets : shown[s] \in page.statuses \cup {"absent"} /\ ("bulk" = "form" <=> shown[s] = "absent")
      BY <1>8, PageFacts DEF ClickBulk, IsRows
    <3> HIDE DEF TypeInv
    <3> QED
      BY <3>1, <3>2, <3>3, SendType
  <2>2. outdated' \in BOOLEAN
    BY <1>8 DEF ClickBulk
  <2> QED
    BY <1>8, <2>1, <2>2 DEF ClickBulk, IsRows, IsCopy
<1>9. CASE UNCHANGED vars
  BY <1>9, RemovingKeepsTypes DEF vars, IsRows, IsCopy
<1>10. CASE Serve
  <2>1. ASSUME NEW q \in flight, ServeLoad(q) PROVE TypeInv'
    BY <1>10, <2>1, ServingTypes
  <2>2. ASSUME NEW q \in flight, Execute(q) PROVE TypeInv'
    BY <1>10, <2>2, ServingTypes
  <2>3. ASSUME NEW q \in flight, Fail(q) PROVE TypeInv'
    BY <1>10, <2>3, ServingTypes
  <2> QED
    BY <1>10, <2>1, <2>2, <2>3 DEF Serve
<1>11. CASE Deliver
  <2>1. ASSUME NEW q \in flight, DeliverLoad(q) PROVE TypeInv'
    BY <2>1, DeliveringTypes
  <2>2. ASSUME NEW q \in flight, Succeed(q) PROVE TypeInv'
    BY <2>2, DeliveringTypes
  <2>3. ASSUME NEW q \in flight, GiveUp(q) PROVE TypeInv'
    BY <2>3, DeliveringTypes
  <2> QED
    BY <1>11, <2>1, <2>2, <2>3 DEF Deliver
<1>12. ASSUME NEW r \in Rows, Other(r) PROVE TypeInv'
  <2>1. PICK to \in page.accepts[server[r]] : server' = [server EXCEPT ![r] = to]
    BY <1>12 DEF Other
  <2>2. to \in page.statuses
    BY <1>12, PageFacts DEF Other
  <2> QED
    BY <1>12, <2>1, <2>2, RemovingKeepsTypes DEF Other, IsRows, IsCopy
<1> QED
  BY <1>1, <1>2, <1>3, <1>4, <1>5, <1>6, <1>7, <1>8, <1>9, <1>10, <1>11, <1>12 DEF Next, User

-----------------------------------------------------------------------------
(* Loads and commands, step by step *)

LEMMA Kinds ==
  ASSUME TypeInv
  PROVE  /\ flight = Loads \cup Commands
         /\ \A q \in Loads : IsLoad(q) /\ q \notin Commands
         /\ \A c \in Commands : IsCommand(c) /\ c \notin Loads
  BY DEF TypeInv, FlightFits, IsLoad, IsCommand, Loads, Commands

LEMMA StartLoadFacts ==
  ASSUME NEW t, NEW frees, NEW rest, StartLoad(t, frees, rest)
  PROVE  \E l : /\ l = LoadRequest(issued + 1, t, frees)
                /\ l.kind = "load" /\ l.id = issued + 1 /\ l.tab = t /\ l.frees = frees /\ l.answer = None
                /\ flight' = rest \cup {l} /\ phase' = "loading" /\ issued' = issued + 1
                /\ Loads' = {q \in rest : q.kind = "load"} \cup {l}
                /\ Commands' = {q \in rest : q.kind = "command"}
<1>1. PICK l : l = LoadRequest(issued + 1, t, frees)
  OBVIOUS
<1>2. l.kind = "load" /\ l.id = issued + 1 /\ l.tab = t /\ l.frees = frees /\ l.answer = None
  BY <1>1 DEF LoadRequest
<1>3. flight' = rest \cup {l} /\ phase' = "loading" /\ issued' = issued + 1
  BY <1>1 DEF StartLoad
<1> QED
  BY <1>1, <1>2, <1>3 DEF Loads, Commands

(* What a control sends: one new command for each of its rows.              *)
AreSent(new, targets, to, seen, from, frees) ==
  /\ \A c \in new :
       /\ c.kind = "command" /\ c.answer = None /\ c.tab = tab /\ c.row \in targets /\ c.to = to
       /\ c.seen = seen[c.row] /\ c.from = from /\ c.frees = frees /\ c.group = issued + 1
       /\ c.waited = TRUE /\ issued < c.id
  /\ \A c, d \in new : c.row = d.row => c = d

LEMMA SendFacts ==
  ASSUME TypeInv, NEW targets \in SUBSET Rows, NEW to, NEW seen, NEW from, NEW frees,
         Send(targets, to, seen, from, frees)
  PROVE  \E new : /\ AreSent(new, targets, to, seen, from, frees)
                  /\ flight' = flight \cup new /\ Loads' = Loads /\ Commands' = Commands \cup new
<1> DEFINE n == Cardinality(targets)
<1>1. n \in Nat /\ issued \in Nat
  BY FS_Subset, FS_CardinalityType, RowsAssumption DEF TypeInv
<1>2. PICK number \in [targets -> issued + 1 .. issued + n] :
        flight' = flight \cup {Command(number[r], r, to, seen[r], from, frees, issued + 1) : r \in targets}
  BY DEF Send
<1> DEFINE C(r) == Command(number[r], r, to, seen[r], from, frees, issued + 1)
           new  == {C(r) : r \in targets}
<1>3. ASSUME NEW r \in targets
      PROVE  /\ C(r).kind = "command" /\ C(r).answer = None /\ C(r).tab = tab /\ C(r).row = r /\ C(r).to = to
             /\ C(r).seen = seen[r] /\ C(r).from = from /\ C(r).frees = frees /\ C(r).group = issued + 1
             /\ C(r).waited = TRUE /\ issued < C(r).id
  BY <1>1, <1>2 DEF Command
<1>4. AreSent(new, targets, to, seen, from, frees)
  <2>1. \A c \in new : \E r \in targets : c = C(r)
    OBVIOUS
  <2> HIDE DEF C, new
  <2>2. ASSUME NEW c \in new
        PROVE  /\ c.kind = "command" /\ c.answer = None /\ c.tab = tab /\ c.row \in targets /\ c.to = to
               /\ c.seen = seen[c.row] /\ c.from = from /\ c.frees = frees /\ c.group = issued + 1
               /\ c.waited = TRUE /\ issued < c.id /\ c = C(c.row)
    <3>1. PICK r \in targets : c = C(r)
      BY <2>1
    <3>2. c.row = r
      BY <1>3, <3>1
    <3> QED
      BY <1>3, <3>1, <3>2
  <2> QED
    BY <2>2 DEF AreSent
<1>5. flight' = flight \cup new
  BY <1>2
<1>6. Loads' = Loads /\ Commands' = Commands \cup new
  <2> HIDE DEF new
  <2> QED
    BY <1>4, <1>5 DEF AreSent, Loads, Commands
<1> QED
  BY <1>4, <1>5, <1>6

(* The answer to one request.                                               *)
LEMMA AnswerFacts ==
  ASSUME TypeInv, NEW q \in flight, NEW a, a.kind = q.kind, Answer(q, a)
  PROVE  /\ q \in Loads    => Loads' = (Loads \ {q}) \cup {a} /\ Commands' = Commands
         /\ q \in Commands => Commands' = (Commands \ {q}) \cup {a} /\ Loads' = Loads
  BY Kinds DEF Answer, Loads, Commands

(* The commands left behind when a handler gives up differ in nothing but   *)
(* that nobody waits for them.                                              *)
LEMMA AbandonFacts ==
  ASSUME TypeInv, NEW c \in Commands
  PROVE  /\ {q \in Abandon(c) : q.kind = "load"} = Loads
         /\ \A e \in {q \in Abandon(c) : q.kind = "command"} : \E d \in Commands \ {c} :
              /\ e.id = d.id /\ e.row = d.row /\ e.to = d.to /\ e.seen = d.seen /\ e.from = d.from
              /\ e.frees = d.frees /\ e.tab = d.tab /\ e.group = d.group
              /\ e.answer = d.answer /\ e.version = d.version
         /\ Mates(c) = {} => Abandon(c) = flight \ {c}
<1> DEFINE E(d) == [d EXCEPT !.waited = FALSE]
<1>1. ASSUME NEW d \in Commands
      PROVE  /\ E(d).kind = "command"
             /\ E(d).id = d.id /\ E(d).row = d.row /\ E(d).to = d.to /\ E(d).seen = d.seen /\ E(d).from = d.from
             /\ E(d).frees = d.frees /\ E(d).tab = d.tab /\ E(d).group = d.group
             /\ E(d).answer = d.answer /\ E(d).version = d.version
  BY Kinds DEF IsCommand
<1>2. Mates(c) \subseteq Commands \ {c}
  BY DEF Mates
<1>3. \A q : q \in Abandon(c) <=> \/ q \in flight /\ q \notin Mates(c) /\ q # c
                                  \/ \E d \in Mates(c) : q = E(d)
  BY DEF Abandon
<1> HIDE DEF E
<1>4. {q \in Abandon(c) : q.kind = "load"} = Loads
  BY <1>1, <1>2, <1>3, Kinds DEF Loads, Commands
<1>5. \A e \in {q \in Abandon(c) : q.kind = "command"} :
        \/ e \in Commands \ {c}
        \/ \E d \in Commands \ {c} : e = E(d)
  BY <1>1, <1>2, <1>3 DEF Commands
<1>6. Mates(c) = {} => Abandon(c) = flight \ {c}
  BY DEF Abandon
<1> QED
  BY <1>1, <1>4, <1>5, <1>6

(* What a page does with the good answer to command c: it loads again, waits*)
(* for the others of a selection, or has given them up; replaces the row; or*)
(* leaves.                                                                  *)
LoadedAgain(c) ==
  /\ page.then # "leave" /\ (page.then = "replace" => c.from = "form") /\ LoadsAgain(c)
  /\ phase' = "loading" /\ UNCHANGED <<shown, asOf, busy, creating>>
  /\ \E l : /\ l.kind = "load" /\ l.id = issued + 1 /\ l.tab = c.tab /\ l.frees = c.frees /\ l.answer = None
            /\ flight' = (flight \ {c}) \cup {l} /\ Loads' = Loads \cup {l}

Awaited(c) ==
  /\ page.then # "leave" /\ (page.then = "replace" => c.from = "form") /\ ~LoadsAgain(c)
  /\ UNCHANGED <<phase, shown, asOf, busy, creating, told>>
  /\ flight' = flight \ {c} /\ Loads' = Loads

Replaced(c) ==
  /\ page.then = "replace" /\ c.from # "form"
  /\ shown' = [r \in DOMAIN shown |-> IF r = c.row THEN c.to ELSE shown[r]]
  /\ asOf' = [asOf EXCEPT ![c.row] = c.version]
  /\ flight' = flight \ {c} /\ Loads' = Loads /\ Free(c.frees) /\ UNCHANGED phase

HasLeft(c) ==
  /\ page.then = "leave" /\ phase' = "left" /\ UNCHANGED <<shown, asOf>>
  /\ flight' = flight \ {c} /\ Loads' = Loads /\ Free(c.frees)

LEMMA SucceedFacts ==
  ASSUME TypeInv, NEW c \in flight, Succeed(c)
  PROVE  /\ c \in Commands /\ Commands' = Commands \ {c}
         /\ LoadedAgain(c) \/ Awaited(c) \/ Replaced(c) \/ HasLeft(c)
<1>1. c \in Commands
  BY DEF Succeed, Commands
<1>2. {q \in flight \ {c} : q.kind = "load"} = Loads /\ {q \in flight \ {c} : q.kind = "command"} = Commands \ {c}
  BY <1>1, Kinds DEF Loads, Commands
<1>3. flight' = flight \ {c} => Loads' = Loads /\ Commands' = Commands \ {c}
  BY <1>2 DEF Loads, Commands
<1>4. CASE page.then = "leave"
  BY <1>1, <1>3, <1>4 DEF Succeed, HasLeft
<1>5. CASE page.then = "replace" /\ c.from # "form"
  BY <1>1, <1>3, <1>5 DEF Succeed, Replaced
<1>6. CASE page.then # "leave" /\ ~(page.then = "replace" /\ c.from # "form")
  <2>1. /\ UNCHANGED <<shown, asOf, busy, creating>>
        /\ IF LoadsAgain(c) THEN StartLoad(ReloadsTab(c), c.frees, flight \ {c})
                            ELSE flight' = flight \ {c} /\ UNCHANGED <<phase, issued>>
        /\ ~LoadsAgain(c) => told' = told
    BY <1>6 DEF Succeed, LoadsAgain
  <2>2. CASE LoadsAgain(c)
    <3>1. PICK l : /\ l.kind = "load" /\ l.id = issued + 1 /\ l.tab = c.tab /\ l.frees = c.frees /\ l.answer = None
                   /\ flight' = (flight \ {c}) \cup {l} /\ phase' = "loading"
                   /\ Loads' = {q \in flight \ {c} : q.kind = "load"} \cup {l}
                   /\ Commands' = {q \in flight \ {c} : q.kind = "command"}
      BY <2>1, <2>2, StartLoadFacts DEF ReloadsTab
    <3> QED
      BY <1>1, <1>2, <1>6, <2>1, <2>2, <3>1 DEF LoadedAgain
  <2>3. CASE ~LoadsAgain(c)
    BY <1>1, <1>3, <1>6, <2>1, <2>3 DEF Awaited
  <2> QED
    BY <2>2, <2>3
<1> QED
  BY <1>4, <1>5, <1>6

(* What giving up command c leaves: the other commands, none of which is    *)
(* waited for any more, and the loads, with a new one if the page loads     *)
(* again.                                                                   *)
Alike(e, d) ==
  /\ e.id = d.id /\ e.row = d.row /\ e.to = d.to /\ e.seen = d.seen /\ e.from = d.from
  /\ e.frees = d.frees /\ e.tab = d.tab /\ e.group = d.group /\ e.answer = d.answer /\ e.version = d.version

GivenUp(c, new) ==
  /\ Loads' = Loads \cup new /\ flight' = Loads' \cup Commands'
  /\ \A e \in Commands' : \E d \in Commands \ {c} : Alike(e, d)
  /\ Mates(c) = {} => Commands' = Commands \ {c}
  /\ \/ /\ new = {} /\ UNCHANGED phase /\ Free(c.frees)
     \/ /\ phase' = "loading" /\ UNCHANGED <<busy, creating>>
        /\ \E l : /\ new = {l} /\ l.kind = "load" /\ l.id = issued + 1 /\ l.tab = c.tab
                  /\ l.frees = c.frees /\ l.answer = None

LEMMA GiveUpFacts ==
  ASSUME TypeInv, NEW c \in flight, GiveUp(c)
  PROVE  c \in Commands /\ \E new : GivenUp(c, new)
<1>1. c \in Commands
  BY DEF GiveUp, Commands
<1>2. /\ {q \in Abandon(c) : q.kind = "load"} = Loads
      /\ \A e \in {q \in Abandon(c) : q.kind = "command"} : \E d \in Commands \ {c} : Alike(e, d)
      /\ Mates(c) = {} => Abandon(c) = flight \ {c}
  BY <1>1, AbandonFacts DEF Alike
<1>3. Mates(c) = {} => {q \in Abandon(c) : q.kind = "command"} = Commands \ {c}
  BY <1>2 DEF Commands
<1>4. Abandon(c) = Loads \cup {q \in Abandon(c) : q.kind = "command"}
  <2>1. \A q \in Abandon(c) : q.kind \in {"load", "command"}
    BY AbandonFits DEF FlightFits, IsLoad, IsCommand
  <2> QED
    BY <1>2, <2>1
<1>5. CASE StartLoad(ReloadsTab(c), c.frees, Abandon(c)) /\ UNCHANGED <<busy, creating>>
  <2>1. PICK l : /\ l.kind = "load" /\ l.id = issued + 1 /\ l.tab = c.tab /\ l.frees = c.frees /\ l.answer = None
                 /\ flight' = Abandon(c) \cup {l} /\ phase' = "loading"
                 /\ Loads' = {q \in Abandon(c) : q.kind = "load"} \cup {l}
                 /\ Commands' = {q \in Abandon(c) : q.kind = "command"}
    BY <1>5, StartLoadFacts DEF ReloadsTab
  <2>2. GivenUp(c, {l})
    BY <1>2, <1>3, <1>4, <1>5, <2>1 DEF GivenUp
  <2> QED
    BY <1>1, <2>2
<1>6. CASE flight' = Abandon(c) /\ Free(c.frees) /\ UNCHANGED phase
  <2>1. Loads' = Loads /\ Commands' = {q \in Abandon(c) : q.kind = "command"}
    BY <1>2, <1>6 DEF Loads, Commands
  <2>2. GivenUp(c, {})
    BY <1>2, <1>3, <1>4, <1>6, <2>1 DEF GivenUp
  <2> QED
    BY <1>1, <2>2
<1> QED
  BY <1>5, <1>6 DEF GiveUp

-----------------------------------------------------------------------------
(* A page shows the user's own changes *)

(* What the page was told and has is no newer than the rows.                *)
Ages ==
  /\ \A r \in Rows : told[r] <= version[r] /\ asOf[r] <= version[r]
  /\ copy # None => copy.asOf <= version[copy.row]
  /\ \A q \in Loads : q.answer = "ok" => \A r \in Rows : q.asOf[r] <= version[r]
  /\ \A c \in Commands : c.answer = "ok" => 0 < c.version /\ c.version <= version[c.row]
  /\ page.creates /\ server[NewRow] # "absent" => 0 < version[NewRow]

(* As long as nothing was overtaken, answers are as new as the requests'    *)
(* order says, and newer than what the page was told.                       *)
InOrder ==
  ~overtaken =>
    /\ \A c \in Commands : c.answer = "ok" => told[c.row] <= c.version
    /\ \A c, d \in Commands :
         c.answer = "ok" /\ d.answer = "ok" /\ c.row = d.row /\ c.id < d.id => c.version <= d.version
    /\ \A q \in Loads : q.answer = "ok" =>
         /\ \A r \in Rows : told[r] <= q.asOf[r]
         /\ \A c \in Commands : c.answer = "ok" /\ c.id < q.id => c.version <= q.asOf[c.row]
    /\ phase = "ready" => Loads # {} \/ \A r \in Rows : told[r] <= asOf[r]

-----------------------------------------------------------------------------
(* ... and the rows of its filter: whatever else is on its way, the newest  *)
(* load is for the filter selected.                                         *)
NewestIsOfTab ==
  ~overtaken /\ ~strayed /\ page.then = "reload" =>
    /\ \A c \in Commands : c.tab = tab
    /\ \A q \in Loads : q.tab = tab \/ \E p \in Loads : p.tab = tab /\ q.id < p.id
    /\ phase = "ready" =>
         (\E p \in Loads : p.tab = tab) \/ \A r \in DOMAIN shown : shown[r] \in page.lists[tab]

OrderInv == Ages /\ InOrder /\ NewestIsOfTab

LEMMA InitOrder == Init => OrderInv
<1> SUFFICES ASSUME Init PROVE OrderInv
  OBVIOUS
<1>1. \A q \in flight : q.kind = "load" /\ q.tab = tab /\ q.answer # "ok"
  BY RowsAssumption DEF Init, LoadRequest
<1>2. Commands = {} /\ \A q \in Loads : q.tab = tab /\ q.answer # "ok"
  BY <1>1 DEF Loads, Commands
<1>3. page.creates => server[NewRow] = "absent"
  BY InstancesAssumption, NewRowAssumption DEF Init
<1> QED
  BY <1>2, <1>3 DEF Init, OrderInv, Ages, InOrder, NewestIsOfTab

(* A command is sent: it is unanswered, and loads again with the filter     *)
(* selected.                                                                *)
LEMMA CommandsAreSent ==
  ASSUME TypeInv,
         \/ \E r \in Rows, to \in page.statuses : Click(r, to)
         \/ \E to \in page.statuses : ClickCopy(to)
         \/ Create
         \/ \E targets \in SUBSET Rows, to \in page.statuses : ClickBulk(targets, to)
  PROVE  /\ UNCHANGED <<page, server, version, told, asOf, tab, phase, shown, copy, overtaken, strayed>>
         /\ \E new : /\ Loads' = Loads /\ Commands' = Commands \cup new
                     /\ \A c \in new : c.answer = None /\ c.tab = tab
<1> DEFINE Goal == /\ UNCHANGED <<page, server, version, told, asOf, tab, phase, shown, copy, overtaken, strayed>>
                   /\ \E new : /\ Loads' = Loads /\ Commands' = Commands \cup new
                               /\ \A c \in new : c.answer = None /\ c.tab = tab
<1>1. ASSUME NEW targets \in SUBSET Rows, NEW to, NEW seen, NEW from, NEW frees,
             Send(targets, to, seen, from, frees)
      PROVE  \E new : /\ Loads' = Loads /\ Commands' = Commands \cup new
                      /\ \A c \in new : c.answer = None /\ c.tab = tab
  <2>1. PICK new : /\ AreSent(new, targets, to, seen, from, frees)
                   /\ Loads' = Loads /\ Commands' = Commands \cup new
    BY <1>1, SendFacts
  <2>2. \A c \in new : c.answer = None /\ c.tab = tab
    BY <2>1 DEF AreSent
  <2> QED
    BY <2>1, <2>2
<1>2. ASSUME NEW r \in Rows, NEW to \in page.statuses, Click(r, to) PROVE Goal
  <2>1. {r} \in SUBSET Rows /\ Send({r}, to, shown, "list", "row")
    BY <1>2 DEF Click
  <2>2. UNCHANGED <<page, server, version, told, asOf, tab, phase, shown, copy, overtaken, strayed>>
    BY <1>2 DEF Click, serverVars
  <2> QED
    BY <1>1, <2>1, <2>2
<1>3. ASSUME NEW to \in page.statuses, ClickCopy(to) PROVE Goal
  <2>1. {copy.row} \in SUBSET Rows /\ Send({copy.row}, to, [r \in {copy.row} |-> copy.status], "copy", "row")
    BY <1>3 DEF ClickCopy, TypeInv, IsCopy
  <2>2. UNCHANGED <<page, server, version, told, asOf, tab, phase, shown, copy, overtaken, strayed>>
    BY <1>3 DEF ClickCopy, serverVars
  <2> QED
    BY <1>1, <2>1, <2>2
<1>4. ASSUME Create PROVE Goal
  <2>1. /\ {NewRow} \in SUBSET Rows
        /\ Send({NewRow}, page.first, [r \in {NewRow} |-> "absent"], "form", IF page.formShares THEN "row" ELSE "form")
    BY <1>4, NewRowAssumption DEF Create
  <2>2. UNCHANGED <<page, server, version, told, asOf, tab, phase, shown, copy, overtaken, strayed>>
    BY <1>4 DEF Create, serverVars
  <2> QED
    BY <1>1, <2>1, <2>2
<1>5. ASSUME NEW targets \in SUBSET Rows, NEW to \in page.statuses, ClickBulk(targets, to) PROVE Goal
  <2>1. Send(targets, to, shown, "bulk", "nothing")
    BY <1>5 DEF ClickBulk
  <2>2. UNCHANGED <<page, server, version, told, asOf, tab, phase, shown, copy, overtaken, strayed>>
    BY <1>5 DEF ClickBulk, serverVars, stateVars
  <2> QED
    BY <1>1, <2>1, <2>2
<1> QED
  BY <1>2, <1>3, <1>4, <1>5

LEMMA UserKeepsOrder ==
  ASSUME TypeInv, OrderInv, User
  PROVE  OrderInv'
<1> USE DEF OrderInv
<1>1. ASSUME \/ \E r \in Rows, to \in page.statuses : Click(r, to)
             \/ \E to \in page.statuses : ClickCopy(to)
             \/ Create
             \/ \E targets \in SUBSET Rows, to \in page.statuses : ClickBulk(targets, to)
      PROVE  OrderInv'
  <2>1. UNCHANGED <<page, server, version, told, asOf, tab, phase, shown, copy, overtaken, strayed>>
    BY <1>1, CommandsAreSent
  <2>2. PICK new : /\ Loads' = Loads /\ Commands' = Commands \cup new
                   /\ \A c \in new : c.answer # "ok" /\ c.tab = tab
    BY <1>1, CommandsAreSent, RowsAssumption
  <2>3. Ages'
    BY <2>1, <2>2 DEF Ages
  <2>4. InOrder'
    BY <2>1, <2>2 DEF InOrder
  <2>5. NewestIsOfTab'
    BY <2>1, <2>2 DEF NewestIsOfTab
  <2> QED
    BY <2>3, <2>4, <2>5
<1>2. ASSUME NEW t \in page.tabs, StartLoad(t, "nothing", flight),
             UNCHANGED <<page, server, version, told, asOf, shown, copy, overtaken>>, tab' = t,
             (t = tab /\ strayed' = strayed) \/ strayed' = (strayed \/ Commands # {})
      PROVE  OrderInv'
  <2>1. PICK l : /\ l.kind = "load" /\ l.id = issued + 1 /\ l.tab = t /\ l.answer = None /\ phase' = "loading"
                 /\ Loads' = {q \in flight : q.kind = "load"} \cup {l}
                 /\ Commands' = {q \in flight : q.kind = "command"}
    BY <1>2, StartLoadFacts
  <2>2. Loads' = Loads \cup {l} /\ Commands' = Commands /\ l.answer # "ok"
    BY <2>1, RowsAssumption DEF Loads, Commands
  <2>3. Ages'
    BY <1>2, <2>2 DEF Ages
  <2>4. InOrder'
    BY <1>2, <2>1, <2>2 DEF InOrder
  <2>5. NewestIsOfTab'
    <3>1. \A q \in Loads : q.id < l.id
      BY <2>1, Kinds DEF IsLoad, TypeInv
    <3>2. \A q \in Loads' : q.tab = tab' \/ \E p \in Loads' : p.tab = tab' /\ q.id < p.id
      BY <1>2, <2>1, <2>2, <3>1
    <3>3. ASSUME ~strayed', page.then = "reload", ~overtaken, NEW c \in Commands PROVE c.tab = tab'
      <4>1. ~strayed /\ (t = tab \/ Commands = {})
        <5>1. CASE t = tab /\ strayed' = strayed
          BY <3>3, <5>1
        <5>2. CASE strayed' = (strayed \/ Commands # {})
          BY <3>3, <5>2
        <5> QED
          BY <1>2, <5>1, <5>2
      <4> QED
        BY <1>2, <3>3, <4>1 DEF NewestIsOfTab
    <3> QED
      BY <1>2, <2>1, <2>2, <3>2, <3>3 DEF NewestIsOfTab
  <2> QED
    BY <2>3, <2>4, <2>5
<1>3. ASSUME NEW t \in page.tabs, Select(t) PROVE OrderInv'
  BY <1>2, <1>3 DEF Select, serverVars
<1>4. CASE Retry
  BY <1>2, <1>4 DEF Retry, serverVars, history, TypeInv
<1>5. ASSUME Close \/ \E r \in Rows : Open(r) PROVE OrderInv'
  <2>1. /\ UNCHANGED <<page, server, version, told, asOf, tab, phase, shown, flight, overtaken, strayed>>
        /\ copy' = None \/ \E r \in Rows : copy'.asOf = asOf[r] /\ copy'.row = r
    BY <1>5 DEF Close, Open, serverVars, netVars, history
  <2>2. Loads' = Loads /\ Commands' = Commands
    BY <2>1 DEF Loads, Commands
  <2> QED
    BY <2>1, <2>2 DEF Ages, InOrder, NewestIsOfTab
<1> QED
  BY <1>1, <1>3, <1>4, <1>5 DEF User

LEMMA ServingKeepsOrder ==
  ASSUME TypeInv, OrderInv, NEW q \in flight, ServeLoad(q) \/ Execute(q) \/ Fail(q)
  PROVE  OrderInv'
<1> USE DEF OrderInv, serverVars, stateVars, history
<1>1. CASE ServeLoad(q)
  <2> DEFINE a == [q EXCEPT !.answer = "ok", !.rows = Listed(q.tab), !.asOf = version]
  <2>1. q \in Loads /\ IsLoad(q)
    BY <1>1, Kinds DEF ServeLoad, Loads
  <2>2. a.kind = "load" /\ a.id = q.id /\ a.tab = q.tab /\ a.answer = "ok" /\ a.asOf = version
    BY <2>1 DEF IsLoad
  <2>3. /\ Loads' = (Loads \ {q}) \cup {a} /\ Commands' = Commands
        /\ UNCHANGED <<page, server, version, told, asOf, tab, phase, shown, copy, overtaken, strayed>>
    BY <1>1, <2>1, <2>2, AnswerFacts DEF ServeLoad
  <2> HIDE DEF a
  <2>4. Ages'
    BY <2>2, <2>3 DEF Ages, TypeInv
  <2>5. InOrder'
    BY <2>2, <2>3 DEF InOrder, Ages, TypeInv
  <2>6. NewestIsOfTab'
    BY <2>1, <2>2, <2>3 DEF NewestIsOfTab
  <2> QED
    BY <2>4, <2>5, <2>6
<1>2. CASE Execute(q)
  <2>1. q \in Commands /\ IsCommand(q)
    BY <1>2, Kinds DEF Execute, Commands
  <2>2. /\ version' \in [Rows -> Nat] /\ \A r \in Rows : version[r] <= version'[r]
        /\ overtaken' \/ ~\E p \in flight : p.id > q.id /\ p.answer # None /\ (p.kind = "load" \/ p.row = q.row)
        /\ overtaken => overtaken'
        /\ UNCHANGED <<page, told, asOf, tab, phase, shown, copy, strayed>>
    <3>1. version' \in [Rows -> Nat] /\ \A r \in Rows : version[r] <= version'[r]
      BY <1>2, WriteFacts
    <3> QED
      BY <1>2, <3>1 DEF Execute
  <2>3. PICK a : /\ Answer(q, a) /\ a.kind = "command" /\ a.id = q.id /\ a.row = q.row /\ a.tab = q.tab
                 /\ a.answer = "ok" => a.version = version'[q.row] /\ Accepted(q)
    <3>1. \A v \in Nat : LET a == [q EXCEPT !.answer = "ok", !.version = v]
                        IN  a.kind = "command" /\ a.id = q.id /\ a.row = q.row /\ a.tab = q.tab /\ a.version = v
      BY <2>1 DEF IsCommand
    <3>2. version'[q.row] \in Nat
      BY <2>1, <2>2 DEF IsCommand
    <3>3. \A x \in {"failed", "refused"} :
            LET a == [q EXCEPT !.answer = x]
            IN  a.kind = "command" /\ a.id = q.id /\ a.row = q.row /\ a.tab = q.tab /\ a.answer = x
      BY <2>1 DEF IsCommand
    <3>4. CASE Accepted(q) /\ Answer(q, [q EXCEPT !.answer = "ok", !.version = version'[q.row]])
      BY <3>1, <3>2, <3>4
    <3>5. CASE \E x \in {"failed", "refused"} : Answer(q, [q EXCEPT !.answer = x])
      BY <3>3, <3>5
    <3> QED
      BY <1>2, <3>4, <3>5 DEF Execute
  <2>4. Commands' = (Commands \ {q}) \cup {a} /\ Loads' = Loads
    BY <2>1, <2>3, AnswerFacts, Kinds DEF IsCommand
  <2>5. Ages'
    <3>1. server'[NewRow] # "absent" => server[NewRow] # "absent" \/ 0 < version'[NewRow]
      <4>1. CASE Accepted(q) /\ ~Again(q)
        BY <1>2, <4>1, WriteFacts, NewRowAssumption DEF TypeInv, Deletes
      <4>2. CASE ~(Accepted(q) /\ ~Again(q))
        BY <1>2, <4>2, WriteFacts
      <4> QED
        BY <4>1, <4>2
    <3>2. page.creates /\ server'[NewRow] # "absent" => 0 < version'[NewRow]
      BY <2>2, <3>1, NewRowAssumption DEF Ages, TypeInv
    <3>3. ASSUME Accepted(q) PROVE 0 < version'[q.row]
      <4>1. CASE Again(q)
        BY <2>1, <2>2, <4>1, NewRowAssumption DEF Again, Ages, IsCommand, TypeInv
      <4>2. CASE ~Again(q)
        BY <1>2, <2>1, <3>3, <4>2, WriteFacts DEF IsCommand, TypeInv
      <4> QED
        BY <4>1, <4>2
    <3>4. \A r \in Rows : told'[r] <= version'[r] /\ asOf'[r] <= version'[r]
      BY <2>2 DEF Ages, TypeInv
    <3>5. copy' # None => copy'.asOf <= version'[copy'.row]
      BY <2>2 DEF Ages, TypeInv, IsCopy
    <3>6. \A l \in Loads' : l.answer = "ok" => \A r \in Rows : l.asOf[r] <= version'[r]
      BY <2>2, <2>4, Kinds DEF Ages, TypeInv, IsLoad
    <3>7. \A c \in Commands' : c.answer = "ok" => 0 < c.version /\ c.version <= version'[c.row]
      BY <2>1, <2>2, <2>3, <2>4, <3>3, Kinds DEF Ages, TypeInv, IsCommand
    <3> QED
      BY <2>2, <3>2, <3>4, <3>5, <3>6, <3>7 DEF Ages
  <2>6. InOrder'
    <3> SUFFICES ASSUME ~overtaken' PROVE InOrder'
      BY DEF InOrder
    <3>1. /\ ~overtaken
          /\ \A l \in Loads : l.id > q.id => l.answer = None
          /\ \A c \in Commands : c.id > q.id /\ c.row = q.row => c.answer = None
      BY <2>2 DEF Loads, Commands
    <3>2. a.answer = "ok" => told[a.row] <= a.version /\ \A c \in Commands : c.answer = "ok" /\ c.row = a.row => c.version <= a.version
      BY <2>1, <2>2, <2>3, Kinds DEF Ages, IsCommand, TypeInv
    <3>3. \A c \in Commands' : c.answer = "ok" => told'[c.row] <= c.version
      BY <2>2, <2>3, <2>4, <3>1, <3>2 DEF InOrder
    <3>4. ASSUME NEW c \in Commands', NEW d \in Commands',
                 c.answer = "ok", d.answer = "ok", c.row = d.row, c.id < d.id
          PROVE  c.version <= d.version
      <4>1. q.id \in Nat
        BY <2>1 DEF IsCommand
      <4>2. c # a \/ d # a
        BY <2>3, <3>4, <4>1
      <4>3. CASE c = a
        BY <2>3, <2>4, <3>1, <3>4, <4>2, <4>3, RowsAssumption
      <4>4. CASE d = a
        BY <2>3, <2>4, <3>2, <3>4, <4>2, <4>4
      <4>5. CASE c # a /\ d # a
        BY <2>4, <3>1, <3>4, <4>5 DEF InOrder
      <4> QED
        BY <4>3, <4>4, <4>5
    <3>5. ASSUME NEW l \in Loads', l.answer = "ok"
          PROVE  /\ \A r \in Rows : told'[r] <= l.asOf[r]
                 /\ \A c \in Commands' : c.answer = "ok" /\ c.id < l.id => c.version <= l.asOf[c.row]
      <4>1. l \in Loads /\ ~(l.id > q.id)
        BY <2>4, <3>1, <3>5, RowsAssumption
      <4>2. q.id \in Nat /\ l.id \in Nat
        BY <2>1, <4>1, Kinds DEF IsCommand, IsLoad
      <4> QED
        BY <2>2, <2>3, <2>4, <3>1, <3>5, <4>1, <4>2 DEF InOrder
    <3>6. phase' = "ready" => Loads' # {} \/ \A r \in Rows : told'[r] <= asOf'[r]
      BY <2>2, <2>4, <3>1 DEF InOrder
    <3> QED
      BY <3>3, <3>4, <3>5, <3>6 DEF InOrder
  <2>7. NewestIsOfTab'
    BY <2>1, <2>2, <2>3, <2>4 DEF NewestIsOfTab
  <2> QED
    BY <2>5, <2>6, <2>7
<1>3. CASE Fail(q)
  <2> DEFINE a == [q EXCEPT !.answer = "failed"]
  <2>1. a.kind = q.kind /\ a.id = q.id /\ a.tab = q.tab /\ a.answer = "failed"
    BY Kinds DEF IsLoad, IsCommand
  <2>2. /\ \/ q \in Loads /\ Loads' = (Loads \ {q}) \cup {a} /\ Commands' = Commands
           \/ q \in Commands /\ Commands' = (Commands \ {q}) \cup {a} /\ Loads' = Loads
        /\ UNCHANGED <<page, server, version, told, asOf, tab, phase, shown, copy, overtaken, strayed>>
    BY <1>3, <2>1, AnswerFacts, Kinds DEF Fail
  <2> HIDE DEF a
  <2>3. Ages'
    BY <2>1, <2>2 DEF Ages
  <2>4. InOrder'
    BY <2>1, <2>2 DEF InOrder
  <2>5. NewestIsOfTab'
    BY <2>1, <2>2 DEF NewestIsOfTab
  <2> QED
    BY <2>3, <2>4, <2>5
<1> QED
  BY <1>1, <1>2, <1>3

LEMMA DeliveringKeepsOrder ==
  ASSUME TypeInv, OrderInv, NEW q \in flight, DeliverLoad(q) \/ Succeed(q) \/ GiveUp(q)
  PROVE  OrderInv'
<1> USE DEF OrderInv, serverVars, stateVars, history
<1>1. /\ overtaken' = Overtakes(q) /\ UNCHANGED <<page, server, version, tab, strayed>>
  BY DEF DeliverLoad, Succeed, GiveUp
<1>2. ~overtaken' => ~overtaken /\ \A p \in flight : ~(p.id < q.id)
  BY <1>1 DEF Overtakes
<1>3. \A p \in flight : p.id \in Nat /\ q.id \in Nat /\ (p # q => p.id # q.id)
  BY DEF TypeInv, FlightFits, IsLoad, IsCommand
<1>4. CASE DeliverLoad(q)
  <2>1. q \in Loads /\ IsLoad(q) /\ Loads' = Loads \ {q} /\ Commands' = Commands
    BY <1>4, Kinds DEF DeliverLoad, Loads, Commands
  <2>2. /\ UNCHANGED <<told, copy>>
        /\ \/ q.answer = "ok" /\ phase' = "ready" /\ shown' = q.rows /\ asOf' = q.asOf
           \/ q.answer # "ok" /\ phase' = "error" /\ UNCHANGED <<shown, asOf>>
    BY <1>4 DEF DeliverLoad
  <2>3. Ages'
    BY <1>1, <2>1, <2>2 DEF Ages
  <2>4. InOrder'
    BY <1>1, <1>2, <2>1, <2>2 DEF InOrder
  <2>5. NewestIsOfTab'
    <3> SUFFICES ASSUME ~overtaken, ~strayed, page.then = "reload", \A p \in flight : ~(p.id < q.id)
                 PROVE  NewestIsOfTab'
      BY <1>1, <1>2 DEF NewestIsOfTab
    <3>1. \A c \in Commands' : c.tab = tab'
      BY <1>1, <2>1 DEF NewestIsOfTab
    <3>2. \A p \in Loads' : p.tab = tab' \/ \E l \in Loads' : l.tab = tab' /\ p.id < l.id
      <4>1. \A p \in Loads : p.id < q.id => FALSE
        BY DEF Loads
      <4> QED
        BY <1>1, <2>1, <4>1 DEF NewestIsOfTab
    <3>3. ASSUME phase' = "ready"
          PROVE  (\E p \in Loads' : p.tab = tab') \/ \A r \in DOMAIN shown' : shown'[r] \in page.lists[tab']
      <4>1. q.answer = "ok" /\ shown' = q.rows
        BY <2>2, <3>3
      <4>2. CASE q.tab = tab
        BY <1>1, <2>1, <4>1, <4>2 DEF IsLoad, IsRows
      <4>3. CASE q.tab # tab
        <5>1. PICK p \in Loads : p.tab = tab /\ q.id < p.id
          BY <2>1, <4>3 DEF NewestIsOfTab
        <5>2. p # q
          BY <1>3, <5>1 DEF Loads
        <5> QED
          BY <1>1, <2>1, <5>1, <5>2
      <4> QED
        BY <4>2, <4>3
    <3> QED
      BY <1>1, <3>1, <3>2, <3>3 DEF NewestIsOfTab
  <2> QED
    BY <2>3, <2>4, <2>5
<1>5. CASE Succeed(q)
  <2>1. q \in Commands /\ IsCommand(q) /\ q.answer = "ok"
    BY <1>5, Kinds DEF Succeed, Commands
  <2>2. Commands' = Commands \ {q} /\ (LoadedAgain(q) \/ Awaited(q) \/ Replaced(q) \/ HasLeft(q))
    BY <1>5, SucceedFacts
  <2>3. /\ UNCHANGED <<shown, asOf>> \/ Replaced(q)
        /\ \A l \in Loads' : l.answer = "ok" => l \in Loads
        /\ \A l \in Loads : l \in Loads'
    BY <2>2, RowsAssumption DEF LoadedAgain, Awaited, Replaced, HasLeft
  <2>4. told' = told \/ (told' = [told EXCEPT ![q.row] = q.version] /\ told[q.row] < q.version)
    <3>1. told' = IF q.waited /\ Mates(q) = {} /\ told[q.row] < q.version
                    THEN [told EXCEPT ![q.row] = q.version] ELSE told
      BY <1>5 DEF Succeed
    <3> QED
      BY <3>1
  <2>5. Ages'
    <3>1. 0 < q.version /\ q.version <= version[q.row]
      BY <2>1 DEF Ages
    <3>2. \A r \in Rows : told'[r] <= version[r] /\ asOf'[r] <= version[r]
      BY <2>3, <2>4, <3>1 DEF Ages, Replaced, TypeInv
    <3>3. copy' # None => copy'.asOf <= version[copy'.row]
      BY <1>5, <2>1, <3>1 DEF Succeed, CopyAfter, Ages, TypeInv, IsCopy, IsCommand
    <3> QED
      BY <1>1, <2>2, <2>3, <3>2, <3>3 DEF Ages
  <2>6. InOrder'
    <3> SUFFICES ASSUME ~overtaken, \A p \in flight : ~(p.id < q.id) PROVE InOrder'
      BY <1>2 DEF InOrder
    <3>1. \A c \in Commands' : c.answer = "ok" => c \in Commands /\ q.id < c.id
      BY <1>3, <2>1, <2>2 DEF Commands
    <3>2. \A c \in Commands' : c.answer = "ok" => told'[c.row] <= c.version
      <4>1. ASSUME NEW c \in Commands', c.answer = "ok" PROVE told[c.row] <= c.version /\ (c.row = q.row => q.version <= c.version)
        BY <2>1, <3>1, <4>1 DEF InOrder
      <4> QED
        BY <2>1, <2>4, <3>1, <4>1, Kinds DEF TypeInv, IsCommand
    <3>3. \A c, d \in Commands' :
            c.answer = "ok" /\ d.answer = "ok" /\ c.row = d.row /\ c.id < d.id => c.version <= d.version
      BY <3>1 DEF InOrder
    <3>4. ASSUME NEW l \in Loads', l.answer = "ok"
          PROVE  /\ \A r \in Rows : told'[r] <= l.asOf[r]
                 /\ \A c \in Commands' : c.answer = "ok" /\ c.id < l.id => c.version <= l.asOf[c.row]
      <4>1. l \in Loads /\ q.id < l.id
        BY <1>3, <2>1, <2>3, <3>4, Kinds
      <4>2. q.version <= l.asOf[q.row] /\ \A r \in Rows : told[r] <= l.asOf[r]
        BY <2>1, <3>4, <4>1 DEF InOrder
      <4>3. \A r \in Rows : told'[r] <= l.asOf[r]
        BY <2>1, <2>4, <4>2 DEF TypeInv, IsCommand
      <4> QED
        BY <3>1, <3>4, <4>1, <4>3 DEF InOrder
    <3>5. ASSUME phase' = "ready", Loads' = {}, NEW r \in Rows PROVE told'[r] <= asOf'[r]
      <4>1. told[q.row] <= q.version
        BY <2>1 DEF InOrder
      <4>2. CASE LoadedAgain(q) \/ HasLeft(q)
        BY <3>5, <4>2 DEF LoadedAgain, HasLeft
      <4>3. CASE Awaited(q)
        BY <3>5, <4>3 DEF Awaited, InOrder
      <4>4. CASE Replaced(q)
        <5>1. told[r] <= asOf[r] /\ asOf' = [asOf EXCEPT ![q.row] = q.version]
          BY <3>5, <4>4 DEF Replaced, InOrder
        <5> QED
          BY <2>1, <2>4, <4>1, <5>1 DEF TypeInv, IsCommand
      <4> QED
        BY <2>2, <4>2, <4>3, <4>4
    <3> QED
      BY <3>2, <3>3, <3>4, <3>5 DEF InOrder
  <2>7. NewestIsOfTab'
    <3> SUFFICES ASSUME ~overtaken, ~strayed, page.then = "reload" PROVE NewestIsOfTab'
      BY <1>1, <1>2 DEF NewestIsOfTab
    <3>1. q.tab = tab /\ \A c \in Commands' : c.tab = tab'
      BY <1>1, <2>1, <2>2 DEF NewestIsOfTab
    <3>2. CASE LoadedAgain(q)
      BY <1>1, <3>1, <3>2 DEF NewestIsOfTab, LoadedAgain
    <3>3. CASE Awaited(q)
      BY <1>1, <3>1, <3>3 DEF NewestIsOfTab, Awaited
    <3>4. ~Replaced(q) /\ ~HasLeft(q)
      BY DEF Replaced, HasLeft
    <3> QED
      BY <2>2, <3>2, <3>3, <3>4
  <2> QED
    BY <2>5, <2>6, <2>7
<1>6. CASE GiveUp(q)
  <2>1. q \in Commands /\ IsCommand(q)
    BY <1>6, Kinds DEF GiveUp, Commands
  <2>2. UNCHANGED <<told, asOf, shown, copy>>
    BY <1>6 DEF GiveUp
  <2>3. PICK new : /\ \A l \in new : l.answer # "ok" /\ l.tab = q.tab
                   /\ Loads' = Loads \cup new
                   /\ Commands' = {e \in Abandon(q) : e.kind = "command"}
                   /\ IF new = {} THEN phase' = phase ELSE phase' = "loading"
    <3>1. CASE StartLoad(ReloadsTab(q), q.frees, Abandon(q))
      <4>1. PICK l : /\ l.tab = ReloadsTab(q) /\ l.answer = None /\ phase' = "loading"
                     /\ Loads' = {e \in Abandon(q) : e.kind = "load"} \cup {l}
                     /\ Commands' = {e \in Abandon(q) : e.kind = "command"}
        BY <3>1, StartLoadFacts
      <4> WITNESS {l}
      <4> QED
        BY <2>1, <4>1, AbandonFacts, RowsAssumption DEF ReloadsTab
    <3>2. CASE flight' = Abandon(q) /\ phase' = phase
      <4>1. Loads' = Loads /\ Commands' = {e \in Abandon(q) : e.kind = "command"}
        BY <2>1, <3>2, AbandonFacts DEF Loads, Commands
      <4> WITNESS {}
      <4> QED
        BY <3>2, <4>1
    <3> QED
      BY <1>6, <3>1, <3>2 DEF GiveUp
  <2>4. \A e \in Commands' : \E d \in Commands :
          e.id = d.id /\ e.row = d.row /\ e.tab = d.tab /\ e.answer = d.answer /\ e.version = d.version
    BY <2>1, <2>3, AbandonFacts
  <2>5. Ages'
    BY <1>1, <2>2, <2>3, <2>4 DEF Ages
  <2>6. InOrder'
    <3> SUFFICES ASSUME ~overtaken' PROVE InOrder'
      BY DEF InOrder
    <3>1. \A l \in Loads' : l.answer = "ok" => l \in Loads
      BY <2>3
    <3>2. \A c \in Commands' : c.answer = "ok" => told[c.row] <= c.version
      BY <1>2, <2>4 DEF InOrder
    <3>3. \A c, d \in Commands' :
            c.answer = "ok" /\ d.answer = "ok" /\ c.row = d.row /\ c.id < d.id => c.version <= d.version
      BY <1>2, <2>4 DEF InOrder
    <3>4. \A l \in Loads' : l.answer = "ok" =>
            /\ \A r \in Rows : told[r] <= l.asOf[r]
            /\ \A c \in Commands' : c.answer = "ok" /\ c.id < l.id => c.version <= l.asOf[c.row]
      BY <1>2, <2>4, <3>1 DEF InOrder
    <3>5. phase' = "ready" => Loads' # {} \/ \A r \in Rows : told[r] <= asOf[r]
      BY <1>2, <2>3 DEF InOrder
    <3> QED
      BY <2>2, <3>2, <3>3, <3>4, <3>5 DEF InOrder
  <2>7. NewestIsOfTab'
    <3> SUFFICES ASSUME ~overtaken, ~strayed, page.then = "reload" PROVE NewestIsOfTab'
      BY <1>1, <1>2 DEF NewestIsOfTab
    <3>1. q.tab = tab /\ \A c \in Commands' : c.tab = tab'
      BY <1>1, <2>1, <2>4 DEF NewestIsOfTab
    <3>2. \A p \in Loads' : p.tab = tab' \/ \E l \in Loads' : l.tab = tab' /\ p.id < l.id
      BY <1>1, <2>3, <3>1 DEF NewestIsOfTab
    <3>3. phase' = "ready" =>
            (\E p \in Loads' : p.tab = tab') \/ \A r \in DOMAIN shown' : shown'[r] \in page.lists[tab']
      BY <1>1, <2>2, <2>3 DEF NewestIsOfTab
    <3> QED
      BY <1>1, <3>1, <3>2, <3>3 DEF NewestIsOfTab
  <2> QED
    BY <2>5, <2>6, <2>7
<1> QED
  BY <1>4, <1>5, <1>6

LEMMA OrderStep ==
  ASSUME TypeInv, OrderInv, [Next]_vars
  PROVE  OrderInv'
<1>1. CASE Serve
  BY <1>1, ServingKeepsOrder DEF Serve
<1>2. CASE Deliver
  BY <1>2, DeliveringKeepsOrder DEF Deliver
<1>3. ASSUME NEW r \in Rows, Other(r) PROVE OrderInv'
  <2>1. /\ UNCHANGED <<page, told, asOf, tab, phase, shown, copy, flight, overtaken, strayed>>
        /\ version' = [version EXCEPT ![r] = @ + 1] /\ server[r] # "absent"
        /\ \A s \in Rows : s # r => server'[s] = server[s]
    BY <1>3 DEF Other, stateVars, netVars, TypeInv
  <2>2. version' \in [Rows -> Nat] /\ \A s \in Rows : version[s] <= version'[s]
    BY <2>1 DEF TypeInv
  <2>3. Loads' = Loads /\ Commands' = Commands
    BY <2>1 DEF Loads, Commands
  <2>4. Ages'
    <3>1. \A s \in Rows : told[s] <= version'[s] /\ asOf[s] <= version'[s]
      BY <2>2 DEF OrderInv, Ages, TypeInv
    <3>2. copy # None => copy.asOf <= version'[copy.row]
      BY <2>2 DEF OrderInv, Ages, TypeInv, IsCopy
    <3>3. \A q \in Loads : q.answer = "ok" => \A s \in Rows : q.asOf[s] <= version'[s]
      BY <2>2, Kinds DEF OrderInv, Ages, TypeInv, IsLoad
    <3>4. \A c \in Commands : c.answer = "ok" => 0 < c.version /\ c.version <= version'[c.row]
      BY <2>2, Kinds DEF OrderInv, Ages, TypeInv, IsCommand
    <3>5. page.creates /\ server'[NewRow] # "absent" => 0 < version'[NewRow]
      BY <2>1, <2>2, NewRowAssumption DEF OrderInv, Ages, TypeInv
    <3> QED
      BY <2>1, <2>3, <3>1, <3>2, <3>3, <3>4, <3>5 DEF Ages
  <2>5. InOrder' /\ NewestIsOfTab'
    BY <2>1, <2>3 DEF OrderInv, InOrder, NewestIsOfTab
  <2> QED
    BY <2>4, <2>5 DEF OrderInv
<1>4. CASE UNCHANGED vars
  BY <1>4 DEF OrderInv, Ages, InOrder, NewestIsOfTab, Loads, Commands,
              vars, serverVars, stateVars, netVars, history
<1> QED
  BY <1>1, <1>2, <1>3, <1>4, UserKeepsOrder DEF Next

LEMMA PageInvariance == Spec => [](TypeInv /\ OrderInv)
<1>1. Init => TypeInv /\ OrderInv
  BY InitTypes, InitOrder
<1>2. TypeInv /\ OrderInv /\ [Next]_vars => (TypeInv /\ OrderInv)'
  BY TypeStep, OrderStep
<1> QED
  BY <1>1, <1>2, PTL DEF Spec

(* A page of the console keeps the types of its state: whatever is clicked, *)
(* however the requests overlap, and whichever answers arrive.              *)
THEOREM PageTypeCorrect == Spec => []TypeOK
<1>1. TypeInv => TypeOK
  BY DEF TypeInv, TypeOK, FlightFits, IsRows, IsCopy, IsLoad, IsCommand, Answers
<1> QED
  BY <1>1, PageInvariance, PTL

(* A page at rest shows what its user did, at least as new as the last      *)
(* command answered, and the rows of the filter selected: for any page,     *)
(* rows and requests, unless an answer overtook an older one, or the filter *)
(* was changed under a command.                                             *)
THEOREM PagesShowWhatIsCurrent == Spec => []ShownIsCurrent
<1>1. TypeInv /\ OrderInv => ShownIsCurrent
  BY DEF OrderInv, InOrder, NewestIsOfTab, ShownIsCurrent, Quiet, Loads
<1> QED
  BY <1>1, PageInvariance, PTL

-----------------------------------------------------------------------------
(* Clicks do not meet *)

(* Rows that a page or a request knows of exist, or are on record; those    *)
(* that its form makes did not.                                             *)
Exists(r) == server[r] # "absent" \/ r \in touched

Existing ==
  /\ \A r \in DOMAIN shown : Exists(r)
  /\ \A q \in Loads : q.answer = "ok" => \A r \in DOMAIN q.rows : Exists(r)
  /\ copy # None => Exists(copy.row)
  /\ \A c \in Commands : c.from # "form" \/ c.answer = "ok" => Exists(c.row)

(* The form is disabled from its request to the end of its handler.  Only   *)
(* the requests of a selection were sent together.                          *)
FormsAreGuarded ==
  /\ \A q \in flight : q.frees = "form" => creating
  /\ \A p, q \in flight : p.frees = "form" /\ q.frees = "form" => p = q
  /\ \A c, d \in Commands : c.group = d.group /\ c.from # "bulk" => c = d

(* None of what NoClickTwice sets aside.                                    *)
Clean == page.guard # "none" /\ ~overlapped /\ ~overtaken /\ ~outdated /\ ~lost

(* The guard of a row is up while its handler waits, and one handler at a   *)
(* time does.                                                               *)
RowsAreGuarded ==
  /\ \A q \in flight : q.frees = "row" /\ q.kind = "command" => busy \in {q.row, "page"}
  /\ \A p, q \in flight : p.frees = "row" /\ q.frees = "row" => p = q
  /\ \A c \in Commands : c.waited
  /\ \A c, d \in Commands : c.from = "bulk" => d.from = "bulk" /\ d.group = c.group

(* A change of row r, newer than v, whose answer is on its way.             *)
OnItsWay(r, v) ==
  \E c \in Commands : c.row = r /\ c.answer = "ok" /\ c.from # "form" /\ v < c.version

(* The page may show old rows while it does not show them as ready, or      *)
(* until the rest of a selection is answered.                               *)
BeingReloaded ==
  page.then # "replace" /\ (phase # "ready" \/ \E c \in Commands : c.from = "bulk")

(* What is known of a row that nobody else changed is true, or the news are *)
(* on their way: what the commands sent for it expect, ...                  *)
CommandsKnow(r) ==
  \A c \in Commands : c.row = r =>
    /\ c.answer = None => server[r] = c.seen
    /\ c.answer = None => \A d \in Commands : d.row = r /\ d.answer = None => c = d
    /\ c.answer = "ok" => server[r] = c.to \/ OnItsWay(r, c.version)

(* ... what a load brings, ...                                              *)
LoadsKnow(r) ==
  \A q \in Loads : q.answer = "ok" /\ r \in DOMAIN q.rows =>
    \/ q.rows[r] = server[r]
    \/ \E c \in Commands : /\ c.row = r /\ c.answer = "ok" /\ c.from # "form"
                           /\ q.asOf[r] < c.version /\ q.id < c.id

(* ... what the list and the open copy show, ...                            *)
ListKnows(r) == r \in DOMAIN shown => shown[r] = server[r] \/ OnItsWay(r, asOf[r]) \/ BeingReloaded
CopyKnows(r) ==
  copy # None /\ copy.row = r => copy.status = server[r] \/ OnItsWay(r, copy.asOf) \/ copy.asOf < told[r]

(* ... and whether the row that the form makes was made.                    *)
FormKnows(r) ==
  page.creates /\ r = NewRow /\ server[r] # "absent" =>
    told[r] > 0 \/ \E c \in Commands : c.row = r /\ c.answer = "ok" /\ c.from = "form"

Known(r) == CommandsKnow(r) /\ LoadsKnow(r) /\ ListKnows(r) /\ CopyKnows(r) /\ FormKnows(r)

ClicksAgree == RowsAreGuarded /\ (\A r \in Rows \ touched : Known(r)) /\ surprised \subseteq touched

ClicksInv == Clean => ClicksAgree

-----------------------------------------------------------------------------
(* Rows stay, and forms stay guarded *)

ExistInv == Existing /\ FormsAreGuarded

LEMMA RowsStay ==
  ASSUME TypeInv, [Next]_vars
  PROVE  \A r \in Rows : Exists(r) => Exists(r)'
<1>1. ASSUME NEW q \in flight, Execute(q) PROVE \A r \in Rows : Exists(r) => Exists(r)'
  <2>1. q.to \in page.statuses /\ "absent" \notin page.statuses
    BY <1>1, PageFacts, WriteFacts DEF IsCommand
  <2>2. touched \subseteq touched' /\ \A r \in Rows \ {q.row} : server'[r] = server[r] \/ r \in touched'
    BY <1>1, WriteFacts DEF Deletes
  <2>3. server'[q.row] = q.to \/ server'[q.row] = server[q.row]
    BY <1>1, WriteFacts
  <2> QED
    BY <2>1, <2>2, <2>3 DEF Exists
<1>2. ASSUME NEW s \in Rows, Other(s) PROVE \A r \in Rows : Exists(r) => Exists(r)'
  BY <1>2, PageFacts DEF Other, TypeInv, Exists
<1>3. ASSUME UNCHANGED <<server, touched>> PROVE \A r \in Rows : Exists(r) => Exists(r)'
  BY <1>3 DEF Exists
<1>4. ASSUME User \/ Deliver \/ UNCHANGED vars \/ \E q \in flight : ServeLoad(q) \/ Fail(q)
      PROVE  UNCHANGED <<server, touched>>
  BY <1>4 DEF User, Deliver, vars, history, serverVars, ServeLoad, Fail, DeliverLoad, Succeed, GiveUp,
              Select, Retry, Close, Create, Click, Open, ClickCopy, ClickBulk
<1> QED
  BY <1>1, <1>2, <1>3, <1>4 DEF Next, Serve

LEMMA InitExist == Init => ExistInv
<1> SUFFICES ASSUME Init PROVE ExistInv
  OBVIOUS
<1>1. \A q \in flight : q.kind = "load" /\ q.frees = "nothing" /\ q.answer # "ok"
  BY RowsAssumption DEF Init, LoadRequest
<1>2. Commands = {} /\ \A q \in Loads : q.answer # "ok"
  BY <1>1 DEF Loads, Commands
<1> QED
  BY <1>1, <1>2 DEF Init, ExistInv, Existing, FormsAreGuarded

LEMMA SendKeepsExist ==
  ASSUME TypeInv, ExistInv, NEW targets \in SUBSET Rows, NEW to, NEW seen, NEW from, NEW frees,
         Send(targets, to, seen, from, frees), UNCHANGED <<server, touched, shown, copy>>,
         from = "form" \/ \A r \in targets : Exists(r),
         IF frees = "form" THEN ~creating /\ creating' = TRUE ELSE UNCHANGED creating,
         from # "bulk" => \E r : targets = {r},
         frees = "form" => from = "form"
  PROVE  ExistInv'
<1>1. PICK new : /\ AreSent(new, targets, to, seen, from, frees)
                 /\ flight' = flight \cup new /\ Loads' = Loads /\ Commands' = Commands \cup new
  BY SendFacts
<1>2. Existing'
  <2>1. \A c \in new : c.answer # "ok" /\ c.from = from /\ c.row \in targets
    BY <1>1, RowsAssumption DEF AreSent
  <2> QED
    BY <1>1, <2>1 DEF ExistInv, Existing, Exists
<1>3. \A c, d \in new : from # "bulk" => c = d
  BY <1>1 DEF AreSent
<1>4. \A c \in new : c.frees = frees /\ c.group = issued + 1 /\ c.from = from
  BY <1>1 DEF AreSent
<1>5. \A c \in Commands : c.group # issued + 1
  BY Kinds DEF IsCommand, TypeInv
<1>6. FormsAreGuarded'
  <2>1. \A q \in flight' : q.frees = "form" => creating'
    BY <1>1, <1>4 DEF ExistInv, FormsAreGuarded
  <2>2. \A p, q \in flight' : p.frees = "form" /\ q.frees = "form" => p = q
    BY <1>1, <1>3, <1>4 DEF ExistInv, FormsAreGuarded
  <2>3. \A c, d \in Commands' : c.group = d.group /\ c.from # "bulk" => c = d
    BY <1>1, <1>3, <1>4, <1>5 DEF ExistInv, FormsAreGuarded
  <2> QED
    BY <2>1, <2>2, <2>3 DEF FormsAreGuarded
<1> QED
  BY <1>2, <1>6 DEF ExistInv

LEMMA UserKeepsExist ==
  ASSUME TypeInv, ExistInv, User
  PROVE  ExistInv'
<1> USE DEF serverVars, stateVars, netVars, history
<1>1. ASSUME StartLoad(tab', "nothing", flight), UNCHANGED <<server, touched, shown, copy, creating>> PROVE ExistInv'
  <2>1. PICK l : /\ l.kind = "load" /\ l.frees = "nothing" /\ l.answer = None /\ flight' = flight \cup {l}
                 /\ Loads' = {q \in flight : q.kind = "load"} \cup {l}
                 /\ Commands' = {q \in flight : q.kind = "command"}
    BY <1>1, StartLoadFacts
  <2>2. Loads' = Loads \cup {l} /\ Commands' = Commands /\ l.answer # "ok"
    BY <2>1, RowsAssumption DEF Loads, Commands
  <2> QED
    BY <1>1, <2>1, <2>2 DEF ExistInv, Existing, Exists, FormsAreGuarded
<1>2. ASSUME NEW t \in page.tabs, Select(t) PROVE ExistInv'
  BY <1>1, <1>2 DEF Select
<1>3. CASE Retry
  BY <1>1, <1>3 DEF Retry
<1>4. ASSUME Close \/ \E r \in Rows : Open(r) PROVE ExistInv'
  <2>1. /\ UNCHANGED <<server, touched, shown, flight, creating>>
        /\ copy' = None \/ copy'.row \in DOMAIN shown
    BY <1>4 DEF Close, Open
  <2>2. Loads' = Loads /\ Commands' = Commands
    BY <2>1 DEF Loads, Commands
  <2> QED
    BY <2>1, <2>2 DEF ExistInv, Existing, Exists, FormsAreGuarded
<1>5. ASSUME NEW r \in Rows, NEW to \in page.statuses, Click(r, to) PROVE ExistInv'
  <2>1. /\ Send({r}, to, shown, "list", "row") /\ UNCHANGED <<server, touched, shown, copy, creating>>
        /\ r \in DOMAIN shown
    BY <1>5 DEF Click
  <2>2. \A x \in {r} : Exists(x)
    BY <2>1 DEF ExistInv, Existing
  <2> QED
    BY <2>1, <2>2, SendKeepsExist
<1>6. ASSUME NEW to \in page.statuses, ClickCopy(to) PROVE ExistInv'
  <2>1. /\ Send({copy.row}, to, [r \in {copy.row} |-> copy.status], "copy", "row")
        /\ UNCHANGED <<server, touched, shown, copy, creating>>
    BY <1>6 DEF ClickCopy
  <2>2. copy.row \in Rows /\ \A x \in {copy.row} : Exists(x)
    BY <1>6 DEF ClickCopy, TypeInv, IsCopy, ExistInv, Existing
  <2>3. \E seen : Send({copy.row}, to, seen, "copy", "row")
    BY <2>1
  <2>4. {copy.row} \in SUBSET Rows /\ \E r : {copy.row} = {r}
    BY <2>2
  <2> QED
    BY <2>1, <2>2, <2>3, <2>4, SendKeepsExist
<1>7. CASE Create
  <2>1. CASE page.formShares
    <3>1. /\ Send({NewRow}, page.first, [r \in {NewRow} |-> "absent"], "form", "row")
          /\ UNCHANGED <<server, touched, shown, copy, creating>>
      BY <1>7, <2>1 DEF Create
    <3> QED
      BY <3>1, NewRowAssumption, SendKeepsExist
  <2>2. CASE ~page.formShares
    <3>1. /\ Send({NewRow}, page.first, [r \in {NewRow} |-> "absent"], "form", "form")
          /\ UNCHANGED <<server, touched, shown, copy>> /\ ~creating /\ creating' = TRUE
      BY <1>7, <2>2 DEF Create
    <3> QED
      BY <3>1, NewRowAssumption, SendKeepsExist
  <2> QED
    BY <2>1, <2>2
<1>8. ASSUME NEW targets \in SUBSET Rows, NEW to \in page.statuses, ClickBulk(targets, to) PROVE ExistInv'
  <2>1. /\ Send(targets, to, shown, "bulk", "nothing") /\ UNCHANGED <<server, touched, shown, copy, creating>>
        /\ targets \subseteq DOMAIN shown
    BY <1>8 DEF ClickBulk
  <2>2. \A x \in targets : Exists(x)
    BY <2>1 DEF ExistInv, Existing
  <2> QED
    BY <2>1, <2>2, SendKeepsExist
<1> QED
  BY <1>2, <1>3, <1>4, <1>5, <1>6, <1>7, <1>8 DEF User

(* The answer a to command c is about the same.                             *)
IsAnswerTo(a, c) ==
  /\ a.kind = c.kind /\ a.id = c.id /\ a.row = c.row /\ a.to = c.to /\ a.seen = c.seen /\ a.from = c.from
  /\ a.frees = c.frees /\ a.tab = c.tab /\ a.group = c.group /\ a.waited = c.waited

(* It was carried out and said so; it was, and the answer did not arrive; or*)
(* it was refused.                                                          *)
Done(c, a)    == Accepted(c) /\ a.answer = "ok" /\ a.version = version'[c.row] /\ lost' = lost
Vanished(a)   == a.answer = "failed" /\ lost'
Refused(c, a) == ~Accepted(c) /\ a.answer = "refused" /\ UNCHANGED <<server, version, touched, lost>>

LEMMA ExecuteFacts ==
  ASSUME TypeInv, NEW c \in flight, Execute(c)
  PROVE  /\ c \in Commands
         /\ \E a : /\ IsAnswerTo(a, c) /\ (Done(c, a) \/ Vanished(a) \/ Refused(c, a))
                   /\ flight' = (flight \ {c}) \cup {a}
                   /\ Commands' = (Commands \ {c}) \cup {a} /\ Loads' = Loads
<1>1. c \in Commands /\ IsCommand(c)
  BY Kinds DEF Execute, Commands
<1>2. version' \in [Rows -> Nat]
  BY WriteFacts
<1>3. ASSUME NEW v \in Nat PROVE LET a == [c EXCEPT !.answer = "ok", !.version = v]
                                 IN  IsAnswerTo(a, c) /\ a.answer = "ok" /\ a.version = v
  BY <1>1 DEF IsCommand, IsAnswerTo
<1>4. ASSUME NEW x \in {"failed", "refused"} PROVE LET a == [c EXCEPT !.answer = x]
                                                   IN  IsAnswerTo(a, c) /\ a.answer = x
  BY <1>1 DEF IsCommand, IsAnswerTo
<1>5. PICK a : Answer(c, a) /\ IsAnswerTo(a, c) /\ (Done(c, a) \/ Vanished(a) \/ Refused(c, a))
  <2>1. CASE Accepted(c) /\ Answer(c, [c EXCEPT !.answer = "ok", !.version = version'[c.row]]) /\ UNCHANGED lost
    <3>1. version'[c.row] \in Nat
      BY <1>1, <1>2 DEF IsCommand
    <3> DEFINE a == [c EXCEPT !.answer = "ok", !.version = version'[c.row]]
    <3>2. IsAnswerTo(a, c) /\ Done(c, a)
      BY <1>3, <2>1, <3>1 DEF Done
    <3> QED
      BY <2>1, <3>2
  <2>2. CASE Answer(c, [c EXCEPT !.answer = "failed"]) /\ lost'
    BY <1>4, <2>2 DEF Vanished
  <2>3. CASE ~Accepted(c) /\ Answer(c, [c EXCEPT !.answer = "refused"]) /\ UNCHANGED <<server, version, touched, lost>>
    BY <1>4, <2>3 DEF Refused
  <2> QED
    BY <2>1, <2>2, <2>3 DEF Execute, serverVars
<1>6. a.kind = c.kind
  BY <1>5 DEF IsAnswerTo
<1> QED
  BY <1>1, <1>5, <1>6, AnswerFacts DEF Answer

LEMMA ServingKeepsExist ==
  ASSUME TypeInv, ExistInv, NEW q \in flight, ServeLoad(q) \/ Execute(q) \/ Fail(q)
  PROVE  ExistInv'
<1> USE DEF ExistInv, serverVars, stateVars, netVars, history
<1>1. CASE ServeLoad(q)
  <2> DEFINE a == [q EXCEPT !.answer = "ok", !.rows = Listed(q.tab), !.asOf = version]
  <2>1. q \in Loads /\ IsLoad(q)
    BY <1>1, Kinds DEF ServeLoad, Loads
  <2>2. a.kind = "load" /\ a.frees = q.frees /\ a.rows = Listed(q.tab)
    BY <2>1 DEF IsLoad
  <2>3. \A r \in DOMAIN Listed(q.tab) : server[r] # "absent"
    BY <2>1, PageFacts DEF Listed, IsLoad
  <2>4. /\ flight' = (flight \ {q}) \cup {a} /\ Loads' = (Loads \ {q}) \cup {a} /\ Commands' = Commands
        /\ UNCHANGED <<server, touched, shown, copy, creating>>
    BY <1>1, <2>1, <2>2, AnswerFacts DEF ServeLoad, Answer
  <2> HIDE DEF a
  <2>5. Existing'
    BY <2>2, <2>3, <2>4 DEF Existing, Exists
  <2>6. FormsAreGuarded'
    BY <2>2, <2>4 DEF FormsAreGuarded
  <2> QED
    BY <2>5, <2>6
<1>2. CASE Execute(q)
  <2>1. PICK a : /\ q \in Commands /\ IsAnswerTo(a, q) /\ (Done(q, a) \/ Vanished(a) \/ Refused(q, a))
                 /\ flight' = (flight \ {q}) \cup {a}
                 /\ Commands' = (Commands \ {q}) \cup {a} /\ Loads' = Loads
    BY <1>2, ExecuteFacts
  <2>2. UNCHANGED <<shown, copy, creating>> /\ \A r \in Rows : Exists(r) => Exists(r)'
    BY <1>2, RowsStay DEF Execute, Next, Serve
  <2>3. a.answer = "ok" => Exists(a.row)'
    <3>1. ASSUME Done(q, a) PROVE Exists(q.row)'
      <4>1. q.row \in Rows /\ q.to \in page.statuses /\ "absent" \notin page.statuses
        BY <2>1, Kinds, PageFacts DEF IsCommand
      <4>2. CASE Again(q)
        BY <2>2, <4>1, <4>2 DEF Again, Exists
      <4>3. CASE ~Again(q)
        BY <1>2, <3>1, <4>1, <4>3, WriteFacts DEF Done, Exists
      <4> QED
        BY <4>2, <4>3
    <3> QED
      BY <2>1, <3>1 DEF IsAnswerTo, Vanished, Refused
  <2>4. Existing'
    <3>1. \A r \in DOMAIN shown' : Exists(r)'
      BY <2>2 DEF Existing, TypeInv, IsRows
    <3>2. \A l \in Loads' : l.answer = "ok" => \A r \in DOMAIN l.rows : Exists(r)'
      BY <2>1, <2>2, Kinds DEF Existing, IsLoad, IsRows
    <3>3. copy' # None => \A r : r = copy'.row => Exists(r)'
      BY <2>2 DEF Existing, TypeInv, IsCopy
    <3>4. \A c \in Commands' : c.from # "form" \/ c.answer = "ok" => Exists(c.row)'
      BY <2>1, <2>2, <2>3, Kinds DEF Existing, IsCommand, IsAnswerTo
    <3> QED
      BY <3>1, <3>2, <3>3, <3>4 DEF Existing
  <2>5. FormsAreGuarded'
    BY <2>1, <2>2 DEF FormsAreGuarded, IsAnswerTo
  <2> QED
    BY <2>4, <2>5
<1>3. CASE Fail(q)
  <2> DEFINE a == [q EXCEPT !.answer = "failed"]
  <2>1. a.kind = q.kind /\ a.frees = q.frees /\ a.answer = "failed"
    BY Kinds DEF IsLoad, IsCommand
  <2>2. q \in Commands => a.row = q.row /\ a.from = q.from /\ a.group = q.group
    BY Kinds DEF IsCommand
  <2>3. /\ flight' = (flight \ {q}) \cup {a}
        /\ \/ q \in Loads /\ Loads' = (Loads \ {q}) \cup {a} /\ Commands' = Commands
           \/ q \in Commands /\ Commands' = (Commands \ {q}) \cup {a} /\ Loads' = Loads
        /\ UNCHANGED <<server, touched, shown, copy, creating>>
    BY <1>3, <2>1, AnswerFacts, Kinds DEF Fail, Answer
  <2> HIDE DEF a
  <2>4. Existing'
    BY <2>1, <2>2, <2>3 DEF Existing, Exists
  <2>5. FormsAreGuarded'
    BY <2>1, <2>2, <2>3 DEF FormsAreGuarded
  <2> QED
    BY <2>4, <2>5
<1> QED
  BY <1>1, <1>2, <1>3

LEMMA DeliveringKeepsExist ==
  ASSUME TypeInv, ExistInv, NEW q \in flight, DeliverLoad(q) \/ Succeed(q) \/ GiveUp(q)
  PROVE  ExistInv'
<1> USE DEF ExistInv, serverVars, stateVars, netVars, history
<1>1. Free(q.frees) /\ (q.frees = "form" => \A p \in flight \ {q} : p.frees # "form") =>
        \A p \in flight \ {q} : p.frees = "form" => creating'
  BY DEF FormsAreGuarded, Free
<1>2. q.frees = "form" => \A p \in flight \ {q} : p.frees # "form"
  BY DEF FormsAreGuarded
<1>3. \A r : Exists(r) => Exists(r)'
  BY DEF DeliverLoad, Succeed, GiveUp, Exists
<1>4. CASE DeliverLoad(q)
  <2>1. q \in Loads /\ Loads' = Loads \ {q} /\ Commands' = Commands /\ flight' = flight \ {q}
    BY <1>4, Kinds DEF DeliverLoad, Loads, Commands
  <2>2. UNCHANGED copy /\ Free(q.frees) /\ (UNCHANGED shown \/ (q.answer = "ok" /\ shown' = q.rows))
    BY <1>4 DEF DeliverLoad
  <2>3. Existing'
    BY <1>3, <2>1, <2>2 DEF Existing
  <2>4. FormsAreGuarded'
    BY <1>1, <1>2, <2>1, <2>2 DEF FormsAreGuarded
  <2> QED
    BY <2>3, <2>4
<1>5. CASE Succeed(q)
  <2>1. q \in Commands /\ Commands' = Commands \ {q} /\ (LoadedAgain(q) \/ Awaited(q) \/ Replaced(q) \/ HasLeft(q))
    BY <1>5, SucceedFacts
  <2>2. Existing'
    <3>1. DOMAIN shown' = DOMAIN shown
      BY <2>1 DEF LoadedAgain, Awaited, Replaced, HasLeft
    <3>2. \A l \in Loads' : l.answer = "ok" => l \in Loads
      BY <2>1, RowsAssumption DEF LoadedAgain, Awaited, Replaced, HasLeft
    <3>3. copy' = None \/ (copy # None /\ copy'.row = copy.row)
      BY <1>5 DEF Succeed, CopyAfter, TypeInv, IsCopy
    <3> QED
      BY <1>3, <2>1, <3>1, <3>2, <3>3 DEF Existing
  <2>3. FormsAreGuarded'
    <3>1. \A c, d \in Commands' : c.group = d.group /\ c.from # "bulk" => c = d
      BY <2>1 DEF FormsAreGuarded
    <3>2. CASE LoadedAgain(q)
      BY <1>2, <3>1, <3>2 DEF LoadedAgain, FormsAreGuarded
    <3>3. CASE ~LoadedAgain(q)
      BY <1>1, <1>2, <2>1, <3>1, <3>3 DEF Awaited, Replaced, HasLeft, FormsAreGuarded
    <3> QED
      BY <3>2, <3>3
  <2> QED
    BY <2>2, <2>3
<1>6. CASE GiveUp(q)
  <2>1. PICK new : /\ q \in Commands /\ GivenUp(q, new) /\ UNCHANGED <<shown, copy>>
    BY <1>6, GiveUpFacts DEF GiveUp
  <2>2. Existing'
    <3>1. \A l \in Loads' : l.answer = "ok" => l \in Loads
      BY <2>1, RowsAssumption DEF GivenUp
    <3>2. \A e \in Commands' : \E d \in Commands : e.from = d.from /\ e.answer = d.answer /\ e.row = d.row
      BY <2>1 DEF GivenUp, Alike
    <3> QED
      BY <1>3, <2>1, <3>1, <3>2 DEF Existing
  <2>3. FormsAreGuarded'
    <3>1. ASSUME NEW c \in Commands', NEW d \in Commands', c.group = d.group, c.from # "bulk" PROVE c = d
      <4>1. CASE Mates(q) = {}
        BY <2>1, <3>1, <4>1 DEF GivenUp, FormsAreGuarded
      <4>2. CASE Mates(q) # {}
        <5>1. PICK b \in Commands, e \in Commands : Alike(c, b) /\ Alike(d, e)
          BY <2>1 DEF GivenUp
        <5>2. b = e
          BY <3>1, <5>1 DEF Alike, FormsAreGuarded
        <5>3. c.id = d.id
          BY <5>1, <5>2 DEF Alike
        <5>4. c \in flight' /\ d \in flight'
          BY DEF Commands
        <5>5. FlightFits(flight)'
          BY <1>6, DeliveringTypes DEF TypeInv
        <5> QED
          BY <5>3, <5>4, <5>5 DEF FlightFits
      <4> QED
        BY <4>1, <4>2
    <3>2. \A e \in Commands' : \E d \in flight \ {q} : e.frees = d.frees /\ e.id = d.id
      BY <2>1 DEF GivenUp, Alike, Commands
    <3>3. \A l \in Loads' : l \notin new => l \in flight \ {q}
      BY <2>1, Kinds DEF GivenUp
    <3>4. \A p \in flight' : p \notin new => \E d \in flight \ {q} : p.frees = d.frees /\ p.id = d.id
      BY <2>1, <3>2, <3>3 DEF GivenUp
    <3>5. \A p \in flight' : p.frees = "form" => creating'
      BY <1>1, <1>2, <2>1, <3>4 DEF GivenUp, FormsAreGuarded
    <3>6. ASSUME NEW p \in flight', NEW r \in flight', p.frees = "form", r.frees = "form" PROVE p = r
      <4>1. CASE p \in new \/ r \in new
        BY <1>2, <2>1, <3>4, <3>6, <4>1 DEF GivenUp
      <4>2. CASE p \notin new /\ r \notin new
        <5>1. p.id = r.id
          BY <3>4, <3>6, <4>2 DEF FormsAreGuarded
        <5>2. FlightFits(flight)'
          BY <1>6, DeliveringTypes DEF TypeInv
        <5> QED
          BY <5>1, <5>2 DEF FlightFits
      <4> QED
        BY <4>1, <4>2
    <3> QED
      BY <3>1, <3>5, <3>6 DEF FormsAreGuarded
  <2> QED
    BY <2>2, <2>3
<1> QED
  BY <1>4, <1>5, <1>6

LEMMA ExistStep ==
  ASSUME TypeInv, ExistInv, [Next]_vars
  PROVE  ExistInv'
<1>1. CASE Serve
  BY <1>1, ServingKeepsExist DEF Serve
<1>2. CASE Deliver
  BY <1>2, DeliveringKeepsExist DEF Deliver
<1>3. ASSUME UNCHANGED vars \/ \E r \in Rows : Other(r) PROVE ExistInv'
  <2>1. UNCHANGED <<shown, copy, flight, creating>>
    BY <1>3 DEF Other, vars, stateVars, netVars
  <2>2. Loads' = Loads /\ Commands' = Commands
    BY <2>1 DEF Loads, Commands
  <2>3. \A r \in Rows : Exists(r) => Exists(r)'
    BY RowsStay
  <2>4. Existing'
    BY <2>1, <2>2, <2>3, Kinds DEF ExistInv, Existing, TypeInv, IsRows, IsCopy, IsLoad, IsCommand
  <2> QED
    BY <2>1, <2>2, <2>4 DEF ExistInv, FormsAreGuarded
<1> QED
  BY <1>1, <1>2, <1>3, UserKeepsExist DEF Next

-----------------------------------------------------------------------------
(* Clicks do not meet: the user *)

(* What NoClickTwice sets aside stays set aside.                            *)
LEMMA CleanBefore ==
  ASSUME TypeInv, [Next]_vars, Clean'
  PROVE  Clean
<1>1. ASSUME page' = page, overlapped => overlapped', overtaken => overtaken', outdated => outdated', lost => lost'
      PROVE  Clean
  BY <1>1 DEF Clean
<1> USE DEF serverVars, stateVars, netVars, history
<1>2. CASE User
  BY <1>1, <1>2 DEF User, Select, Retry, Close, Create, Click, Open, ClickCopy, ClickBulk, Send
<1>3. ASSUME NEW q \in flight, ServeLoad(q) \/ Fail(q) PROVE Clean
  BY <1>1, <1>3 DEF ServeLoad, Fail
<1>4. ASSUME NEW q \in flight, Execute(q) PROVE Clean
  <2>1. page' = page /\ UNCHANGED <<overlapped, outdated>> /\ (overtaken => overtaken')
    BY <1>4 DEF Execute
  <2>2. lost => lost'
    BY <1>4 DEF Execute
  <2> QED
    BY <1>1, <2>1, <2>2
<1>5. ASSUME NEW q \in flight, DeliverLoad(q) \/ Succeed(q) \/ GiveUp(q) PROVE Clean
  <2>1. overtaken => overtaken'
    BY <1>5 DEF DeliverLoad, Succeed, GiveUp, Overtakes
  <2>2. UNCHANGED <<page, overlapped, outdated>>
    BY <1>5 DEF DeliverLoad, Succeed, GiveUp
  <2>3. lost => lost'
    BY <1>5 DEF DeliverLoad, Succeed, GiveUp
  <2> QED
    BY <1>1, <2>1, <2>2, <2>3
<1>6. ASSUME UNCHANGED vars \/ \E r \in Rows : Other(r) PROVE Clean
  BY <1>1, <1>6 DEF vars, Other
<1> QED
  BY <1>2, <1>3, <1>4, <1>5, <1>6 DEF Next, Serve, Deliver

(* A control sends commands that find their rows as it showed them, if no   *)
(* other command for these rows is on its way.                              *)
LEMMA SendKeepsClicks ==
  ASSUME TypeInv, ClicksAgree, NEW targets \in SUBSET Rows, NEW to, NEW seen, NEW from, NEW frees,
         Send(targets, to, seen, from, frees), ~overlapped',
         UNCHANGED <<page, server, told, asOf, shown, copy, phase, touched, surprised>>,
         IF frees = "row" THEN from # "bulk" /\ \E r : targets = {r} /\ ~Disabled(r) /\ busy' \in {r, "page"}
                          ELSE busy' = busy,
         \A r \in targets \ touched :
           seen[r] = server[r] /\ \A d \in Commands : d.row = r => d.answer # None
  PROVE  ClicksAgree'
<1>1. PICK new : /\ AreSent(new, targets, to, seen, from, frees)
                 /\ flight' = flight \cup new /\ Loads' = Loads /\ Commands' = Commands \cup new
  BY SendFacts
<1>2. /\ \A c \in Commands : {c.row} = targets /\ c.from # "bulk" /\ from # "bulk"
      /\ frees = "row" => \A q \in Loads : q.frees # "row"
  BY DEF Send
<1>3. ASSUME NEW c \in new
      PROVE  /\ c.kind = "command" /\ c.answer # "ok" /\ c.row \in targets /\ c.seen = seen[c.row]
             /\ c.frees = frees /\ c.from = from /\ c.group = issued + 1 /\ c.waited
  BY <1>1, RowsAssumption DEF AreSent
<1>4. \A c, d \in new : c.row = d.row => c = d
  BY <1>1 DEF AreSent
<1>5. RowsAreGuarded'
  <2>1. frees = "row" => \A q \in flight : q.frees # "row"
    <3> SUFFICES ASSUME frees = "row", NEW q \in Commands, q.frees = "row" PROVE FALSE
      BY <1>2, Kinds
    <3>1. PICK r : targets = {r} /\ ~Disabled(r)
      OBVIOUS
    <3>2. q.row = r /\ q.kind = "command" /\ q \in flight
      BY <1>2, <3>1 DEF Commands
    <3> QED
      BY <3>1, <3>2 DEF ClicksAgree, RowsAreGuarded, Disabled
  <2>2. \A c, d \in new : frees = "row" => c = d
    BY <1>3, <1>4
  <2>3. \A q \in flight' : q.frees = "row" /\ q.kind = "command" => busy' \in {q.row, "page"}
    BY <1>1, <1>3, <2>1 DEF ClicksAgree, RowsAreGuarded
  <2>4. \A p, q \in flight' : p.frees = "row" /\ q.frees = "row" => p = q
    BY <1>1, <1>3, <2>1, <2>2 DEF ClicksAgree, RowsAreGuarded
  <2>5. \A c \in Commands' : c.waited
    BY <1>1, <1>3 DEF ClicksAgree, RowsAreGuarded
  <2>6. \A c, d \in Commands' : c.from = "bulk" => d.from = "bulk" /\ d.group = c.group
    BY <1>1, <1>2, <1>3
  <2> QED
    BY <2>3, <2>4, <2>5, <2>6 DEF RowsAreGuarded
<1>6. ASSUME NEW r \in Rows \ touched PROVE Known(r)'
  <2>1. Known(r)
    BY DEF ClicksAgree
  <2>2. \A c \in Commands : c \in Commands'
    BY <1>1
  <2>3. \A v : OnItsWay(r, v) => OnItsWay(r, v)'
    BY <2>2 DEF OnItsWay
  <2>4. BeingReloaded => BeingReloaded'
    BY <2>2 DEF BeingReloaded
  <2>5. CommandsKnow(r)'
    <3>1. ASSUME NEW c \in Commands', c.row = r, c.answer = None PROVE server[r] = c.seen
      BY <1>1, <1>3, <2>1, <3>1 DEF Known, CommandsKnow
    <3>2. ASSUME NEW c \in Commands', NEW d \in Commands', c.row = r, d.row = r, c.answer = None, d.answer = None
          PROVE  c = d
      BY <1>1, <1>3, <1>4, <2>1, <3>2 DEF Known, CommandsKnow
    <3>3. ASSUME NEW c \in Commands', c.row = r, c.answer = "ok" PROVE server[r] = c.to \/ OnItsWay(r, c.version)'
      BY <1>1, <1>3, <2>1, <2>3, <3>3 DEF Known, CommandsKnow
    <3> QED
      BY <3>1, <3>2, <3>3 DEF CommandsKnow
  <2>6. LoadsKnow(r)'
    BY <1>1, <2>1, <2>2 DEF Known, LoadsKnow
  <2>7. ListKnows(r)' /\ CopyKnows(r)'
    BY <2>1, <2>3, <2>4 DEF Known, ListKnows, CopyKnows
  <2>8. FormKnows(r)'
    BY <2>1, <2>2 DEF Known, FormKnows
  <2> QED
    BY <2>5, <2>6, <2>7, <2>8 DEF Known
<1> QED
  BY <1>5, <1>6 DEF ClicksAgree

(* Where a control is enabled and nothing else is on its way for another    *)
(* row, nothing is on its way for its own.                                  *)
LEMMA EnabledMeansIdle ==
  ASSUME TypeInv, ExistInv, ClicksAgree, NEW r \in Rows \ touched, server[r] # "absent", ~Disabled(r),
         \A c \in Commands : c.row = r /\ c.from # "bulk"
  PROVE  /\ \A d \in Commands : d.row = r => d.answer # None
         /\ \A v : ~OnItsWay(r, v)
<1>1. ASSUME NEW c \in Commands PROVE c.from = "form"
  <2>1. IsCommand(c) /\ c \in flight /\ c.kind = "command"
    BY Kinds DEF IsCommand
  <2> SUFFICES ASSUME c.from # "form" PROVE FALSE
    OBVIOUS
  <2>2. c.frees = "row"
    BY <2>1 DEF IsCommand, Sources
  <2> QED
    BY <2>1, <2>2 DEF ClicksAgree, RowsAreGuarded, Disabled
<1>2. \A c \in Commands : c.seen = "absent"
  BY <1>1, Kinds DEF IsCommand
<1> QED
  BY <1>1, <1>2 DEF ClicksAgree, Known, CommandsKnow, OnItsWay

LEMMA ControlsKeepClicks ==
  ASSUME TypeInv, ExistInv, ClicksAgree, Clean',
         \/ \E r \in Rows, to \in page.statuses : Click(r, to)
         \/ \E to \in page.statuses : ClickCopy(to)
         \/ Create
         \/ \E targets \in SUBSET Rows, to \in page.statuses : ClickBulk(targets, to)
  PROVE  ClicksAgree'
<1> USE DEF serverVars, stateVars, netVars, history
<1>1. ~overlapped' /\ ~outdated'
  BY DEF Clean
<1>2. page' = page /\ page.guard \in {"row", "page"}
  <2>1. page' = page
    BY DEF Click, ClickCopy, Create, ClickBulk
  <2> QED
    BY <2>1, PageFacts DEF Clean, Guards
<1>3. ASSUME NEW r PROVE GuardFor(r) \in {r, "page"}
  BY <1>2 DEF GuardFor
<1>4. ASSUME NEW r \in Rows, NEW to \in page.statuses, Click(r, to) PROVE ClicksAgree'
  <2>1. /\ Send({r}, to, shown, "list", "row") /\ ~Disabled(r) /\ RowsVisible /\ r \in DOMAIN shown
        /\ busy' = GuardFor(r)
        /\ UNCHANGED <<page, server, told, asOf, shown, copy, phase, touched, surprised>>
    BY <1>4 DEF Click
  <2>2. \A c \in Commands : c.row = r /\ c.from # "bulk"
    BY <1>1, <2>1 DEF Send
  <2>3. ASSUME NEW x \in {r} \ touched
        PROVE  shown[x] = server[x] /\ \A d \in Commands : d.row = x => d.answer # None
    <3>1. server[r] # "absent"
      BY <2>1, <2>3 DEF ExistInv, Existing, Exists
    <3>2. /\ \A d \in Commands : d.row = r => d.answer # None
          /\ \A v : ~OnItsWay(r, v)
      BY <2>1, <2>2, <2>3, <3>1, EnabledMeansIdle
    <3>3. ~BeingReloaded
      BY <2>1, <2>2, PageFacts DEF BeingReloaded, RowsVisible
    <3>4. ListKnows(r)
      BY <2>3 DEF ClicksAgree, Known
    <3> QED
      BY <2>1, <3>2, <3>3, <3>4 DEF ListKnows
  <2> QED
    BY <1>1, <1>3, <2>1, <2>3, SendKeepsClicks
<1>5. ASSUME NEW to \in page.statuses, ClickCopy(to) PROVE ClicksAgree'
  <2> DEFINE r == copy.row
             seen == [x \in {r} |-> copy.status]
  <2>1. /\ Send({r}, to, seen, "copy", "row") /\ ~Disabled(r) /\ copy # None
        /\ busy' = GuardFor(r)
        /\ outdated' = (outdated \/ copy.asOf < told[r])
        /\ UNCHANGED <<page, server, told, asOf, shown, copy, phase, touched, surprised>>
    BY <1>5 DEF ClickCopy
  <2>2. \A c \in Commands : c.row = r /\ c.from # "bulk"
    BY <1>1, <2>1 DEF Send
  <2>3. r \in Rows /\ {r} \in SUBSET Rows
    BY <2>1 DEF TypeInv, IsCopy
  <2>4. ASSUME NEW x \in {r} \ touched
        PROVE  seen[x] = server[x] /\ \A d \in Commands : d.row = x => d.answer # None
    <3>1. server[r] # "absent"
      BY <2>1, <2>4 DEF ExistInv, Existing, Exists
    <3>2. /\ \A d \in Commands : d.row = r => d.answer # None
          /\ \A v : ~OnItsWay(r, v)
      BY <2>1, <2>2, <2>3, <2>4, <3>1, EnabledMeansIdle
    <3>3. CopyKnows(r)
      BY <2>3, <2>4 DEF ClicksAgree, Known
    <3> QED
      BY <1>1, <2>1, <3>2, <3>3 DEF CopyKnows
  <2>5. busy' \in {r, "page"}
    BY <1>3, <2>1
  <2> HIDE DEF seen, r
  <2> QED
    BY <1>1, <2>1, <2>3, <2>4, <2>5, SendKeepsClicks
<1>6. CASE Create
  <2> DEFINE frees == IF page.formShares THEN "row" ELSE "form"
             seen  == [x \in {NewRow} |-> "absent"]
  <2>1. /\ Send({NewRow}, page.first, seen, "form", frees)
        /\ page.creates /\ told[NewRow] = 0
        /\ UNCHANGED <<page, server, told, asOf, shown, copy, phase, touched, surprised>>
    BY <1>6 DEF Create
  <2>2. IF page.formShares THEN ~Disabled(NewRow) /\ busy' = "page" ELSE ~creating /\ busy' = busy
    BY <1>6 DEF Create
  <2>3. \A c \in Commands : c.row = NewRow /\ c.from # "bulk"
    BY <1>1, <2>1 DEF Send
  <2>4. \A c \in Commands : c.from # "form"
    <3> SUFFICES ASSUME NEW c \in Commands, c.from = "form" PROVE FALSE
      OBVIOUS
    <3>1. IsCommand(c) /\ c \in flight /\ c.kind = "command" /\ c.frees = frees
      BY Kinds DEF IsCommand
    <3> QED
      BY <2>2, <2>3, <3>1 DEF ClicksAgree, RowsAreGuarded, Disabled, ExistInv, FormsAreGuarded
  <2>5. ASSUME NEW x \in {NewRow} \ touched
        PROVE  seen[x] = server[x] /\ \A d \in Commands : d.row = x => d.answer # None
    <3>1. FormKnows(NewRow)
      BY <2>5, NewRowAssumption DEF ClicksAgree, Known
    <3>2. server[NewRow] = "absent"
      BY <2>1, <2>4, <3>1 DEF FormKnows
    <3>3. Commands = {}
      BY <2>3, <2>4, <2>5, <3>2 DEF ExistInv, Existing, Exists
    <3> QED
      BY <3>2, <3>3
  <2>6. IF frees = "row" THEN "form" # "bulk" /\ \E r : {NewRow} = {r} /\ ~Disabled(r) /\ busy' \in {r, "page"}
                         ELSE busy' = busy
    BY <2>2
  <2>7. {NewRow} \in SUBSET Rows
    BY NewRowAssumption
  <2> HIDE DEF seen, frees
  <2> QED
    BY <1>1, <2>1, <2>5, <2>6, <2>7, SendKeepsClicks
<1>7. ASSUME NEW targets \in SUBSET Rows, NEW to \in page.statuses, ClickBulk(targets, to) PROVE ClicksAgree'
  <2>1. /\ Send(targets, to, shown, "bulk", "nothing")
        /\ targets \subseteq DOMAIN shown
        /\ outdated' = (outdated \/ ~RowsVisible)
        /\ UNCHANGED <<page, server, told, asOf, shown, copy, phase, touched, surprised, busy>>
    BY <1>7 DEF ClickBulk
  <2>2. Commands = {}
    BY <1>1, <2>1 DEF Send
  <2>3. ASSUME NEW x \in targets \ touched
        PROVE  shown[x] = server[x] /\ \A d \in Commands : d.row = x => d.answer # None
    <3>1. ListKnows(x)
      BY <2>3 DEF ClicksAgree, Known
    <3>2. ~BeingReloaded /\ \A v : ~OnItsWay(x, v)
      BY <1>1, <2>1, <2>2, PageFacts DEF BeingReloaded, RowsVisible, OnItsWay
    <3> QED
      BY <2>1, <2>2, <2>3, <3>1, <3>2 DEF ListKnows
  <2> QED
    BY <1>1, <2>1, <2>3, SendKeepsClicks
<1> QED
  BY <1>4, <1>5, <1>6, <1>7

LEMMA UserKeepsClicks ==
  ASSUME TypeInv, ExistInv, ClicksAgree, Clean', User
  PROVE  ClicksAgree'
<1> USE DEF serverVars, stateVars, netVars, history
<1>1. ASSUME StartLoad(tab', "nothing", flight),
             UNCHANGED <<page, server, told, asOf, shown, copy, busy, touched, surprised>>
      PROVE  ClicksAgree'
  <2>1. PICK l : /\ l.kind = "load" /\ l.frees = "nothing" /\ l.answer = None /\ flight' = flight \cup {l}
                 /\ phase' = "loading"
                 /\ Loads' = {q \in flight : q.kind = "load"} \cup {l}
                 /\ Commands' = {q \in flight : q.kind = "command"}
    BY <1>1, StartLoadFacts
  <2>2. Loads' = Loads \cup {l} /\ Commands' = Commands /\ l.answer # "ok"
    BY <2>1, RowsAssumption DEF Loads, Commands
  <2>3. RowsAreGuarded'
    BY <1>1, <2>1, <2>2 DEF ClicksAgree, RowsAreGuarded
  <2>4. ASSUME NEW r \in Rows \ touched PROVE Known(r)'
    <3>1. CommandsKnow(r)' /\ LoadsKnow(r)' /\ CopyKnows(r)' /\ FormKnows(r)'
      BY <1>1, <2>2 DEF ClicksAgree, Known, CommandsKnow, LoadsKnow, CopyKnows, FormKnows, OnItsWay
    <3>2. ListKnows(r)'
      BY <1>1, <2>1, <2>2 DEF ClicksAgree, Known, ListKnows, OnItsWay, BeingReloaded
    <3> QED
      BY <3>1, <3>2 DEF Known
  <2> QED
    BY <1>1, <2>3, <2>4 DEF ClicksAgree
<1>2. ASSUME NEW t \in page.tabs, Select(t) PROVE ClicksAgree'
  BY <1>1, <1>2 DEF Select
<1>3. CASE Retry
  BY <1>1, <1>3 DEF Retry
<1>4. ASSUME UNCHANGED <<page, server, told, asOf, shown, phase, busy, flight, touched, surprised>>,
             \A r \in Rows \ touched : CopyKnows(r)'
      PROVE  ClicksAgree'
  <2>1. Loads' = Loads /\ Commands' = Commands
    BY <1>4 DEF Loads, Commands
  <2> QED
    BY <1>4, <2>1 DEF ClicksAgree, RowsAreGuarded, Known, CommandsKnow, LoadsKnow, ListKnows, FormKnows,
                      OnItsWay, BeingReloaded
<1>5. CASE Close
  BY <1>4, <1>5 DEF Close, CopyKnows
<1>6. ASSUME NEW r \in Rows, Open(r) PROVE ClicksAgree'
  <2>1. UNCHANGED <<page, server, told, asOf, shown, phase, busy, flight, touched, surprised>>
    BY <1>6 DEF Open
  <2>2. /\ RowsVisible /\ r \in DOMAIN shown /\ page.copyOffers[shown[r]] # {}
        /\ copy' = [row |-> r, status |-> shown[r], asOf |-> asOf[r]]
    BY <1>6 DEF Open
  <2>3. ~BeingReloaded
    <3>1. ~page.bulk
      BY <2>2, PageFacts DEF TypeInv, IsRows
    <3>2. \A c \in Commands : c.from # "bulk"
      BY <3>1, Kinds DEF IsCommand
    <3> QED
      BY <2>2, <3>2, PageFacts DEF BeingReloaded, RowsVisible
  <2>4. ASSUME NEW x \in Rows \ touched PROVE CopyKnows(x)'
    <3>1. ListKnows(x)
      BY <2>4 DEF ClicksAgree, Known
    <3>2. x = r => copy'.status = server[x] \/ OnItsWay(x, copy'.asOf)
      BY <2>2, <2>3, <3>1 DEF ListKnows
    <3>3. \A v : OnItsWay(x, v) => OnItsWay(x, v)'
      BY <2>1 DEF OnItsWay, Commands
    <3> QED
      BY <2>1, <2>2, <3>2, <3>3 DEF CopyKnows
  <2> QED
    BY <1>4, <2>1, <2>4
<1> QED
  BY <1>2, <1>3, <1>5, <1>6, ControlsKeepClicks DEF User

-----------------------------------------------------------------------------
(* Clicks do not meet: the API and the other users *)

(* An answer leaves the guards as they are.                                 *)
LEMMA AnswersKeepGuards ==
  ASSUME TypeInv, RowsAreGuarded, NEW q \in flight, NEW a,
         a.kind = q.kind, a.frees = q.frees, q \in Commands => IsAnswerTo(a, q),
         flight' = (flight \ {q}) \cup {a}, UNCHANGED busy
  PROVE  RowsAreGuarded'
<1>1. \A p \in flight' : p # a => p \in flight /\ p # q
  OBVIOUS
<1>2. \A c \in Commands' : c # a => c \in Commands
  BY <1>1 DEF Commands
<1>3. a \in Commands' => q \in Commands /\ IsAnswerTo(a, q)
  BY DEF Commands
<1>4. \A p \in flight' : p.frees = "row" /\ p.kind = "command" => busy' \in {p.row, "page"}
  BY <1>1, <1>3 DEF RowsAreGuarded, Commands, IsAnswerTo
<1>5. \A p, r \in flight' : p.frees = "row" /\ r.frees = "row" => p = r
  BY <1>1 DEF RowsAreGuarded
<1>6. \A c \in Commands' : c.waited
  BY <1>2, <1>3 DEF RowsAreGuarded, IsAnswerTo
<1>7. \A c, d \in Commands' : c.from = "bulk" => d.from = "bulk" /\ d.group = c.group
  BY <1>2, <1>3 DEF RowsAreGuarded, IsAnswerTo
<1> QED
  BY <1>4, <1>5, <1>6, <1>7 DEF RowsAreGuarded

(* A command that changed nothing of row r leaves what is known of it.      *)
LEMMA NoNewsOfRow ==
  ASSUME TypeInv, NEW r \in Rows, Known(r), NEW c \in Commands, NEW a, IsAnswerTo(a, c),
         c.answer = None, a.answer # None, a.answer = "ok" => c.row # r,
         Commands' = (Commands \ {c}) \cup {a}, Loads' = Loads, server'[r] = server[r],
         UNCHANGED <<page, phase, told, shown, asOf, copy>>
  PROVE  Known(r)'
<1>1. \A d \in Commands : d.answer = "ok" => d \in Commands'
  BY RowsAssumption
<1>2. \A d \in Commands' : d.row = r => d \in Commands \/ (d.answer # "ok" /\ d.answer # None)
  BY DEF IsAnswerTo
<1>3. \A v : OnItsWay(r, v) => OnItsWay(r, v)'
  BY <1>1 DEF OnItsWay
<1>4. BeingReloaded => BeingReloaded'
  BY DEF BeingReloaded, IsAnswerTo
<1>5. CommandsKnow(r)'
  BY <1>2, <1>3 DEF Known, CommandsKnow
<1>6. LoadsKnow(r)'
  BY <1>1 DEF Known, LoadsKnow
<1>7. ListKnows(r)' /\ CopyKnows(r)'
  BY <1>3, <1>4 DEF Known, ListKnows, CopyKnows
<1>8. FormKnows(r)'
  BY <1>1 DEF Known, FormKnows
<1> QED
  BY <1>5, <1>6, <1>7, <1>8 DEF Known

(* A command that was carried out is news of its row, ahead of all that was *)
(* read before.                                                             *)
LEMMA NewsOfRow ==
  ASSUME TypeInv, OrderInv, ExistInv, NEW c \in Commands, Execute(c), c.row \notin touched, Known(c.row),
         NEW a, IsAnswerTo(a, c), Done(c, a), ~overtaken',
         Commands' = (Commands \ {c}) \cup {a}, Loads' = Loads
  PROVE  Known(c.row)'
<1> USE DEF serverVars, stateVars, history
<1> DEFINE r == c.row
<1>1. r \in Rows /\ c.answer = None /\ IsCommand(c) /\ c.id \in Nat /\ c \in flight
  BY Kinds DEF Execute, IsCommand
<1>2. server[r] = c.seen
  BY <1>1 DEF Known, CommandsKnow
<1>3. server'[r] = c.to /\ version'[r] = version[r] + 1 /\ version[r] \in Nat
  <2>1. ~Again(c)
    BY <1>2 DEF Again
  <2> QED
    BY <1>1, <2>1, WriteFacts DEF Done, TypeInv
<1>4. /\ a \in Commands' /\ a.answer = "ok" /\ a.version = version[r] + 1 /\ a.to = c.to /\ a.row = r
      /\ a.id = c.id /\ a.from = c.from
  BY <1>3 DEF Done, IsAnswerTo
<1>5. UNCHANGED <<page, phase, told, shown, asOf, copy>>
  BY DEF Execute
<1>6. ASSUME NEW v \in Nat, v <= version[r], a.from # "form" PROVE OnItsWay(r, v)'
  BY <1>3, <1>4, <1>6 DEF OnItsWay
<1>7. server[r] # "absent" => a.from # "form"
  BY <1>1, <1>2, <1>4 DEF IsCommand
<1>8. CommandsKnow(r)'
  <2>1. ASSUME NEW d \in Commands', d.row = r, d.answer = None PROVE FALSE
    <3>1. d \in Commands /\ d # c
      BY <1>4, <2>1, RowsAssumption
    <3> QED
      BY <1>1, <2>1, <3>1 DEF Known, CommandsKnow
  <2>2. ASSUME NEW d \in Commands', d.row = r, d.answer = "ok" PROVE server'[r] = d.to \/ OnItsWay(r, d.version)'
    <3>1. CASE d = a
      BY <1>3, <1>4, <3>1
    <3>2. CASE d # a
      <4>1. d \in Commands /\ IsCommand(d)
        BY <3>2, Kinds
      <4>2. d.version \in Nat /\ d.version <= version[r] /\ server[r] # "absent"
        BY <2>2, <4>1 DEF OrderInv, Ages, ExistInv, Existing, Exists, IsCommand
      <4> QED
        BY <1>6, <1>7, <4>2
    <3> QED
      BY <3>1, <3>2
  <2> QED
    BY <2>1, <2>2 DEF CommandsKnow
<1>9. LoadsKnow(r)'
  <2> SUFFICES ASSUME NEW l \in Loads, l.answer = "ok", r \in DOMAIN l.rows
               PROVE  /\ a.from # "form" /\ l.asOf[r] < a.version /\ l.id < a.id
    BY <1>4 DEF LoadsKnow
  <2>1. IsLoad(l) /\ l \in flight /\ l.kind = "load" /\ l # c
    BY Kinds DEF IsLoad
  <2>2. a.from # "form"
    BY <1>7 DEF ExistInv, Existing, Exists
  <2>3. l.asOf[r] \in Nat /\ l.asOf[r] <= version[r]
    BY <1>1, <2>1 DEF OrderInv, Ages, IsLoad
  <2>4. ~(l.id > c.id)
    BY <2>1, RowsAssumption DEF Execute
  <2>5. l.id # c.id /\ l.id \in Nat
    BY <1>1, <2>1 DEF TypeInv, FlightFits, IsLoad
  <2> QED
    BY <1>1, <1>3, <1>4, <2>2, <2>3, <2>4, <2>5
<1>10. ListKnows(r)'
  <2> SUFFICES ASSUME NEW v, v = asOf[r], r \in DOMAIN shown PROVE OnItsWay(r, v)'
    BY <1>5 DEF ListKnows, OnItsWay
  <2>1. asOf[r] \in Nat /\ asOf[r] <= version[r] /\ server[r] # "absent"
    BY <1>1 DEF TypeInv, OrderInv, Ages, ExistInv, Existing, Exists
  <2> QED
    BY <1>6, <1>7, <2>1
<1>11. CopyKnows(r)'
  <2> SUFFICES ASSUME NEW v, v = copy.asOf, copy # None, copy.row = r PROVE OnItsWay(r, v)'
    BY <1>5 DEF CopyKnows, OnItsWay
  <2>1. copy.asOf \in Nat /\ copy.asOf <= version[r] /\ server[r] # "absent"
    BY <1>1 DEF TypeInv, IsCopy, OrderInv, Ages, ExistInv, Existing, Exists
  <2> QED
    BY <1>6, <1>7, <2>1
<1>12. FormKnows(r)'
  <2>1. CASE a.from = "form"
    BY <1>4, <2>1 DEF FormKnows
  <2>2. CASE a.from # "form"
    <3>1. server[r] # "absent"
      BY <1>4, <2>2 DEF ExistInv, Existing, Exists
    <3>2. \A d \in Commands : d.answer = "ok" => d \in Commands'
      BY <1>1, RowsAssumption
    <3> QED
      BY <1>5, <3>1, <3>2 DEF Known, FormKnows
  <2> QED
    BY <2>1, <2>2
<1> QED
  BY <1>8, <1>9, <1>10, <1>11, <1>12 DEF Known

LEMMA ServingKeepsClicks ==
  ASSUME TypeInv, OrderInv, ExistInv, ClicksAgree, Clean', NEW q \in flight, ServeLoad(q) \/ Execute(q) \/ Fail(q)
  PROVE  ClicksAgree'
<1> USE DEF serverVars, stateVars, netVars, history
<1>1. CASE ServeLoad(q)
  <2> DEFINE a == [q EXCEPT !.answer = "ok", !.rows = Listed(q.tab), !.asOf = version]
  <2>1. q \in Loads /\ IsLoad(q) /\ q \notin Commands
    BY <1>1, Kinds DEF ServeLoad, Loads
  <2>2. a.kind = q.kind /\ a.frees = q.frees /\ a.rows = Listed(q.tab)
    BY <2>1 DEF IsLoad
  <2>3. \A r \in DOMAIN Listed(q.tab) : Listed(q.tab)[r] = server[r]
    BY DEF Listed
  <2>4. /\ flight' = (flight \ {q}) \cup {a} /\ Loads' = (Loads \ {q}) \cup {a} /\ Commands' = Commands
        /\ UNCHANGED <<page, server, phase, told, shown, asOf, copy, busy, touched, surprised>>
    BY <1>1, <2>1, <2>2, AnswerFacts DEF ServeLoad, Answer
  <2> HIDE DEF a
  <2>5. RowsAreGuarded'
    BY <2>1, <2>2, <2>4, AnswersKeepGuards DEF ClicksAgree
  <2>6. ASSUME NEW r \in Rows \ touched PROVE Known(r)'
    <3>1. CommandsKnow(r)' /\ ListKnows(r)' /\ CopyKnows(r)' /\ FormKnows(r)'
      BY <2>4 DEF ClicksAgree, Known, CommandsKnow, ListKnows, CopyKnows, FormKnows, OnItsWay, BeingReloaded
    <3>2. LoadsKnow(r)'
      BY <2>2, <2>3, <2>4 DEF ClicksAgree, Known, LoadsKnow
    <3> QED
      BY <3>1, <3>2 DEF Known
  <2> QED
    BY <2>4, <2>5, <2>6 DEF ClicksAgree
<1>2. CASE Execute(q)
  <2>1. ~overtaken' /\ ~lost'
    BY DEF Clean
  <2>2. PICK a : /\ q \in Commands /\ IsAnswerTo(a, q) /\ (Done(q, a) \/ Refused(q, a))
                 /\ flight' = (flight \ {q}) \cup {a}
                 /\ Commands' = (Commands \ {q}) \cup {a} /\ Loads' = Loads
    BY <1>2, <2>1, ExecuteFacts DEF Vanished
  <2>3. q.row \in Rows /\ q.answer = None /\ a.answer # None /\ a.kind = q.kind /\ a.frees = q.frees
    BY <1>2, <2>2, Kinds, RowsAssumption DEF Execute, IsCommand, Done, Refused, IsAnswerTo
  <2>4. UNCHANGED <<page, phase, told, shown, asOf, copy, busy>> /\ touched \subseteq touched'
    BY <1>2, WriteFacts DEF Execute
  <2>5. RowsAreGuarded'
    BY <2>2, <2>3, <2>4, AnswersKeepGuards DEF ClicksAgree
  <2>6. surprised' \subseteq touched'
    <3>1. q.row \notin touched => server[q.row] = q.seen
      BY <2>2, <2>3 DEF ClicksAgree, Known, CommandsKnow
    <3>2. surprised' = IF server[q.row] # q.seen THEN surprised \cup {q.row} ELSE surprised
      BY <1>2 DEF Execute
    <3> QED
      BY <2>4, <3>1, <3>2 DEF ClicksAgree
  <2>7. ASSUME NEW r \in Rows \ touched' PROVE Known(r)'
    <3>1. Known(r) /\ r \notin touched
      BY <2>4, <2>7 DEF ClicksAgree
    <3>2. CASE r = q.row /\ Done(q, a)
      BY <1>2, <2>1, <2>2, <3>1, <3>2, NewsOfRow
    <3>3. CASE r # q.row \/ Refused(q, a)
      <4>1. server'[r] = server[r]
        BY <1>2, <2>7, <3>3, WriteFacts DEF Refused, Deletes
      <4>2. a.answer = "ok" => q.row # r
        BY <3>3 DEF Refused
      <4> QED
        BY <2>2, <2>3, <2>4, <3>1, <4>1, <4>2, NoNewsOfRow
    <3> QED
      BY <2>2, <3>2, <3>3
  <2> QED
    BY <2>4, <2>5, <2>6, <2>7 DEF ClicksAgree
<1>3. CASE Fail(q)
  <2> DEFINE a == [q EXCEPT !.answer = "failed"]
  <2>1. a.kind = q.kind /\ a.frees = q.frees /\ a.answer = "failed" /\ q.answer = None
    BY <1>3, Kinds DEF Fail, IsLoad, IsCommand
  <2>2. q \in Commands => IsAnswerTo(a, q)
    BY Kinds DEF IsCommand, IsAnswerTo
  <2>3. /\ flight' = (flight \ {q}) \cup {a}
        /\ \/ q \in Loads /\ Loads' = (Loads \ {q}) \cup {a} /\ Commands' = Commands
           \/ q \in Commands /\ Commands' = (Commands \ {q}) \cup {a} /\ Loads' = Loads
        /\ UNCHANGED <<page, server, phase, told, shown, asOf, copy, busy, touched, surprised>>
    BY <1>3, <2>1, AnswerFacts, Kinds DEF Fail, Answer
  <2> HIDE DEF a
  <2>4. RowsAreGuarded'
    BY <2>1, <2>2, <2>3, AnswersKeepGuards DEF ClicksAgree
  <2>5. ASSUME NEW r \in Rows \ touched PROVE Known(r)'
    <3>1. Known(r)
      BY DEF ClicksAgree
    <3>2. CASE Loads' = (Loads \ {q}) \cup {a} /\ Commands' = Commands
      BY <2>1, <2>3, <3>1, <3>2 DEF Known, CommandsKnow, LoadsKnow, ListKnows, CopyKnows, FormKnows,
                                    OnItsWay, BeingReloaded
    <3>3. CASE q \in Commands /\ Commands' = (Commands \ {q}) \cup {a} /\ Loads' = Loads
      BY <2>1, <2>2, <2>3, <3>1, <3>3, NoNewsOfRow, RowsAssumption
    <3> QED
      BY <2>3, <3>2, <3>3
  <2> QED
    BY <2>3, <2>4, <2>5 DEF ClicksAgree
<1> QED
  BY <1>1, <1>2, <1>3

LEMMA OthersKeepClicks ==
  ASSUME ClicksAgree, UNCHANGED vars \/ \E r \in Rows : Other(r), TypeInv
  PROVE  ClicksAgree'
<1> USE DEF vars, serverVars, stateVars, netVars, history
<1>1. /\ UNCHANGED <<page, phase, told, shown, asOf, copy, busy, flight, surprised>>
      /\ touched \subseteq touched'
      /\ \A r \in Rows \ touched' : server'[r] = server[r]
  BY DEF Other, TypeInv
<1>2. Loads' = Loads /\ Commands' = Commands
  BY <1>1 DEF Loads, Commands
<1>3. RowsAreGuarded'
  BY <1>1, <1>2 DEF ClicksAgree, RowsAreGuarded
<1>4. ASSUME NEW r \in Rows \ touched' PROVE Known(r)'
  <2>1. Known(r) /\ server'[r] = server[r]
    BY <1>1, <1>4 DEF ClicksAgree
  <2> QED
    BY <1>1, <1>2, <2>1 DEF Known, CommandsKnow, LoadsKnow, ListKnows, CopyKnows, FormKnows, OnItsWay, BeingReloaded
<1> QED
  BY <1>1, <1>3, <1>4 DEF ClicksAgree

-----------------------------------------------------------------------------
(* Clicks do not meet: the answers *)

(* The guards when the handler of request q goes on: either it is done and  *)
(* frees its control, or a load takes the request's place.                  *)
LEMMA HandlersKeepGuards ==
  ASSUME TypeInv, RowsAreGuarded, NEW q \in flight, Commands' \subseteq Commands,
         \/ flight' = flight \ {q} /\ (Free(q.frees) \/ UNCHANGED busy)
         \/ UNCHANGED busy /\ \E l : l.kind = "load" /\ l.frees = q.frees /\ flight' = (flight \ {q}) \cup {l}
  PROVE  RowsAreGuarded'
<1>1. ASSUME NEW p \in flight', p.frees = "row", p.kind = "command" PROVE busy' \in {p.row, "page"}
  <2>1. p \in flight /\ p # q /\ busy \in {p.row, "page"}
    BY <1>1 DEF RowsAreGuarded
  <2>2. q.frees # "row"
    BY <1>1, <2>1 DEF RowsAreGuarded
  <2> QED
    BY <2>1, <2>2 DEF Free
<1>2. \A p, r \in flight' : p.frees = "row" /\ r.frees = "row" => p = r
  BY DEF RowsAreGuarded
<1> QED
  BY <1>1, <1>2 DEF RowsAreGuarded

LEMMA LoadsKeepClicks ==
  ASSUME TypeInv, ClicksAgree, NEW q \in flight, DeliverLoad(q)
  PROVE  ClicksAgree'
<1> USE DEF serverVars
<1>1. q \in Loads /\ Loads' = Loads \ {q} /\ Commands' = Commands /\ flight' = flight \ {q} /\ Free(q.frees)
  BY Kinds DEF DeliverLoad, Loads, Commands
<1>2. /\ UNCHANGED <<page, server, told, copy, touched, surprised>>
      /\ \/ q.answer = "ok" /\ phase' = "ready" /\ shown' = q.rows /\ asOf' = q.asOf
         \/ phase' = "error" /\ UNCHANGED <<shown, asOf>>
  BY DEF DeliverLoad
<1>3. RowsAreGuarded'
  BY <1>1, HandlersKeepGuards DEF ClicksAgree
<1>4. ASSUME NEW r \in Rows \ touched PROVE Known(r)'
  <2>1. CommandsKnow(r)' /\ LoadsKnow(r)' /\ CopyKnows(r)' /\ FormKnows(r)'
    BY <1>1, <1>2 DEF ClicksAgree, Known, CommandsKnow, LoadsKnow, CopyKnows, FormKnows, OnItsWay
  <2>2. ASSUME q.answer = "ok", shown' = q.rows, asOf' = q.asOf PROVE ListKnows(r)'
    BY <1>1, <1>2, <2>2 DEF ClicksAgree, Known, LoadsKnow, ListKnows, OnItsWay
  <2>3. ASSUME phase' = "error", UNCHANGED <<shown, asOf>> PROVE ListKnows(r)'
    BY <1>1, <1>2, <2>3 DEF ClicksAgree, Known, ListKnows, OnItsWay, BeingReloaded
  <2> QED
    BY <1>2, <2>1, <2>2, <2>3 DEF Known
<1> QED
  BY <1>2, <1>3, <1>4 DEF ClicksAgree

(* The oldest request is a command that was carried out: the news of its    *)
(* row become what the page shows, or are followed by newer ones.           *)
LEMMA SucceedKnows ==
  ASSUME TypeInv, OrderInv, ExistInv, ClicksAgree, NEW c \in flight, Succeed(c), ~overtaken',
         NEW r \in Rows \ touched
  PROVE  Known(r)'
<1> USE DEF serverVars
<1>1. /\ c \in Commands /\ IsCommand(c) /\ Commands' = Commands \ {c} /\ c.answer = "ok" /\ c.waited
      /\ LoadedAgain(c) \/ Awaited(c) \/ Replaced(c) \/ HasLeft(c)
      /\ UNCHANGED <<page, server>>
  <2>1. c \in Commands /\ Commands' = Commands \ {c} /\ (LoadedAgain(c) \/ Awaited(c) \/ Replaced(c) \/ HasLeft(c))
    BY SucceedFacts
  <2> QED
    BY <2>1, Kinds DEF Succeed, ClicksAgree, RowsAreGuarded
<1>2. /\ ~overtaken
      /\ \A p \in flight : p # c => c.id < p.id
  <2>1. ~overtaken /\ \A p \in flight : ~(p.id < c.id)
    BY DEF Succeed, Overtakes
  <2>2. \A p \in flight : p.id \in Nat /\ c.id \in Nat /\ (p # c => p.id # c.id)
    BY DEF TypeInv, FlightFits, IsLoad, IsCommand
  <2> QED
    BY <2>1, <2>2
<1>3. \A l \in Loads' : l.answer = "ok" => l \in Loads
  BY <1>1, RowsAssumption DEF LoadedAgain, Awaited, Replaced, HasLeft
<1>4. Mates(c) # {} => c.from = "bulk" /\ \E d \in Commands' : d.from = "bulk"
  <2> SUFFICES ASSUME Mates(c) # {} PROVE c.from = "bulk" /\ \E d \in Commands' : d.from = "bulk"
    OBVIOUS
  <2>1. PICK d : d \in Commands \ {c} /\ d.group = c.group
    BY DEF Mates
  <2>2. c.from = "bulk"
    BY <1>1, <2>1 DEF ExistInv, FormsAreGuarded
  <2> QED
    BY <1>1, <2>1, <2>2 DEF ClicksAgree, RowsAreGuarded
<1>5. /\ \A s \in Rows : told[s] <= told'[s] /\ told[s] \in Nat /\ told'[s] \in Nat
      /\ Mates(c) = {} => c.version <= told'[c.row]
  <2>1. told' = IF c.waited /\ Mates(c) = {} /\ told[c.row] < c.version
                  THEN [told EXCEPT ![c.row] = c.version] ELSE told
    BY DEF Succeed
  <2>2. c.version \in Nat /\ c.row \in Rows /\ told \in [Rows -> Nat]
    BY <1>1 DEF IsCommand, TypeInv
  <2> QED
    BY <1>1, <2>1, <2>2
<1>6. Known(r)
  BY DEF ClicksAgree
<1>7. \A v : OnItsWay(r, v) => OnItsWay(r, v)' \/ (r = c.row /\ c.from # "form" /\ v < c.version)
  BY <1>1 DEF OnItsWay
<1>8. r = c.row => server[r] = c.to \/ OnItsWay(r, c.version)'
  <2> SUFFICES ASSUME r = c.row PROVE server[r] = c.to \/ OnItsWay(r, c.version)'
    OBVIOUS
  <2>1. server[r] = c.to \/ OnItsWay(r, c.version)
    BY <1>1, <1>6 DEF Known, CommandsKnow
  <2>2. ~(c.version < c.version)
    BY <1>1 DEF IsCommand
  <2> QED
    BY <1>7, <2>1, <2>2
<1>9. CommandsKnow(r)'
  <2>1. ASSUME NEW d \in Commands', d.row = r, d.answer = "ok" PROVE server[r] = d.to \/ OnItsWay(r, d.version)'
    <3>1. d \in Commands /\ d # c /\ d \in flight /\ IsCommand(d)
      BY <1>1, <2>1, Kinds
    <3>2. r = c.row => c.version <= d.version
      BY <1>1, <1>2, <2>1, <3>1 DEF OrderInv, InOrder
    <3>3. ~(d.version < c.version) \/ r # c.row
      BY <1>1, <3>1, <3>2 DEF IsCommand
    <3>4. server[r] = d.to \/ OnItsWay(r, d.version)
      BY <1>6, <2>1, <3>1 DEF Known, CommandsKnow
    <3> QED
      BY <1>7, <3>3, <3>4
  <2> QED
    BY <1>1, <1>6, <2>1 DEF Known, CommandsKnow
<1>10. LoadsKnow(r)'
  <2> SUFFICES ASSUME NEW l \in Loads, l.answer = "ok", r \in DOMAIN l.rows, l.rows[r] # server[r]
               PROVE  \E d \in Commands \ {c} : /\ d.row = r /\ d.answer = "ok" /\ d.from # "form"
                                                /\ l.asOf[r] < d.version /\ l.id < d.id
    BY <1>1, <1>3 DEF LoadsKnow
  <2>1. PICK d \in Commands : /\ d.row = r /\ d.answer = "ok" /\ d.from # "form"
                              /\ l.asOf[r] < d.version /\ l.id < d.id
    BY <1>6 DEF Known, LoadsKnow
  <2>2. IsLoad(l) /\ l \in flight /\ l # c
    BY <1>1, Kinds
  <2>3. c.id < l.id /\ c.id \in Nat /\ l.id \in Nat
    BY <1>1, <1>2, <2>2 DEF IsLoad, IsCommand
  <2> QED
    BY <2>1, <2>3
<1>11. ListKnows(r)'
  <2>1. CASE page.then # "replace"
    <3>1. ~LoadsAgain(c) => Mates(c) # {}
      BY <1>1 DEF LoadsAgain
    <3>2. BeingReloaded'
      BY <1>1, <1>4, <2>1, <3>1 DEF BeingReloaded, LoadedAgain, Awaited, Replaced, HasLeft
    <3> QED
      BY <3>2 DEF ListKnows
  <2>2. CASE page.then = "replace" /\ c.from = "form"
    <3>1. UNCHANGED <<shown, asOf>>
      BY <1>1, <2>2 DEF LoadedAgain, Awaited, Replaced, HasLeft
    <3> QED
      BY <1>1, <1>6, <1>7, <2>2, <3>1 DEF Known, ListKnows, BeingReloaded, OnItsWay
  <2>3. CASE page.then = "replace" /\ c.from # "form"
    <3>1. /\ shown' = [x \in DOMAIN shown |-> IF x = c.row THEN c.to ELSE shown[x]]
          /\ asOf' = [asOf EXCEPT ![c.row] = c.version]
      BY <1>1, <2>3 DEF LoadedAgain, Awaited, Replaced, HasLeft
    <3>2. CASE r = c.row
      BY <1>1, <1>8, <3>1, <3>2 DEF ListKnows, OnItsWay, TypeInv
    <3>3. CASE r # c.row
      <4>1. ListKnows(r) /\ ~BeingReloaded
        BY <1>6, <2>3 DEF Known, BeingReloaded
      <4>2. asOf'[r] = asOf[r] /\ (r \in DOMAIN shown' => r \in DOMAIN shown /\ shown'[r] = shown[r])
        BY <3>1, <3>3 DEF TypeInv
      <4>3. OnItsWay(r, asOf[r]) => \E d \in Commands' : d.row = r /\ d.answer = "ok" /\ d.from # "form" /\ asOf[r] < d.version
        BY <1>1, <3>3 DEF OnItsWay
      <4> QED
        BY <1>1, <4>1, <4>2, <4>3 DEF ListKnows, OnItsWay
    <3> QED
      BY <3>2, <3>3
  <2> QED
    BY <2>1, <2>2, <2>3
<1>12. CopyKnows(r)'
  <2> SUFFICES ASSUME NEW x, x = copy', x # None, x.row = r
               PROVE  x.status = server[r] \/ OnItsWay(r, x.asOf)' \/ x.asOf < told'[r]
    BY <1>1 DEF CopyKnows, OnItsWay
  <2>1. CASE copy # None /\ copy.row = c.row /\ x = [copy EXCEPT !.status = c.to, !.asOf = c.version]
    <3>1. x.row = c.row /\ x.status = c.to /\ x.asOf = c.version
      BY <2>1 DEF TypeInv, IsCopy
    <3> QED
      BY <1>8, <3>1
  <2>2. CASE x = copy
    <3>1. x.status = server[r] \/ OnItsWay(r, x.asOf) \/ x.asOf < told[r]
      BY <1>6, <2>2 DEF Known, CopyKnows
    <3>2. x.asOf \in Nat /\ c.version \in Nat /\ ~page.bulk
      BY <1>1, <2>2 DEF TypeInv, IsCopy, IsCommand
    <3>3. Mates(c) = {}
      BY <1>1, <1>4, <3>2 DEF IsCommand
    <3>4. r = c.row /\ x.asOf < c.version => x.asOf < told'[r]
      BY <1>5, <3>2, <3>3
    <3>5. x.asOf < told[r] => x.asOf < told'[r]
      BY <1>5, <3>2
    <3> QED
      BY <1>7, <3>1, <3>4, <3>5
  <2>3. x \in {None, copy} \/ (copy # None /\ copy.row = c.row /\ x = [copy EXCEPT !.status = c.to, !.asOf = c.version])
    BY DEF Succeed, CopyAfter
  <2> QED
    BY <2>1, <2>2, <2>3
<1>13. FormKnows(r)'
  <2> SUFFICES ASSUME page.creates, r = NewRow, server[r] # "absent", ~(told'[r] > 0)
               PROVE  \E d \in Commands \ {c} : d.row = r /\ d.answer = "ok" /\ d.from = "form"
    BY <1>1 DEF FormKnows
  <2>1. ~(told[r] > 0)
    BY <1>5
  <2>2. PICK d \in Commands : d.row = r /\ d.answer = "ok" /\ d.from = "form"
    BY <1>6, <2>1 DEF Known, FormKnows
  <2>3. ASSUME d = c PROVE FALSE
    <3>1. 0 < c.version /\ c.version \in Nat
      BY <1>1 DEF OrderInv, Ages, IsCommand
    <3>2. Mates(c) = {}
      BY <1>4, <2>2, <2>3
    <3> QED
      BY <1>5, <2>2, <2>3, <3>1, <3>2
  <2> QED
    BY <2>2, <2>3
<1> QED
  BY <1>9, <1>10, <1>11, <1>12, <1>13 DEF Known

LEMMA CommandsKeepClicks ==
  ASSUME TypeInv, OrderInv, ExistInv, ClicksAgree, Clean', NEW c \in flight, Succeed(c) \/ GiveUp(c)
  PROVE  ClicksAgree'
<1> USE DEF serverVars
<1>1. UNCHANGED <<touched, surprised>>
  BY DEF Succeed, GiveUp
<1>2. CASE Succeed(c)
  <2>1. Commands' = Commands \ {c} /\ (LoadedAgain(c) \/ Awaited(c) \/ Replaced(c) \/ HasLeft(c))
    BY <1>2, SucceedFacts
  <2>2. RowsAreGuarded'
    <3>1. \/ flight' = flight \ {c} /\ (Free(c.frees) \/ UNCHANGED busy)
          \/ UNCHANGED busy /\ \E l : l.kind = "load" /\ l.frees = c.frees /\ flight' = (flight \ {c}) \cup {l}
      BY <2>1 DEF LoadedAgain, Awaited, Replaced, HasLeft
    <3> QED
      BY <2>1, <3>1, HandlersKeepGuards DEF ClicksAgree
  <2>3. \A r \in Rows \ touched : Known(r)'
    BY <1>2, SucceedKnows DEF Clean
  <2> QED
    BY <1>1, <2>2, <2>3 DEF ClicksAgree
<1>3. CASE GiveUp(c)
  <2>1. PICK new : c \in Commands /\ GivenUp(c, new)
    BY <1>3, GiveUpFacts
  <2>2. c.from # "bulk" /\ c.answer # "ok" /\ c.answer # None
    BY <1>3, RowsAssumption DEF GiveUp, Clean
  <2>3. Mates(c) = {}
    BY <2>1, <2>2 DEF Mates, ExistInv, FormsAreGuarded
  <2>4. /\ Commands' = Commands \ {c} /\ flight' = Loads' \cup Commands'
        /\ \/ Loads' = Loads /\ UNCHANGED phase /\ Free(c.frees)
           \/ /\ phase' = "loading" /\ UNCHANGED busy
              /\ \E l : Loads' = Loads \cup {l} /\ l.kind = "load" /\ l.frees = c.frees /\ l.answer = None
    BY <2>1, <2>3 DEF GivenUp
  <2>5. flight \ {c} = Loads \cup (Commands \ {c})
    BY <2>1, Kinds
  <2>6. RowsAreGuarded'
    <3>1. \/ flight' = flight \ {c} /\ Free(c.frees)
          \/ UNCHANGED busy /\ \E l : l.kind = "load" /\ l.frees = c.frees /\ flight' = (flight \ {c}) \cup {l}
      BY <2>4, <2>5
    <3> QED
      BY <2>4, <3>1, HandlersKeepGuards DEF ClicksAgree
  <2>7. UNCHANGED <<page, server, told, copy, shown, asOf>>
    BY <1>3 DEF GiveUp
  <2>8. ASSUME NEW r \in Rows \ touched PROVE Known(r)'
    <3>1. Known(r)
      BY DEF ClicksAgree
    <3>2. \A v : OnItsWay(r, v) => OnItsWay(r, v)'
      BY <2>2, <2>4 DEF OnItsWay
    <3>3. BeingReloaded => BeingReloaded'
      BY <2>2, <2>4, <2>7 DEF BeingReloaded
    <3>4. CommandsKnow(r)'
      BY <2>4, <2>7, <3>1, <3>2 DEF Known, CommandsKnow
    <3>5. LoadsKnow(r)'
      <4>1. \A l \in Loads' : l.answer = "ok" => l \in Loads
        BY <2>4, RowsAssumption
      <4> QED
        BY <2>2, <2>4, <2>7, <3>1, <4>1 DEF Known, LoadsKnow
    <3>6. ListKnows(r)' /\ CopyKnows(r)'
      BY <2>7, <3>1, <3>2, <3>3 DEF Known, ListKnows, CopyKnows
    <3>7. FormKnows(r)'
      BY <2>2, <2>4, <2>7, <3>1 DEF Known, FormKnows
    <3> QED
      BY <3>4, <3>5, <3>6, <3>7 DEF Known
  <2> QED
    BY <1>1, <2>6, <2>8 DEF ClicksAgree
<1> QED
  BY <1>2, <1>3

LEMMA InitClicks == Init => ClicksInv
<1> SUFFICES ASSUME Init PROVE ClicksAgree
  BY DEF ClicksInv
<1>1. \A q \in flight : q.kind = "load" /\ q.frees = "nothing" /\ q.answer # "ok"
  BY RowsAssumption DEF Init, LoadRequest
<1>2. Commands = {} /\ \A q \in Loads : q.answer # "ok"
  BY <1>1 DEF Loads, Commands
<1>3. page.creates => server[NewRow] = "absent"
  BY InstancesAssumption, NewRowAssumption DEF Init
<1>4. RowsAreGuarded
  BY <1>1, <1>2 DEF RowsAreGuarded
<1>5. \A r \in Rows : Known(r)
  BY <1>2, <1>3 DEF Init, Known, CommandsKnow, LoadsKnow, ListKnows, CopyKnows, FormKnows
<1> QED
  BY <1>4, <1>5 DEF Init, ClicksAgree

LEMMA ClicksStep ==
  ASSUME TypeInv, OrderInv, ExistInv, ClicksInv, [Next]_vars
  PROVE  ClicksInv'
<1> SUFFICES ASSUME Clean' PROVE ClicksAgree'
  BY DEF ClicksInv
<1>1. ClicksAgree
  BY CleanBefore DEF ClicksInv
<1>2. CASE User
  BY <1>1, <1>2, UserKeepsClicks
<1>3. CASE Serve
  BY <1>1, <1>3, ServingKeepsClicks DEF Serve
<1>4. CASE Deliver
  BY <1>1, <1>4, LoadsKeepClicks, CommandsKeepClicks DEF Deliver
<1>5. CASE UNCHANGED vars \/ \E r \in Rows : Other(r)
  BY <1>1, <1>5, OthersKeepClicks
<1> QED
  BY <1>2, <1>3, <1>4, <1>5 DEF Next

(* The clicks of one user never meet each other: whatever the page, however *)
(* many rows, requests and selections, a command finds its row as the       *)
(* control showed it - unless another user changed the row, or one of the   *)
(* races happened that NoClickTwice names.                                  *)
THEOREM ClicksNeverMeet == Spec => []NoClickTwice
<1>1. Init => TypeInv /\ OrderInv /\ ExistInv /\ ClicksInv
  BY InitTypes, InitOrder, InitExist, InitClicks
<1>2. TypeInv /\ OrderInv /\ ExistInv /\ ClicksInv /\ [Next]_vars =>
        (TypeInv /\ OrderInv /\ ExistInv /\ ClicksInv)'
  BY TypeStep, OrderStep, ExistStep, ClicksStep
<1>3. ClicksInv => NoClickTwice
  BY DEF ClicksInv, Clean, ClicksAgree, NoClickTwice
<1> QED
  BY <1>1, <1>2, <1>3, PTL DEF Spec
=============================================================================
