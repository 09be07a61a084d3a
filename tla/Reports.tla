-------------------------------- MODULE Reports --------------------------------
(***************************************************************************)
(* The order report: ReportsView of the frontend (app/admin/reports), which *)
(* pages through GET admin/reports/overview, and the cached overview of    *)
(* ReportsService (backend/src/modules/reports), while orders are placed   *)
(* and handled.  The dataset of activities takes the same path.            *)
(*                                                                         *)
(* An order is its number in the order of createdAt; orders are never      *)
(* deleted.  The admin waits for an answer before the next request: what   *)
(* answers out of order do to this page is in ConsolePages.                *)
(***************************************************************************)
EXTENDS FiniteSets, SequencesExt, Naturals

CONSTANTS
  PageSize,     \* rows of a page, 20 in the code
  Filters,      \* the filters the admin may apply
  Older,        \* bound: orders there are at the start,
  MaxOrders,    \*        and at the end
  MaxMoves,     \* bound: status changes
  MaxRequests,  \* bound: requests for the report
  LastDay,      \* bound: the clock
  All           \* no filter

ASSUME BoundsAssumption ==
  /\ PageSize \in Nat \ {0} /\ {Older, MaxOrders, MaxMoves, MaxRequests, LastDay} \subseteq Nat
  /\ Older <= MaxOrders

VARIABLES
  now,       \* half days since the first midnight
  orders,    \* their createdAt and status
  cached,    \* Redis: the overviews under the keys that are set
  wiping,    \* ReportsListener has been told of a change and not deleted yet
  applied, page, shown, status,     \* ReportsView
  request,   \* the last request of the page
  asked,     \* requests so far
  moves,     \* status changes so far
  walk       \* history: the pages of the whole report read one after another

serverVars == <<now, orders, cached, wiping, moves>>
pageVars   == <<applied, page, shown, status>>
vars       == <<serverVars, pageVars, request, asked, walk>>

Statuses == {"PENDING_PAYMENT_REVIEW", "CONFIRMED", "REJECTED", "DELIVERED", "CANCELLED"}
Days     == 0..LastDay
Midnight(day) == 2 * day

(* The form's fields: a status, and two dates.                             *)
FilterType == [status : Statuses \cup {All}, from : Days \cup {All}, to : Days \cup {All}]
NoFilter   == [status |-> All, from |-> All, to |-> All]

ASSUME FiltersAssumption == NoFilter \in Filters /\ Filters \subseteq FilterType

-----------------------------------------------------------------------------
(* findOrderRows: where, orderBy createdAt desc, skip and take, count *)

Matches(row, f) ==
  /\ f.status \in {All, row.status}
  /\ f.from = All \/ row.at >= Midnight(f.from)
  /\ f.to = All \/ row.at <= Midnight(f.to)

Row(o)      == [id |-> o, at |-> orders[o].at, status |-> orders[o].status]
Matching(f) == {o \in DOMAIN orders : Matches(Row(o), f)}


NewestFirst(f) == SetToSortSeq(Matching(f), >)

(* (Broken: the rows from the page on, as many as there are.)               *)
RowsFrom(f, p) ==
  LET ids == NewestFirst(f) IN [i \in 1..(Len(ids) - (p - 1) * PageSize) |-> Row(ids[i + (p - 1) * PageSize])]

RowsOf(f, p) ==
  LET ids   == NewestFirst(f)
      skip  == (p - 1) * PageSize
      taken == SubSeq(ids, skip + 1, IF skip + PageSize < Len(ids) THEN skip + PageSize ELSE Len(ids))
  IN  [i \in DOMAIN taken |-> Row(taken[i])]

(* An overview; `age` is how many orders there were when its rows were read*)
Overview(rows, total, age) == [rows |-> rows, total |-> total, age |-> age]
Nothing == Overview(<<>>, 0, 0)

Pages(total) == IF total = 0 THEN 1 ELSE (total + PageSize - 1) \div PageSize

(* (Broken: one of the filters is not part of the key.)                     *)
KeyWithoutStatus(f, p) == <<f.from, f.to, p>>

CacheKey(f, p) == <<f.status, f.from, f.to, p>>

-----------------------------------------------------------------------------
Request(f, p) == [filters |-> f, page |-> p, at |-> "sent", got |-> Nothing]

NoWalk == [page |-> 0, total |-> 0, age |-> 0, must |-> 0, seen |-> {}]

Init ==
  /\ now = 1
  /\ orders = [o \in 1..Older |-> [at |-> 0, status |-> "PENDING_PAYMENT_REVIEW"]]
  /\ cached = [k \in {} |-> Nothing] /\ wiping = FALSE
  /\ applied = NoFilter /\ page = 1 /\ shown = Nothing /\ status = "loading"
  /\ request = Request(NoFilter, 1) /\ asked = 1
  /\ moves = 0 /\ walk = NoWalk

(* Customers, and the admins who handle their orders; transitions are those*)
(* of OrdersService. The change is emitted to ReportsListener, a new order *)
(* is not.                                                                 *)
Transitions(from) ==
  CASE from = "PENDING_PAYMENT_REVIEW" -> {"CONFIRMED", "REJECTED", "CANCELLED"}
    [] from = "CONFIRMED"              -> {"DELIVERED", "CANCELLED"}
    [] OTHER                           -> {}

PlaceOrder ==
  /\ Len(orders) < MaxOrders
  /\ orders' = Append(orders, [at |-> now, status |-> "PENDING_PAYMENT_REVIEW"])
  /\ UNCHANGED <<now, cached, wiping, moves, pageVars, request, asked, walk>>

MoveOrder(o) ==
  /\ moves < MaxMoves /\ moves' = moves + 1
  /\ \E s \in Transitions(orders[o].status) : orders' = [orders EXCEPT ![o].status = s]
  /\ wiping' = TRUE
  /\ UNCHANGED <<now, cached, pageVars, request, asked, walk>>

Wipe ==
  /\ wiping /\ wiping' = FALSE
  /\ cached' = [k \in {} |-> Nothing]
  /\ UNCHANGED <<now, orders, moves, pageVars, request, asked, walk>>

Tick ==
  /\ now < 2 * LastDay + 1 /\ now' = now + 1
  /\ UNCHANGED <<orders, cached, wiping, moves, pageVars, request, asked, walk>>

Expire(k) ==
  /\ cached' = [j \in DOMAIN cached \ {k} |-> cached[j]]
  /\ UNCHANGED <<now, orders, wiping, moves, pageVars, request, asked, walk>>

-----------------------------------------------------------------------------
(* ReportsService.overview *)

Key == CacheKey(request.filters, request.page)

Serve(from, at, got) ==
  /\ request.at = from
  /\ request' = [request EXCEPT !.at = at, !.got = got]
  /\ UNCHANGED <<now, orders, wiping, moves, pageVars, asked, walk>>

Hit ==
  /\ Key \in DOMAIN cached
  /\ Serve("sent", "answered", cached[Key])
  /\ UNCHANGED cached

(* The rows and their count are two statements of one transaction, READ    *)
(* COMMITTED as by default: an order may come in between.                  *)
ReadRows ==
  /\ Key \notin DOMAIN cached
  /\ Serve("sent", "counting", Overview(RowsOf(request.filters, request.page), 0, Len(orders)))
  /\ UNCHANGED cached

(* The count, and SET: a deletion in between is CacheAside's business.      *)
CountRows ==
  LET got == [request.got EXCEPT !.total = Cardinality(Matching(request.filters))]
  IN  /\ Serve("counting", "answered", got)
      /\ cached' = [k \in DOMAIN cached \cup {Key} |-> IF k = Key THEN got ELSE cached[k]]

(* The request, or its answer, is lost on the way.                         *)
FailRequest ==
  /\ \E from \in {"sent", "answered"} : Serve(from, "failed", Nothing)
  /\ UNCHANGED cached

-----------------------------------------------------------------------------
(* ReportsView *)

(* The effect of [applied, page].                                          *)
Load(f, p) ==
  /\ status # "loading" /\ asked < MaxRequests
  /\ request' = Request(f, p) /\ asked' = asked + 1
  /\ applied' = f /\ page' = p /\ status' = "loading"
  /\ UNCHANGED <<serverVars, shown, walk>>


(* applyFilters, resetFilters                                              *)
Apply(f) == Load(f, 1)

(* Pagination, under the rows of a report that has some                    *)
GoTo(p) ==
  /\ status = "ready" /\ shown.rows # <<>>
  /\ p \in 1..Pages(shown.total) /\ p # page
  /\ Load(applied, p)

Retry == status = "error" /\ Load(applied, page)

(* A walk starts at the first page of the whole report, and goes on with   *)
(* the next page if that was not computed before the last one.             *)
WalkOn(got) ==
  LET rows == {got.rows[i].id : i \in DOMAIN got.rows}
  IN  IF applied # NoFilter THEN NoWalk
      ELSE IF page = 1
      THEN [page |-> 1, total |-> got.total, age |-> got.age, must |-> got.age, seen |-> rows]
      ELSE IF page = walk.page + 1 /\ walk.page > 0 /\ got.age >= walk.age
      THEN [walk EXCEPT !.page = page, !.total = got.total, !.age = got.age, !.seen = @ \cup rows]
      ELSE NoWalk

Hear ==
  /\ request.at = "answered"
  /\ status' = "ready" /\ shown' = request.got
  /\ walk' = WalkOn(request.got)
  /\ request' = [request EXCEPT !.at = "heard"]
  /\ UNCHANGED <<serverVars, applied, page, asked>>

HearFailure ==
  /\ request.at = "failed"
  /\ status' = "error" /\ walk' = NoWalk
  /\ request' = [request EXCEPT !.at = "heard"]
  /\ UNCHANGED <<serverVars, applied, page, shown, asked>>

Next ==
  \/ PlaceOrder \/ Wipe \/ Tick
  \/ \E o \in DOMAIN orders : MoveOrder(o)
  \/ \E k \in DOMAIN cached : Expire(k)
  \/ Hit \/ ReadRows \/ CountRows \/ FailRequest \/ Hear \/ HearFailure
  \/ \E f \in Filters : Apply(f)
  \/ \E p \in 1..Pages(shown.total) : GoTo(p)
  \/ Retry

Spec == Init /\ [][Next]_vars

-----------------------------------------------------------------------------
(* Properties *)

RowType == [id : 1..MaxOrders, at : 0..(2 * LastDay + 1), status : Statuses]

IsOverview(v) ==
  /\ v.rows \in Seq(RowType) /\ Len(v.rows) <= PageSize
  /\ v.total \in 0..MaxOrders /\ v.age \in 0..MaxOrders

(* Types: a page never holds more rows than its size, wherever it is, and  *)
(* the page asked for is one of the report.                                *)
TypeOK ==
  /\ now \in 0..(2 * LastDay + 1) /\ wiping \in BOOLEAN
  /\ moves \in 0..MaxMoves
  /\ Len(orders) <= MaxOrders /\ \A o \in DOMAIN orders : Row(o) \in RowType
  /\ \A k \in DOMAIN cached : IsOverview(cached[k])
  /\ applied \in Filters /\ page \in 1..Pages(MaxOrders) /\ IsOverview(shown)
  /\ status \in {"loading", "ready", "error"}
  /\ asked \in 1..MaxRequests /\ IsOverview(request.got)
  /\ request.at \in {"sent", "counting", "answered", "failed", "heard"}


=============================================================================
