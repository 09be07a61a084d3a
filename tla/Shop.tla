--------------------------------- MODULE Shop ---------------------------------
(***************************************************************************)
(* Fundraising orders (backend/src/modules/shop): POST public/orders with  *)
(* its rate limit and its idempotency key, PATCH admin/orders/:id under    *)
(* LockService, and the views that are cached from the orders: the public  *)
(* campaign pages (modules/campaigns) and the dashboard (modules/reports). *)
(*                                                                         *)
(* Every await is a step.  An order has the name of the request that       *)
(* creates it; there is one campaign, which every order is for.            *)
(***************************************************************************)
EXTENDS FiniteSets, Naturals

CONSTANTS
  Creates,       \* requests POST public/orders
  IdemKey,       \* their Idempotency-Key header, or None
  Items,         \* the products each of them orders
  Products,
  MailResults,   \* what the e-mail provider may answer, or throw
  Updates,       \* requests PATCH admin/orders/:id
  OrderOf,       \* the order each of them is for
  NewStatus,     \* the status each of them asks for
  Edits,         \* requests PATCH admin/campaigns/:id that change its status
  Readers, KeyOf,         \* requests for a cached view, see CacheAside
  Older,         \* orders that exist at the start
  Workloads,     \* sets of requests that come in together
  MaxToggles,    \* bound: changes of a product's status
  Limit,         \* of the rate limit
  None,
  NoToken, Faults, KeysExpire   \* Redis errors and crashes; see LockService

ASSUME BoundsAssumption == MaxToggles \in Nat /\ Limit \in Nat \ {0}
ASSUME MailAssumption == MailResults \subseteq {"NOT_CONFIGURED", "SENT", "FAILED"}
ASSUME FaultsAssumption == Faults \in BOOLEAN /\ KeysExpire \in BOOLEAN

VARIABLES
  (* PostgreSQL *)
  status,     \* orders.status, None for an order that does not exist
  mail,       \* orders.email_status
  active,     \* the products with status ACTIVE
  open,       \* the campaign is ACTIVE
  toggles,
  (* Redis: idempotency keys *)
  stored,     \* the answer under each key: an order, or None
  (* requests *)
  load,       \* the requests of this behaviour
  creating,   \* where each POST is behind the rate limit
  answer,     \* the order each POST was answered with
  saving,     \* POSTs whose answer is on its way to Redis
  updating,   \* where each PATCH is in fn, and the status it has read
  (* history *)
  moves,      \* <<from, to>> of every status ever written, by order
  careless,   \* POSTs that did not look their key up in Redis, or did so while another
              \* one with it was in progress, and POSTs that left an order without an answer
  (* LockService, CacheAside, RateLimit *)
  ready, key, phase, held, exposed,
  cache, read, wipe,
  asked, counter, timed, memory, windows, orphaned

lockVars  == <<ready, key, phase, held, exposed>>
cacheVars == <<cache, read, wipe>>
limitVars == <<asked, counter, timed, memory, windows, orphaned>>
orderVars == <<status, mail, active, open, toggles>>
idemVars  == <<stored, creating, answer, saving, careless>>
vars == <<orderVars, idemVars, load, updating, moves, lockVars, cacheVars, limitVars>>

Orders      == Creates \cup Older
Statuses    == {"PENDING_PAYMENT_REVIEW", "CONFIRMED", "REJECTED", "DELIVERED", "CANCELLED"}
Headers     == {IdemKey[c] : c \in Creates} \ {None}
Views       == {"list", "one", "dashboard"}

ASSUME RequestsAssumption ==
  /\ OrderOf \in [Updates -> Orders] /\ NewStatus \in [Updates -> Statuses]
  /\ KeyOf \in [Readers -> Views]
  /\ Creates \cap Older = {}
  /\ None \notin Orders \cup Statuses /\ NoToken \notin Updates

-----------------------------------------------------------------------------
(* Cached views *)

Exists == {o \in Orders : status[o] # None}

(* REVENUE_STATUSES: the orders a campaign's raisedCents is made of.        *)
Raised == {o \in Exists : status[o] \in {"CONFIRMED", "DELIVERED"}}

(* The queries of listPublic, getPublic and dashboard: the campaign unless  *)
(* it is not ACTIVE, its progress; the orders' totals and revenue (one      *)
(* transaction), the orders counted by status.  The dashboard's other two   *)
(* ask of tables that nothing writes here.                                  *)
DbAnswer(q) ==
  CASE q = "campaign"  -> IF open THEN "ACTIVE" ELSE None
    [] q = "progress"  -> Raised
    [] q = "totals"    -> [existing |-> Exists,
                           confirmed |-> {o \in Exists : status[o] = "CONFIRMED"}, revenue |-> Raised]
    [] q = "breakdown" -> [o \in Exists |-> status[o]]

AllQueries == {"campaign", "progress", "totals", "breakdown"}

QueriesOf == [v \in Views |-> IF v = "dashboard" THEN {"totals", "breakdown"} ELSE {"campaign", "progress"}]

(* The progress is asked for once there is a campaign; Promise.all asks its *)
(* queries together.                                                        *)
NeedsOf == [q \in AllQueries |-> IF q = "progress" THEN {"campaign"} ELSE {}]

(* CampaignsListener and ReportsListener on orderStatusChanged, neither of  *)
(* them awaited; CampaignsService.invalidate(id) after a change.            *)
ListenersDelete ==
  { [scan |-> TRUE, keys |-> {"list", "one"}, turn |-> 1],
    [scan |-> FALSE, keys |-> {"dashboard"}, turn |-> 1] }
CampaignDeletes ==
  { [scan |-> TRUE, keys |-> {"list", "one"}, turn |-> 1],
    [scan |-> FALSE, keys |-> {"one"}, turn |-> 2] }

Cache == INSTANCE CacheAside WITH
  Writers     <- Updates \cup Edits,
  Keys        <- Views,
  Plan        <- [w \in Updates \cup Edits |-> IF w \in Updates THEN ListenersDelete ELSE CampaignDeletes],
  Queries     <- QueriesOf,
  Needs       <- NeedsOf,
  NullKeys    <- {"one"},
  Nothing     <- None,
  CacheFaults <- Faults,
  db          <- [q \in AllQueries |-> DbAnswer(q)]

Lock == INSTANCE LockService WITH
  Calls <- Updates, Resources <- Orders, ResourceOf <- OrderOf, RedisFaults <- Faults

Guard == INSTANCE RateLimit WITH Requests <- Creates, LimitFaults <- Faults

-----------------------------------------------------------------------------
Init ==
  /\ load \in Workloads
  /\ status = [o \in Orders |-> IF o \in Older THEN "PENDING_PAYMENT_REVIEW" ELSE None]
  /\ mail = [o \in Orders |-> "NOT_CONFIGURED"]
  /\ active = Products /\ open = TRUE /\ toggles = 0
  /\ stored = [h \in Headers |-> None]
  /\ creating = [c \in Creates |-> "lookup"]
  /\ answer = [c \in Creates |-> None]
  /\ saving = {}
  /\ updating = [u \in Updates |-> [at |-> "find", from |-> None]]
  /\ moves = [o \in Orders |-> {}]
  /\ careless = {}
  /\ Lock!LockInit /\ Cache!CacheInit /\ Guard!LimitInit

-----------------------------------------------------------------------------
(* POST public/orders: IdempotencyInterceptor, OrdersService.create *)

Creating(c, place) == c \in load /\ asked[c] = "admitted" /\ creating[c] = place
To(c, place)       == creating' = [creating EXCEPT ![c] = place]
KeepOthers         == UNCHANGED <<load, updating, moves, lockVars, limitVars>>

(* Another POST with the same key has looked it up and is not through.      *)
Busy == {d \in Creates : creating[d] \in {"check", "insert", "mail"}} \cup saving
Beside(c) == \E d \in Busy \ {c} : IdemKey[d] = IdemKey[c]

(* Without a key, with a GET that fails or finds nothing, the handler runs. *)
LookUp(c) ==
  /\ Creating(c, "lookup")
  /\ \/ IdemKey[c] = None /\ UNCHANGED careless
     \/ /\ IdemKey[c] # None /\ stored[IdemKey[c]] = None
        /\ careless' = IF Beside(c) THEN careless \cup {c} ELSE careless
     \/ Faults /\ IdemKey[c] # None /\ careless' = careless \cup {c}
  /\ To(c, "check")
  /\ KeepOthers /\ UNCHANGED <<orderVars, stored, answer, saving, cacheVars>>

(* GET finds an answer: it is given again.  (Broken: the handler runs.)     *)
ReplayNothing(c) ==
  /\ Creating(c, "lookup")
  /\ IdemKey[c] # None /\ stored[IdemKey[c]] # None
  /\ To(c, "check")
  /\ KeepOthers /\ UNCHANGED <<orderVars, stored, answer, saving, careless, cacheVars>>

Replay(c) ==
  /\ Creating(c, "lookup")
  /\ IdemKey[c] # None /\ stored[IdemKey[c]] # None
  /\ To(c, "done")
  /\ answer' = [answer EXCEPT ![c] = stored[IdemKey[c]]]
  /\ KeepOthers /\ UNCHANGED <<orderVars, stored, saving, careless, cacheVars>>

(* The loop over the items: each product must exist and be ACTIVE.  The     *)
(* products are read one after another, and taken here as one read.         *)
CheckItems(c) ==
  /\ Creating(c, "check")
  /\ To(c, IF Items[c] \subseteq active THEN "insert" ELSE "refused")
  /\ KeepOthers /\ UNCHANGED <<orderVars, stored, answer, saving, careless, cacheVars>>

(* orders.create.  No event is emitted: the dashboard's entry is not        *)
(* deleted, and counts one order less until its TTL.                        *)
Insert(c) ==
  /\ Creating(c, "insert")
  /\ status' = [status EXCEPT ![c] = "PENDING_PAYMENT_REVIEW"]
  /\ To(c, "mail")
  /\ Cache!Outdated({"dashboard"})
  /\ KeepOthers /\ UNCHANGED <<mail, active, open, toggles, stored, answer, saving, careless, wipe>>

(* sendConfirmation answers, or throws, which counts as FAILED; with that   *)
(* updateEmailStatus, the answer to the request and, not awaited, the SET   *)
(* of the answer under the key.  (Broken: answered with the e-mail status.) *)
FinishWithMail(c, result) ==
  /\ Creating(c, "mail")
  /\ mail' = [mail EXCEPT ![c] = result]
  /\ To(c, "done")
  /\ answer' = [answer EXCEPT ![c] = result]
  /\ saving' = IF IdemKey[c] = None THEN saving ELSE saving \cup {c}
  /\ KeepOthers /\ UNCHANGED <<status, active, open, toggles, stored, careless, cacheVars>>

Finish(c, result) ==
  /\ Creating(c, "mail")
  /\ mail' = [mail EXCEPT ![c] = result]
  /\ To(c, "done")
  /\ answer' = [answer EXCEPT ![c] = c]
  /\ saving' = IF IdemKey[c] = None THEN saving ELSE saving \cup {c}
  /\ KeepOthers /\ UNCHANGED <<status, active, open, toggles, stored, careless, cacheVars>>

(* updateEmailStatus throws: the request fails, and its order exists.       *)
FinishFails(c) ==
  /\ Faults
  /\ Creating(c, "mail")
  /\ To(c, "failed")
  /\ careless' = careless \cup {c}
  /\ KeepOthers /\ UNCHANGED <<orderVars, stored, answer, saving, cacheVars>>

(* SET EX, or its failure, which only RedisService.set hears of.            *)
SaveAnswer(c) ==
  /\ c \in saving
  /\ saving' = saving \ {c}
  /\ \/ stored' = [stored EXCEPT ![IdemKey[c]] = c] /\ UNCHANGED careless
     \/ Faults /\ careless' = careless \cup {c} /\ UNCHANGED stored
  /\ KeepOthers /\ UNCHANGED <<orderVars, creating, answer, cacheVars>>

-----------------------------------------------------------------------------
(* PATCH admin/orders/:id: updateStatus, updateStatusLocked *)

(* ALLOWED_TRANSITIONS; a status may always be written over itself.         *)
(* (Broken: a delivered order may still be cancelled.)                      *)
Transitions ==
  { <<"PENDING_PAYMENT_REVIEW", "CONFIRMED">>, <<"PENDING_PAYMENT_REVIEW", "REJECTED">>,
    <<"PENDING_PAYMENT_REVIEW", "CANCELLED">>,
    <<"CONFIRMED", "DELIVERED">>, <<"CONFIRMED", "CANCELLED">> }

isAllowedOrderTransitionLax(from, to) == TRUE

isAllowedOrderTransition(from, to) == from = to \/ <<from, to>> \in Transitions

Updating(u, place) == u \in load /\ phase[u] = "inside" /\ updating[u].at = place

KeepCreates == UNCHANGED <<idemVars, mail, active, open, toggles, load, limitVars>>

(* findById; 404, or 422 for a transition that is not allowed.              *)
Find(u) ==
  /\ Updating(u, "find")
  /\ LET from == status[OrderOf[u]] IN
       updating' = [updating EXCEPT ![u] =
         [ from |-> from,
           at   |-> IF from # None /\ isAllowedOrderTransition(from, NewStatus[u])
                      THEN "write" ELSE "end" ]]
  /\ KeepCreates /\ UNCHANGED <<status, moves, lockVars, cacheVars>>

(* updateStatus, whatever the status has become; then the event, whose      *)
(* listeners send their deletions off.                                      *)
WriteStatus(u) ==
  /\ Updating(u, "write")
  /\ status' = [status EXCEPT ![OrderOf[u]] = NewStatus[u]]
  /\ moves' = [moves EXCEPT ![OrderOf[u]] = @ \cup {<<status[OrderOf[u]], NewStatus[u]>>}]
  /\ updating' = [updating EXCEPT ![u].at = "end"]
  /\ Cache!Write(u)
  /\ KeepCreates /\ UNCHANGED lockVars

(* withLock around it; fn ends where updateStatusLocked does.               *)
LockStep(u) ==
  /\ u \in load
  /\ \/ Lock!EnterUnlocked(u) \/ Lock!AskForLock(u)
     \/ Lock!Enter(u) \/ Lock!Refuse(u) \/ Lock!AcquireFails(u)
     \/ updating[u].at = "end" /\ Lock!Leave(u)
     \/ Lock!Release(u) \/ Lock!ReleaseFails(u)
  /\ KeepCreates /\ UNCHANGED <<status, moves, updating, cacheVars>>

-----------------------------------------------------------------------------
(* Other requests, Redis and the process *)

KeepOrders == UNCHANGED <<status, mail, idemVars, load, updating, moves, lockVars, limitVars>>

(* CampaignsService.update: the status is written, the deletions awaited.   *)
EditCampaign(e) ==
  /\ e \in load
  /\ open' = ~open
  /\ Cache!Write(e)
  /\ load' = load \ {e}
  /\ UNCHANGED <<status, mail, active, toggles, idemVars, updating, moves, lockVars, limitVars>>

(* ProductsService.update.                                                  *)
ToggleProduct(p) ==
  /\ toggles < MaxToggles /\ load \cap Creates # {}
  /\ toggles' = toggles + 1
  /\ active' = IF p \in active THEN active \ {p} ELSE active \cup {p}
  /\ KeepOrders /\ UNCHANGED <<open, cacheVars>>

CacheWorks ==
  /\ \/ \E r \in Readers \cap load : Cache!ReaderStep(r)
     \/ \E w \in Updates \cup Edits : Cache!WriterStep(w)
     \/ \E v \in Views : Cache!CacheExpires(v)
  /\ KeepOrders /\ UNCHANGED <<active, open, toggles>>

GuardWorks ==
  /\ \/ \E c \in Creates \cap load : Guard!GuardStep(c)
     \/ load \cap Creates # {} /\ (Guard!WindowEnds \/ Guard!MemoryWindowEnds)
  /\ UNCHANGED <<orderVars, idemVars, load, updating, moves, lockVars, cacheVars>>

LockKeysEnd ==
  /\ \/ \E o \in Orders : Lock!Expire(o)
     \/ Updates \cap load # {} /\ Lock!ConnectionChanges
  /\ KeepCreates /\ UNCHANGED <<status, moves, updating, cacheVars>>

(* The process dies.  PostgreSQL and Redis keep what they have.             *)
Unanswered == {c \in Creates : creating[c] = "mail"} \cup saving

ProcessDies ==
  /\ Faults
  /\ \/ \E u \in Updates : phase[u] \in {"locking", "inside", "releasing"}
     \/ Busy # {} \/ \E w \in Updates \cup Edits : wipe[w] # {}
     \/ \E c \in Creates : asked[c] = "expire"
     \/ \E r \in Readers : read[r].at \in {"compute", "store"}
  /\ IF \E u \in Updates : phase[u] \in {"locking", "inside", "releasing"}
       THEN Lock!Crash ELSE UNCHANGED lockVars
  /\ Cache!CacheCrash
  /\ Guard!LimitCrash
  /\ creating' = [c \in Creates |-> IF c \in Busy /\ creating[c] # "done" THEN "crashed" ELSE creating[c]]
  /\ saving' = {}
  /\ careless' = careless \cup Unanswered
  /\ UNCHANGED <<orderVars, stored, answer, load, updating, moves>>

-----------------------------------------------------------------------------
CreateStep(c) ==
  \/ LookUp(c) \/ Replay(c) \/ CheckItems(c) \/ Insert(c)
  \/ \E result \in MailResults : Finish(c, result)
  \/ FinishFails(c) \/ SaveAnswer(c)

Next ==
  \/ \E c \in Creates : CreateStep(c)
  \/ \E u \in Updates : Find(u) \/ WriteStatus(u) \/ LockStep(u)
  \/ \E e \in Edits : EditCampaign(e)
  \/ \E p \in Products : ToggleProduct(p)
  \/ CacheWorks \/ GuardWorks \/ LockKeysEnd \/ ProcessDies

Spec == Init /\ [][Next]_vars

-----------------------------------------------------------------------------
(* Properties *)

TypeOK ==
  /\ status \in [Orders -> Statuses \cup {None}]
  /\ mail \in [Orders -> {"NOT_CONFIGURED", "SENT", "FAILED"}]
  /\ active \subseteq Products /\ open \in BOOLEAN /\ toggles \in 0..MaxToggles
  /\ stored \in [Headers -> Orders \cup {None}]
  /\ creating \in [Creates -> {"lookup", "check", "insert", "mail",
                               "done", "refused", "failed", "crashed"}]
  /\ answer \in [Creates -> Orders \cup {None}]
  /\ updating \in [Updates -> [at : {"find", "write", "end"}, from : Statuses \cup {None}]]
  /\ saving \subseteq Creates /\ careless \subseteq Creates
  /\ Lock!TypeOK /\ Cache!CacheTypeOK /\ Guard!LimitTypeOK

(* Two PATCH requests for one order never run updateStatusLocked together,  *)
(* and one that fails or throws in it gives the order free again: the lock  *)
(* service's promises, for the calls that are made here.                    *)
MutualExclusion    == Lock!MutualExclusion
NoLockIsLeftBehind == Lock!NoLockIsLeftBehind

(* An order's status only ever moves along ALLOWED_TRANSITIONS, however the *)
(* PATCH requests interleave: unless one of them outlived its lock or ran   *)
(* without one (order.service's read and write are two statements).         *)
OrderFollowsTransitions ==
  \A o \in Orders :
    (\A u \in Updates : OrderOf[u] = o => u \notin exposed) =>
      \A m \in moves[o] : m[1] = m[2] \/ m \in Transitions

(* A request that is sent again under its Idempotency-Key makes no second   *)
(* order: unless the two ran side by side, Redis failed one of them, or the *)
(* first left its order without an answer.                                  *)
OneOrderPerKey ==
  \A c, d \in Creates :
    /\ {c, d} \subseteq Exists /\ IdemKey[c] = IdemKey[d] /\ IdemKey[c] # None
    /\ {c, d} \cap careless = {}
    => c = d

(* With no invalidation on its way, the campaign pages and the dashboard    *)
(* that are served from the cache say what the orders and the campaign say, *)
(* in each of the queries they were made of: unless a part of them was read *)
(* before the deletion they should have fallen to and stored after it, the  *)
(* deletion failed, or an order was placed, which deletes nothing.          *)
ViewsAreFresh == Cache!CacheIsFresh

(* POST public/orders admits no more than `limit` requests in one window of *)
(* Redis or of the memory that stands in for it, and the counter in Redis   *)
(* has a TTL, or is about to get it: unless an EXPIRE was cut off.          *)
LimitIsKept == Guard!LimitHolds /\ Guard!EveryWindowEnds
=============================================================================
