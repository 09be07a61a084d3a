SPECIFICATION Spec
CONSTANTS
  c1 = c1 c2 = c2 c3 = c3
  u1 = u1 u2 = u2 u3 = u3 u4 = u4 u5 = u5
  e1 = e1
  r1 = r1 r2 = r2 r3 = r3
  o1 = o1 p1 = p1 k1 = k1
  None = None
  NoToken = NoToken
  Creates <- MCCreates
  IdemKey <- MCIdemKey
  Items <- MCItems
  Products = {p1}
  MailResults = {"SENT", "FAILED"}
  Updates <- MCUpdates
  OrderOf <- MCOrderOf
  NewStatus <- MCNewStatus
  Edits = {e1}
  Readers <- MCReaders
  KeyOf <- MCKeyOf
  Older = {o1}
  Workloads <- MCWorkloads
  MaxToggles = 1
  Limit = 1
  Faults = TRUE
  KeysExpire = TRUE
INVARIANTS TypeOK MutualExclusion NoLockIsLeftBehind OrderFollowsTransitions OneOrderPerKey ViewsAreFresh LimitIsKept
CHECK_DEADLOCK FALSE
