SPECIFICATION Spec
CONSTANTS
  i1 = i1 i2 = i2 a1 = a1 a2 = a2 a3 = a3 v1 = v1 v2 = v2 p1 = p1
  w1 = w1 w2 = w2
  in1 = in1 in2 = in2 me1 = me1 rd1 = rd1 wr1 = wr1 ch1 = ch1 ch2 = ch2 out1 = out1
  None = None
  Invites = {i1, i2}
  Accepts = {a1, a2, a3}
  Revokes = {v1, v2}
  InviteOf <- MCInviteOf
  Provisions = {p1}
  Reviews = {w1, w2}
  Decision <- MCDecision
  MailResults = {"SENT", "FAILED"}
  OnboardFaults = TRUE
  Calls <- MCCalls
  Kind <- MCKind
  Typed <- MCTyped
  Chosen <- MCChosen
  MaxCsrf = 3
  MaxSwitches = 2
  Existing <- MCExisting
  Workloads <- MCWorkloads
INVARIANTS TypeOK KeptOut InvitesKeepTheirWord MailAgreesWithReview
CHECK_DEADLOCK FALSE
