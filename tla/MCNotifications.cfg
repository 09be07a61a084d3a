SPECIFICATION NoteSpec
CONSTANTS
  o1 = o1 o2 = o2 m1 = m1 s1 = s1
  override = override run = run order = order
  me = me you = you
  p1 = p1 p2 = p2
  NoPoll = NoPoll
  Enqueues <- MCEnqueues
  JobId <- MCJobId
  MaxAttempts = 2
  QueueEnabled = TRUE
  HandlerMayFail = TRUE
  RedisFaults = TRUE
  CrashesAllowed = TRUE
  Recipients <- MCRecipients
  Users = {me, you}
  Reader = me
  Events <- MCEvents
  Polls = {p1, p2}
  Watching <- MCWatching
INVARIANTS NoteTypeOK OneCallPerJob NothingVanishes NotifiedOnce BellIsCurrent
PROPERTIES EveryJobIsProcessed
CHECK_DEADLOCK FALSE
