SPECIFICATION Spec
CONSTANTS
  MaxVisits = 3
  MaxEdits = 2
  MaxFaults = 1
INVARIANTS TypeOK ShownIsServed LinksLead
PROPERTIES ComesToAPage
CHECK_DEADLOCK FALSE
