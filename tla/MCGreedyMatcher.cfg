SPECIFICATION Spec
CONSTANTS
  Members <- MCMembers
  TaskIds <- MCTaskIds
  Inputs <- MCInputs
  NoAnswer = NoAnswer
  MaxScore = 2
  MaxSlots = 2
INVARIANTS
  TypeOK
  NoJustifiedEnvy
PROPERTIES
  ImplementsPromise
