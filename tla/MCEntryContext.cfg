SPECIFICATION Spec
CONSTANTS
  Nodes <- MCNodes
  MaxChanges = 1
  MaxAsks = 3
INVARIANTS
  AnswersFollowTheLinks
  OwnReadsStayUnseen
PROPERTIES
  EntersWhatWasChecked
CHECK_DEADLOCK FALSE
