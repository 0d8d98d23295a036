SPECIFICATION Spec
CONSTANTS
  Words <- MCWords
  Numbers <- MCNumbers
  TypeLetters <- MCTypeLetters
  BadOperands <- MCBadOperands
  Embedded <- MCEmbedded
  Support <- MCSupport
  NativeOutput = FALSE
  Inputs <- MCInputs
  Workers = 2
INVARIANTS
  AcceptsWellFormedText
  EvaluatesTheText
  PrunesWhatTheTextReaches
  OptionsFollowTheText
CHECK_DEADLOCK FALSE
