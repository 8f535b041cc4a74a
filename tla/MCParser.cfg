SPECIFICATION Spec
CONSTANTS
  Families <- MCFamilies
  OneLetter <- MCOneLetter
  MaxErrors <- MCMaxErrors
PROPERTY AcceptedIsGrammatical
PROPERTY Progress
CHECK_DEADLOCK FALSE
INVARIANT GrammaticalIsAccepted
INVARIANT RecoveryInStep
