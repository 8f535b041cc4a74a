\* Every line of at most six tokens; one object-like macro and two function-like ones are used.
CONSTANTS
  MaxLen = 6
  Tokens = {"A", "F", "H", "(", ")", ",", "quote", "//"}
  Table <- MCTable
  Lines <- MCLines
SPECIFICATION Spec
INVARIANTS
  CallsSubstitute
CHECK_DEADLOCK FALSE
