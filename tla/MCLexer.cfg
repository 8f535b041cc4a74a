SPECIFICATION Spec
CONSTANTS
  Inputs <- MCInputs
  Letters <- MCLetters
  Keywords <- MCKeywords
INVARIANT TokensAreTheText
INVARIANT EstimateIsTokens
CHECK_DEADLOCK FALSE
