CONSTANTS
  N = 4
  Prop <- MCProp
  NoProp <- MCNoProp
  Arguments <- MCArguments
SPECIFICATION FairSpec
INVARIANTS AnswerIsGrounded WeakestLink RootsExplain
PROPERTY Answers
CHECK_DEADLOCK FALSE
