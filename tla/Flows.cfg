SPECIFICATION Spec
CONSTANTS
  Flows <- Declared
  Given <- Inputs
  Interruptible <- Signalled
INVARIANT AnswersAreEarned
