SPECIFICATION Spec
CONSTANTS
  Actors <- MCActors
  Process <- MCProcess
  Env <- MCEnv
  Kinds <- MCKinds
  Remains <- MCRemains
CHECK_DEADLOCK FALSE
INVARIANT HealsAlone
PROPERTY AnsweredWhole
