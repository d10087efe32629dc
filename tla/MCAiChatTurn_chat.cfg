\* A chat of the history and a new one; turns fail, are stopped and left.
SPECIFICATION FairSpec
CONSTANTS
  c1 = c1
  c2 = c2
  NoChat = NoChat
  Chat = {c1, c2}
  History = {c1}
  MaxTurns = 2
  MaxDeltas = 1
  FaultLimit = 1
INVARIANTS
  PanelInvariant
  TurnInvariant
PROPERTIES
  SettledTurnStaysSettled
  ShownTextIsKept
  EverySubmissionEnds
CHECK_DEADLOCK FALSE
