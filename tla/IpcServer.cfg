CONSTANTS
  Conns = {a1, a2, u1, u2, u3}
  Admins = {a1, a2}
  MaxConns = 3
  AdminReserved = 1
  None = None
SPECIFICATION FairSpec
INVARIANTS SlotsCounted NoAnswerOnRemovedPath
PROPERTIES OperatorNotLockedOut ShutdownEnds
CHECK_DEADLOCK FALSE
