\* Two calls of send(), two of reconnect(), the five automatic attempts.
SPECIFICATION Spec
CONSTANTS
  Msg = {m1, m2}
  NoMsg = NoMsg
  MaxAttempts = 5
  MaxClicks = 2
INVARIANTS
  NoOrphanNode ReadyIsSettled WrittenOnce
PROPERTIES
  ConnectingEnds DropIsNoticed
CHECK_DEADLOCK FALSE
