\* One opening and a close(): the node that close() came too early for.
SPECIFICATION Spec
CONSTANTS
  Msg = {m1}
  NoMsg = NoMsg
  MaxAttempts = 1
  MaxClicks = 0
INVARIANTS
  NothingOutlivesClose
CHECK_DEADLOCK FALSE
