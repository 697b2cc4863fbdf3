\* One message, written just before its stream drops.
SPECIFICATION TurnSpec
CONSTANTS
  Msg = {c1, c2}
  NoMsg = NoMsg
  MaxAttempts = 5
  MaxClicks = 1
  Text = {t1}
  NoText = NoText
INVARIANT
  NoStrandedTurn
CHECK_DEADLOCK FALSE
