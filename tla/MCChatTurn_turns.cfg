\* Two messages, three dispatches, one automatic attempt and one click between failures.
SPECIFICATION TurnSpec
CONSTANTS
  Msg = {c1, c2, c3}
  NoMsg = NoMsg
  MaxAttempts = 1
  MaxClicks = 1
  Text = {t1, t2}
  NoText = NoText
SYMMETRY TurnSymmetry
INVARIANTS
  TurnIsAccountedFor
CHECK_DEADLOCK FALSE
