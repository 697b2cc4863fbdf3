\* One stream, two questions, a conformant build.
SPECIFICATION Spec
CONSTANTS
  Streams = 1
  Session = {c1}
  Questions = 2
  Builds = {TRUE}
  Started <- ByHand
INVARIANT ConfirmedItself
CHECK_DEADLOCK FALSE
