\* Two streams that bear the same session (a conversation in two tabs), two questions,
\* in both builds.
SPECIFICATION Spec
CONSTANTS
  Streams = 2
  Session = {c1}
  Questions = 2
  Builds = {FALSE, TRUE}
  Started <- ByHand
INVARIANTS
  TypeOK RunsOnceAsConfirmed
PROPERTIES
  EverybodyIsTold
CHECK_DEADLOCK FALSE
