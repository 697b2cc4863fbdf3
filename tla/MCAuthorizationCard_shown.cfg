\* A card redrawn away.
SPECIFICATION Spec
CONSTANTS
  Request = {r1}
  Item = {i1, i2, i3}
  Dependencies <- AnyDependencies
  MaxFailures = 1
PROPERTY
  FetchedOutcomeIsShown
CHECK_DEADLOCK FALSE
