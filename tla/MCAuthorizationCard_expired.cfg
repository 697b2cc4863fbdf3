\* A decision, and then the deadline.
SPECIFICATION Spec
CONSTANTS
  Request = {r1}
  Item = {i1, i2, i3}
  Dependencies <- AnyDependencies
  MaxFailures = 1
INVARIANT
  ExpiredMeansNothingSent
CHECK_DEADLOCK FALSE
