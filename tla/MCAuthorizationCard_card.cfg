\* One request of three items that depend on each other in any way; sessions and turns
\* that come and go.
SPECIFICATION Spec
CONSTANTS
  Request = {r1}
  Item = {i1, i2, i3}
  Dependencies <- AnyDependencies
  MaxFailures = 1
INVARIANTS
  DecisionsAreClosed DecidesOnce TogglesLikeTheCode
PROPERTIES
  OutcomeIsLearnt
CHECK_DEADLOCK FALSE
