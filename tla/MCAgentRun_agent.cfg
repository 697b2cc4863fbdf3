\* Two Stars and two Satellites; every kind of request, in the build of the repository
\* (not conformant) and in a conformant one.
SPECIFICATION Spec
CONSTANTS
  near = near
  far = far
  box = box
  hub = hub
  Star = {near, far}
  Satellite = {box, hub}
  NoProvider = NoProvider
  Declared <- MCDeclared
  Capabilities <- MCCapabilities
  Named <- MCNamed
  Guess <- MCGuess
  right = right
  rights = rights
  school = school
  Word = {right, rights, school}
  Variants <- MCVariants
  Topics <- MCTopics
  IpfsNode = TRUE
  PrivateGateway = FALSE
  Vetoed = {hub}
  Heard = {near, box, hub}
  Builds = {FALSE, TRUE}
  Requests <- MCRequests
  MaxDeltas = 2
  MaxToolCalls = 1
  MaxLate = 1
INVARIANTS
  OnlyTheMessageLeaves ContextIsAttributed SaidOnce NothingIsForgotten
PROPERTIES
  CompletedIsSilent RunEnds
CHECK_DEADLOCK FALSE
