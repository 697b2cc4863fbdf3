SPECIFICATION Spec
CONSTANTS
  near = near
  far = far
  box = box
  hub = hub
  Star = {near, far}
  Satellite = {box, hub}
  NoProvider = NoProvider
  Declared <- MCDeclared
  Capabilities <- MCCapabilities
  Named <- MCNamed
  Guess <- MCGuess
  right = right
  rights = rights
  school = school
  Word = {right, rights, school}
  Variants <- MCVariants
  Topics <- MCTopics
  IpfsNode = TRUE
  PrivateGateway = FALSE
  Vetoed = {hub}
  Heard = {near, far}
  Builds = {FALSE}
  Requests <- LocalChat
  MaxDeltas = 2
  MaxToolCalls = 1
  MaxLate = 1
INVARIANT AnswerIsAttributed
CHECK_DEADLOCK FALSE
