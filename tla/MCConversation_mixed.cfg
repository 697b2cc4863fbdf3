CONSTANTS
  Text = {t1, t2}
  NoText = NoText
  Sources = {"network"}
  t1 = t1
  t2 = t2
  Kinds <- OneDocument
  MaxConversations = 2
  MaxMessages = 2
  Browsers = {TRUE, FALSE}
  Conversations = 2
  Connections = 2
  Answers = 1
  Redials = 1
  Awaits = 1
SPECIFICATION Spec
INVARIANT AnswersStayHome
CHECK_DEADLOCK FALSE
