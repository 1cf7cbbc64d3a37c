SPECIFICATION MCSpec
CONSTANTS
  p = p
  f = f
  l = l
  Queries = {p, f, l}
  Size <- MCSize
  Reply <- MCReply
  Cap = 4
  HsUser = TRUE
  HsCap = 7
  HsReplyLen = 4
  HsAppLen = 3
  cmd = cmd
  p1 = p1
  p2 = p2
INVARIANTS SemaphoreExact MessagesWhole StreamBoundary NoLostDeath AppServed
PROPERTIES AnswerArrives HandshakeEnds ParentFollows
\* The systems stop: all queries answered, the handshake done, all processes
\* ended.
CHECK_DEADLOCK FALSE
