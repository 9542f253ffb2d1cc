SPECIFICATION Spec
CONSTANTS
  c1 = c1
  c2 = c2
  b1 = b1
  Lvr = Lvr
  Svr = Svr
  LVR = LVR
  SVR = SVR
  lvrVersion = lvrVersion
  svrVersion = svrVersion
  lvrExt = lvrExt
  svrExt = svrExt
  EmptyText = EmptyText
  NoText = NoText
  NoDocument = NoDocument
  Lower <- MCLower
  Stem <- MCStem
  Clip <- MCClip
  UnsignedRange = 16
  LongRange = 16
  Nobody = Nobody
  ListenFd = 3
  Quit <- MCQuit
  Conns <- MCConns
  BinderThreads <- MCBinderThreads
  Requests <- MCRequests
  Answer <- MCAnswer
  Fds <- MCFds
  ListenBacklog = 0
  MaxUnread = 2
  MaxReplies = 1
INVARIANT
  ServerSurvives
CHECK_DEADLOCK FALSE
