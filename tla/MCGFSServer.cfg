SPECIFICATION FairSpec
CONSTANTS
  Clients = {1, 2}
  m_MaxPostAccept = 1
  Requests = {"login", "refused"}
  MaxConnections = 2
CHECK_DEADLOCK FALSE
INVARIANTS
  TypeOK
  AcceptsCounted
  ListedIsServed
  OwnLogin
PROPERTIES
  ClosedForCause
  GoneIsRemoved
