CONSTANTS
  Client = {c1, c2}
  Message <- Messages
  None = None
  Prios = 2
  Room = 2
  SockRoom = 1
  MaxArrivals = 3
  MaxFailures = 1
SPECIFICATION FairSpec
INVARIANT IInv
PROPERTY SeenWithNextFrame
PROPERTY ImplementsMirror
PROPERTY Settles
