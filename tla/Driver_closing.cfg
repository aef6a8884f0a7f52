SPECIFICATION Spec
CONSTANTS
  Peers = {p1, p2}
  NoPeer = NoPeer
  Deadline = 2
  MaxRearms = 1
INVARIANTS
  ClosingPortStaysClosed
