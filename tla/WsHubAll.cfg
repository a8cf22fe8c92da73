SPECIFICATION FairSpec
CONSTANTS
  Node = {n1, n2}
  Socket = {s1, s2}
  Listener = {l1, l2}
  MaxEvents = 2
  None = None
INVARIANTS TypeOK ListenerListed NoDeafRoom InOrderOnce
PROPERTIES Delivered DeadReaped
