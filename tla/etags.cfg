SPECIFICATION Spec

CONSTANTS
  p1 = p1
  p2 = p2
  p3 = p3
  p4 = p4
  p5 = p5
  None = None
  Proc = {p1, p2, p3, p4, p5}
  Worlds <- CAllWorlds
  PartSize = 2
  IntBits = 3
  MaxPart = 3
  MaxRetries = 2

INVARIANTS
  CollectsServerEtags
