CONSTANTS
  n1 = n1
  n2 = n2
  p1 = p1
  p2 = p2
  NoPlat = NoPlat
  Procs = {p1}
  Names = {n1, n2}
  Arches = {"amd64", "arm64"}
  Images = {"a1", "a2", "r1", "b1", "x1"}
  PlatOf <- PlainPlat
  Published <- SharedPublished
  Loads <- NoLoads
  Pushers = {}
  MaxOps = 4
  MaxFaults = 0
SPECIFICATION Spec
INVARIANT
  PullSucceeds
CHECK_DEADLOCK FALSE
