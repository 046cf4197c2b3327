SPECIFICATION Spec
CONSTANTS
  old = old  new = new  glyphs = glyphs  wide = wide  big = big
  locked = locked  odd = odd  short = short  long = long
  self = self  vast = vast  loader = loader
  v1 = v1  v2 = v2  v3 = v3
  Images = {old, short}
  Versions = {v1, v2, v3}
  Pkg <- MCPkg
  Targets <- MCTargets
  PartLen <- MCPartLen
  DlLen = 3
  Bootable = {old, short}
  Factory = {None}
  Initial = old
  None = None  Blank = Blank  Torn = Torn
  MaxCuts = 0
  MaxFaults = 0
INVARIANT RunsWhole
CHECK_DEADLOCK FALSE
