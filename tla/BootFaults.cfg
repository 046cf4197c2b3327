SPECIFICATION FairSpec
CONSTANTS
  old = old  new = new  glyphs = glyphs  wide = wide  big = big
  locked = locked  odd = odd  short = short  long = long
  self = self  vast = vast  loader = loader
  v1 = v1  v2 = v2  v3 = v3
  Images = {old, wide, locked, odd, short, long, self, vast, loader}
  Versions = {v1, v2, v3}
  Pkg <- MCPkg
  Targets <- MCTargets
  PartLen <- MCPartLen
  DlLen = 2
  Bootable = {old, locked, odd, short, long}
  Factory = {old, None}
  Initial = old
  None = None  Blank = Blank  Torn = Torn
  MaxCuts = 1
  MaxFaults = 2
INVARIANT CommittedInstalled
PROPERTIES TouchedOnlyForVerified DefaultLastResort BootSettles
CHECK_DEADLOCK FALSE
