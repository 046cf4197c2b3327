SPECIFICATION FairSpec
CONSTANTS
  old = old  new = new  glyphs = glyphs  wide = wide  big = big
  locked = locked  odd = odd  short = short  long = long
  self = self  vast = vast  loader = loader
  v1 = v1  v2 = v2  v3 = v3
  Images = {old, new, glyphs, big}
  Versions = {v1, v2, v3}
  Pkg <- MCPkg
  Targets <- MCTargets
  PartLen <- MCPartLen
  DlLen = 3
  Bootable = {old, new, big}
  Factory = {None}
  Initial = old
  None = None  Blank = Blank  Torn = Torn
  MaxCuts = 3
  MaxFaults = 0
INVARIANTS TypeOK RunsWhole Recoverable
PROPERTIES AtomicUpgrade ReachesApplication UpgradeInstalled
