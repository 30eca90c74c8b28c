SPECIFICATION SettingsSpec
CONSTANTS
  L2 = L2 l1 = l1
  Flags = {L2, l1}
  NSections = 2
  v = v w = w
  Values = {v, w}
  Bad = Bad Torn = Torn NoFile = NoFile
  Defaults <- AllOff
  DiskFaults = TRUE
  MaxPosts = 3
INVARIANT L2FollowsToggle
