SPECIFICATION Spec
CONSTANTS
  long = long terse = terse other = other sse = sse list = list
  r1 = r1 r2 = r2 r3 = r3
  Requests = {r1, r2}
  Forms = {long, terse, other}
  None = None
  Squeezed <- LinguaMap
  Engined <- Same
  Key <- Same
  Model <- Models
  Near <- NearPairs
  Small = {terse}
  Streams = {}
  PolicySkips = {}
  Malformed = {}
  Toggles = {"lingua", "adaptive"}
  Fixed = {"input", "l1"}
INVARIANT CacheSound
