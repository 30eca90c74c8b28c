SPECIFICATION FairSpec
CONSTANTS
  long = long terse = terse other = other sse = sse list = list
  r1 = r1 r2 = r2 r3 = r3
  Requests = {r1, r2}
  Forms = {terse, sse, list}
  None = None
  Squeezed <- Same
  Engined <- Same
  Key <- Same
  Model <- Models
  Near <- NearPairs
  Small = {terse}
  Streams = {sse}
  PolicySkips = {list}
  Malformed = {list}
  Toggles = {"input"}
  Fixed = {"adaptive", "l1"}
INVARIANTS Audits Accounting
PROPERTY Completes
