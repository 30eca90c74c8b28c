SPECIFICATION Spec
CONSTANTS
  ta = ta
  tb = tb
  tc = tc
  tz = tz
  Texts <- MCTexts
  Responses = {r1, r2}
  MaxEntries = 2
  Cosine <- MCCosine
  Blank = {tz}
  Threshold = 90
  None = None
  MaxLookups = 3
INVARIANT NewestOnly
PROPERTIES ServesNearest ImplementsLru
