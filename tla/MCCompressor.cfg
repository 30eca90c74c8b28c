SPECIFICATION Spec
CONSTANTS
  Texts <- MCTexts
  Payloads <- MCPayloads
  Options <- MCOptions
  CacheSize = 3
  CompressToolResults = TRUE
  CompressSystem = TRUE
  Long = {"a", "b"}
  Huge = {"a"}
  Skipped = {"c"}
  Squeezed <- MCSqueezed
  Touches <- MCTouches
  Marker = "marker"
  JLScore <- MCJLScore
  JLThreshold = 98
  LSHScore <- MCLSHScore
  LSHThreshold = 88
INVARIANTS TypeOK ProtectedUntouched CacheTransparent MarkersResolve
PROPERTY ImplementsLru
