SPECIFICATION HistSpec
CONSTANTS
  k1 = k1 k2 = k2 k3 = k3 k4 = k4
  Keys = {k1, k2, k3, k4}
  ok = ok bad = bad
  Responses = {ok, bad}
  Storable = {ok}
  MaxEntries = 2
  MaxClock = 6
  MaxSkipped = 2
  Monotonic = TRUE
  StorageFaults = TRUE
  Persistent = TRUE
INVARIANT Overshoot
PROPERTIES EvictsOldest ImplementsLru
