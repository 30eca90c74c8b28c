SPECIFICATION LimiterSpec
CONSTANTS
  a = a b = b c = c
  Clients = {a, b, c}
  Capacity = 4
  Cost = 2
  Refill = 1
  MaxClients = 2
  MaxTime = 3
  MaxEvictions = 1
INVARIANT RateBound
PROPERTIES LazyRefillExact BucketsImplementLru
