SPECIFICATION DispatchSpec
CONSTANTS
  b = b k = k u = u v = v
  Boot = b
  Task = {b, k, u, v}
  Kern = {k}
  WaitList = {}
  TIC_MAX = 1
INVARIANT NeverDeadLocks
