CONSTANTS
  Timers = {t1, t2}
  W = 12
  H = 2
  Timeouts = {1, 3, 6}
  Latency = 1
SPECIFICATION Spec
SYMMETRY Symmetry
INVARIANTS TypeOK CountsOverflows Armed OnTime
