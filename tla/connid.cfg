SPECIFICATION Spec
CONSTANTS
  Ip = {a1, a2}
  Worker = {w1, w2}
  window_secs = 3
  ClockLag = 1
  HandlerLag = 2
  MaxWall = 9
  MaxRestarts = 1
SYMMETRY Symmetry
INVARIANTS TypeOK HonestAccepted StaleRefused OnlyReachedAdmitted
