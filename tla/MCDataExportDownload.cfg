SPECIFICATION Spec
CONSTANTS
  w1 = w1
  w2 = w2
  d1 = d1
  d2 = d2
  r1 = r1
  r2 = r2
  None = None
  Workers = {w1, w2}
  Downloads = {d1, d2}
  Grants = {r1, r2}
  MaxGen = 1
  Stuck = {}
  ListLimit = 1
  RotationSize = 1
  MaxFaults = 1
SYMMETRY RequestsSymmetry
INVARIANTS NoGrantOutlivesPackage
PROPERTIES ReservationIsFenced RevokedStartsNothing
