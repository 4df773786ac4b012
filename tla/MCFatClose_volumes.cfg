CONSTANTS
  v1 = v1
  a = a
  b = b
  s = s
  fa = fa
  fb = fb
  w1 = w1
  w2 = w2
  Vols = {v1}
  Users = {a, b}
  Streams = {s}
  VolOf <- MCVolOf
  Opens <- MCOpens
  Fcbs = {fa, fb}
  Workers = {w1, w2}
  MaxDelayed = 1
  Nobody = Nobody
  Flusher = Flusher
  Scanner = Scanner
  ShutsDown = ShutsDown
  NoFile = NoFile
  NoVol = NoVol
  NoFcb = NoFcb
SPECIFICATION Spec
INVARIANTS TypeOK VolumeOutlivesFiles CountsAreExact OneWorkerPerFlag
CHECK_DEADLOCK FALSE
PROPERTY ClosesAreDone
