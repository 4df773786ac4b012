CONSTANTS
  r1 = r1
  r2 = r2
  r3 = r3
  r4 = r4
  m = m
  w1 = w1
  w2 = w2
  w3 = w3
  FileReqs = {r1, r2, r3, r4}
  OtherReqs = {m}
  Workers = {w1, w2, w3}
  Threshold = 1
  NoReq = NoReq
SPECIFICATION Spec
INVARIANTS TypeOK PlacesAreExact ServedOnce
PROPERTY PostedIsServed
