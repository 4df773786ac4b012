CONSTANTS
  Threads = {t1, t2}
  PageSize = 2
  MaxSize = 3
  MaxLost = 1
  Mdls = {m1, m2, m3}
  NoMdl = NoMdl
SPECIFICATION Spec
INVARIANTS TypeOK ProtectionIsExact MappingsOwnedOnce CopiesAreInTheFile
PROPERTY PagesStay
CHECK_DEADLOCK FALSE
