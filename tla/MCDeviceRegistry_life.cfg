CONSTANTS
  d1 = d1
  d2 = d2
  lx = lx
  ly = ly
  r1 = r1
  Ctl = Ctl
  Nil = Nil
  Disks = {d1, d2}
  Letters = {lx, ly}
  LetterOf <- OwnLetters
  MaxDevices = 2
  Requested = {0, 1, 3}
  Removed = {1}
  Removers = {r1}
SPECIFICATION Spec
INVARIANTS TypeOK UniqueNumbers AnswerIsTrue ThreadsLeaveNothing
PROPERTIES RemovedDiskGoes CreatorIsAnswered UnloadFinishes
CHECK_DEADLOCK FALSE
