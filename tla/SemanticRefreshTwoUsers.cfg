\* Two writers of different users; a refresh is due from the first change on.
SPECIFICATION Spec
CONSTANTS
  w1 = w1
  w2 = w2
  w3 = w3
  f1 = f1
  f2 = f2
  Absent = Absent
  Old = Old
  None = None
  Writers = {w1, w2}
  Files = {f1, f2}
  FileOf <- MCFileOf
  KeyOf <- MCTwoKeys
  Created = {}
  Threshold = 1
  MaxFaults = 0
CHECK_DEADLOCK FALSE
INVARIANT AcceptedCounted
