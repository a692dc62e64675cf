\* Three writers of one user, two of one file, the third creates another; a refresh is due from the first change on.
SPECIFICATION Spec
CONSTANTS
  w1 = w1
  w2 = w2
  w3 = w3
  f1 = f1
  f2 = f2
  Absent = Absent
  Old = Old
  None = None
  Writers = {w1, w2, w3}
  Files = {f1, f2}
  FileOf <- MCShared
  KeyOf <- MCOneKey
  Created = {f2}
  Threshold = 1
  MaxFaults = 1
SYMMETRY MCSymmetry
CHECK_DEADLOCK FALSE
INVARIANTS TypeOK AcceptedCounted
