CONSTANTS
  s1 = s1  s2 = s2  s3 = s3  p1 = p1  o1 = o1  o2 = o2  o3 = o3
  None = None
  Owner = {o1, o2, o3}
  Session <- MCSession
  Proc <- OneProc
  ProcOf <- OneProcOf
  OwnerOf <- OwnOwner
SPECIFICATION Spec
INVARIANTS HolderOnDisk 
PROPERTIES NoTheft CheckBlindSpot
CHECK_DEADLOCK FALSE
