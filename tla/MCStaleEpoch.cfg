SPECIFICATION Spec
CONSTANTS
  go1 = go1
  go2 = go2
  cpp2 = cpp2
  o1 = o1
  o2 = o2
  i1 = i1
  i2 = i2
  None = None
  Processes = {go1, go2, cpp2}
  Local <- MCLocal
  Expected <- MCExpected
  Operators = {o1, o2}
  Ids = {i1, i2}
  Targets = {"go", "cpp"}
  MaxLease = 2
  ReceiptTTL = 2
  MaxEpoch = 2
  MaxTime = 2
  MaxChanges = 3
SYMMETRY Symmetry
INVARIANTS
  StaleStaysOut
