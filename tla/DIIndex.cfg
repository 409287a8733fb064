SPECIFICATION Spec
CONSTANTS
  c1 = c1
  c2 = c2
  i1 = i1
  i2 = i2
  d1 = d1
  d2 = d2
  Cmd <- Shells
  Inst <- Instances
  Id <- Ids
  NoRow = NoRow
  NoJob = NoJob
  Provider = {"docker", "macos"}
SYMMETRY Symmetry
CONSTRAINT Bounds
INVARIANTS TypeOK Registered OneRowPerInstance StatusTrue RowsHaveState
PROPERTY Registry
