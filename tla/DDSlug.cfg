SPECIFICATION Spec
CONSTANTS
  c1 = c1
  c2 = c2
  s1 = s1
  s2 = s2
  p1 = p1
  p2 = p2
  p3 = p3
  p4 = p4
  Cmd <- Commands
  Source <- Sources
  Password <- Passwords
  Absent = Absent
  Torn = Torn
  NoJob = NoJob
INVARIANTS TypeOK SecretKept FilesAgree
PROPERTY Lifecycle
SYMMETRY Symmetry
