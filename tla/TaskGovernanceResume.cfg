SPECIFICATION Spec
CONSTANTS
  c1 = c1
  c2 = c2
  b1 = b1
  b2 = b2
  a1 = a1
  a2 = a2
  p1 = p1
  nobody = nobody
  Caller = {c1, c2}
  Body = {b1, b2}
  Truncated <- Cut
  Levels = {1}
  Approval = {a1, a2}
  Proposal = {p1}
  Nobody = nobody
  MaxVersions = 4
PROPERTIES
  ResumedWithoutPending
