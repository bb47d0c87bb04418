SPECIFICATION FairSpec
CONSTANTS
  q1 = q1  o1 = o1  p1 = p1  p2 = p2  r1 = r1
  Revision = {r1}
  TotalFiles = 1
  Request = {q1}
  Outside = {}
  Poll = {p1}
  None = None
PROPERTY IndexingEnds
