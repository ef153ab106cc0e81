CONSTANTS
  r1 = r1  r2 = r2  r3 = r3
  s1 = s1  s2 = s2
  ann = ann  bob = bob
  p1 = p1  p2 = p2
  None = None
  Requests = {r1, r2}
  Sales = {s1}
  Recipients = {ann}
  Passes = {p1}
  MaxTickets = 1
  Payloads <- ListPayloads
SYMMETRY Symmetry
SPECIFICATION Spec
PROPERTIES GiftedOnlyFromPending
