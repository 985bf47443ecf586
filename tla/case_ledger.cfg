\* Two payments by webhook, and a case that an earlier batch, if any, left ESCALATED;
\* two requests, a worker and two humans at a time.
CONSTANTS
  p1 = p1
  p2 = p2
  p3 = p3
  r1 = r1
  r2 = r2
  w1 = w1
  m1 = m1
  m2 = m2
  Payments = {p1, p2, p3}
  Escalated = {p3}
  Requests = {r1, r2}
  Workers = {w1}
  Humans = {m1, m2}
  MaxFailures = 1
  MaxEvents = 2
SPECIFICATION Spec
SYMMETRY Symmetry
INVARIANT
  RefsAreGapless
PROPERTY
  KeepsAuditLog
