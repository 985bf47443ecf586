\* The capture of a customer without a Razorpay id never heals the case.
CONSTANTS
  p1 = p1
  p2 = p2
  w1 = w1
  w2 = w2
  h1 = h1
  h2 = h2
  c1 = c1
  NoContact = NoContact
  Contacts = {c1}
  ContactOf <- OneContact
  Registered = {}
  Payments = {p1}
  Escalating = {}
  PaidLater = {p1}
  Workers = {}
  Handlers = {h1}
  MaxFailures = 0
  CountLimit = 2
SPECIFICATION FairSpec
PROPERTY
  CaptureHealsCase
