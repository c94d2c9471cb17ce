\* Once MaxRequests have arrived and are answered, nothing is left to do.
SPECIFICATION Spec
CONSTANTS
  Req = {r1, r2}
  None = None
  User = {alice, bob}
  Complaint <- MCComplaint
  MaxRequests = 4
INVARIANTS TypeOK Balanced EnvelopeMatchesStatus LinesAttributed EveryAnswerLogged
SYMMETRY Symmetric
CHECK_DEADLOCK FALSE
