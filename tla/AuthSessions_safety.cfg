CONSTANTS
  User = {u1, u2}
  Sid = {s1}
  Req = {r1, r2}
  NoUser = NoUser
  NoSid = NoSid
  NoToken = NoToken
  NoRecord = NoRecord
  AccessTTL = 1
  RefreshTTL = 2
  MaxClock = 2
SPECIFICATION Spec
INVARIANTS TypeOK RecordOutlivesToken DoomedRefused
PROPERTIES DeadStaysDead SuspendedGainsNothing
