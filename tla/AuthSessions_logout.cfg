CONSTANTS
  User = {u1}
  Sid = {s1}
  Req = {r1, r2}
  NoUser = NoUser
  NoSid = NoSid
  NoToken = NoToken
  NoRecord = NoRecord
  AccessTTL = 1
  RefreshTTL = 2
  MaxClock = 0
SPECIFICATION Spec
INVARIANTS LogoutFinal
