CONSTANTS
  User = {u1}
  Sid = {s1, s2}
  Req = {r1, r2}
  Client = {c1}
  NoClient = NoClient
  NoUser = NoUser
  NoSid = NoSid
  NoToken = NoToken
  NoRecord = NoRecord
  AccessTTL = 1
  RefreshTTL = 2
  MaxClock = 1
SPECIFICATION BSpec
SYMMETRY Symmetric
INVARIANT StaysSignedIn
PROPERTIES BrowsersAreClients ImplementsContract
