SPECIFICATION Spec
CONSTANTS
  R = {r1, r2, r3}
  Passwords = {p1, p2}
  Default = p1
  None = None
  Room = 1
  MaxPools = 2
  u1 = u1
  Users = {u1, u2}
  Upgraded = {}
  Blank = Blank
  Absent = Absent
  Assets = {a1}
  NoFile = NoFile
INVARIANT OldSessionsEnd
