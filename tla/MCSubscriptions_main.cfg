SPECIFICATION FairSpec
CONSTANTS
  a1 = a1
  a2 = a2
  b = b
  u1 = u1
  u2 = u2
  Raws = {a1, a2, b}
  Fingerprint <- MCFingerprint
  Subs = {s1}
  Callers = {c1}
  Togglers = {g1}
  Urls = {u1, u2}
  Offers <- MCOffers
  Tagged = {u1, u2}
  MaxChanges = 1
  MaxEdits = 1
  MaxElapses = 1
  MaxFailures = 1
  None = None
INVARIANTS TypeOK RowsAreOneFetch OneSyncPerMark
PROPERTIES IdsNameOneNode NeverOlder UnmodifiedMeansStored IdentityKept SameNodesSameRows DueIsSynced
