SPECIFICATION VerifierSpec
CONSTANTS
  None = None
  Callers = {c1, c2}
  Kids = {"k1", "k2"}
  MaxEpoch = 2
  Served <- Rotation
  MinRefresh = 2
  MaxAge = 2
  MaxExponent = 8
  MaxClock = 4
  Requests = {r1, r2}
  KeyIDs = {"k1", "k2"}
  LastEpoch = 1
  KeySets <- TwoSets
  NoKid = NoKid
  Tokens <- Arriving
  Issuer = "us"
  Audience = "me"
  AllowMultipleAudiences = TRUE
  Nonces = {"n"}
  Leeway = 1
  MaxLogoutTokenAge = 1
  LastTick = 2
  Absent = Absent
INVARIANT LogoutAppliedOnce
PROPERTY AcceptedSound
PROPERTY RefreshDiscipline
PROPERTY ImplementsKeySource
PROPERTY Answered
