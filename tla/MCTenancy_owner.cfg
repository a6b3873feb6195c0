CONSTANTS
  Foci = {"workspaces"}
  u1 = u1
  u2 = u2
  h1 = h1
  h2 = h2
  o1 = o1
  Users = {u1, u2}
  Home <- MCHome
  Slugs <- MCSlugs
  Provisioned <- MCUnprovisioned
  Operators = {}
  Browsers = {b1, b2}
  Invites = {}
  NoSession = NoSession
  Idle = Idle
  NoInvite = NoInvite
  OrgWorkspaces = {w1, w2}
  Domains = {d1}
  Tokens = {k1, k2, k3}
  Verifiers = {r1, r2}
  NoClaim = NoClaim
  States = {s1, s2, s3}
  Callbacks = {c1, c2}
  Names = 2
  NoHandshake = NoHandshake
  Taken = Taken
  NoGrant = NoGrant
  NoDrive = NoDrive
  Kids = {n1, n2}
  Logins = {q1, q2}
  JWKS_TTL = 2
  HTTP_TIMEOUT = 1
  MaxKeyTime = 3
SPECIFICATION TenancySpec
SYMMETRY TenancySymmetry
PROPERTY LastOwnerStays
