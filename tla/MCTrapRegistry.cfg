SPECIFICATION Spec
CONSTANTS
  h1 = h1  h2 = h2  h3 = h3  r1 = r1  q1 = q1
  CodeLen = 12
  WindowLen = 3
  JumpLen = 2
  Boundaries <- MCBoundaries
  JumpSites <- MCSites
  Displaced <- MCLens
  Handles <- Three
  Rapids <- OneRapid
  Quiescents <- OneQuiet
  SiteOf <- MCClients
SYMMETRY Symmetry
INVARIANTS RegistryInv DisplacedDisjoint CommittedIsLive
PROPERTIES StoresOnlyOwnBytes MismatchIsOwn
