CONSTANTS
  Users = {u1, u2}
  Admin = u1
  Keys = {k1}
  Requests = {r1, r2}
  LastHash = 3
  MaxTokens = 1
  MaxEdits = 1
  Faults = {"api", "key", "restart"}
SYMMETRY Symmetry
SPECIFICATION Spec
INVARIANTS
  RevokedChangeNothing
PROPERTIES
  RefinesDirectory
  TokensStayRevoked
  AcceptedStaysAccepted
