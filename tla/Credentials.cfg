SPECIFICATION Spec
CONSTANTS
  Hook = {h1, h2}
  User = User
  NoCred = NoCred
  Rotates = TRUE
  MaxIssued = 3
SYMMETRY Symmetry
INVARIANTS
  TypeOK
  LoginKept
  LogoutKept
