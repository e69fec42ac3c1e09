SPECIFICATION Spec
CONSTANTS
  h1 = h1  h2 = h2  h3 = h3  u1 = u1  u2 = u2
  Hook = {h1, h2, h3}
  NoHook = NoHook
  Use = {u1}
  NoUse = NoUse
  Declined = {}
  NoFile = NoFile
  Kinds = {"tool", "stop", "end"}
  MaxSeen = 2
  MaxKills = 1
SYMMETRY Symmetry
CONSTRAINT Whole
INVARIANTS
  CountedOnce
  NoEditLost
