SPECIFICATION Spec
CONSTANTS
  h1 = h1  h2 = h2  h3 = h3  u1 = u1  u2 = u2
  Hook = {h1, h2}
  NoHook = NoHook
  Use = {u1, u2}
  NoUse = NoUse
  Declined = {u2}
  NoFile = NoFile
  Kinds = {"start", "tool", "stop", "end"}
  MaxSeen = 2
  MaxKills = 1
INVARIANT TypeOK
PROPERTIES
  LockedWriteKeepsFile
  EveryHookEnds
