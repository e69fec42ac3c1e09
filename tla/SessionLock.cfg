\* Four hooks: two may be displaced while a third and a fourth enter.
SPECIFICATION MCSpec
CONSTANTS
  Hook = {h1, h2, h3, h4}
  NoHook = NoHook
INVARIANTS
  LockTypeOK
  OverlapBounded
  InsideOwnsLock
PROPERTY NoWedge
