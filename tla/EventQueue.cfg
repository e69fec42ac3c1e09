SPECIFICATION Spec
CONSTANTS
  e1 = e1  e2 = e2  e3 = e3  e4 = e4  again = again  s1 = s1  s2 = s2
  Hook = {h1, h2}
  Event = {e1, e2, e3, again}
  Session = {s1, s2}
  SessionOf <- MCSessionOf
  IdOf <- MCIdOf
  Batch <- FewBatches
  MaxHanded = 2
  MaxQueued = 2
  MaxBatch = 1
  Connected = {s1, s2}
  MaxKills = 1
SYMMETRY Symmetry
CONSTRAINT ThreeHandIns
INVARIANTS
  TypeOK
  LostOnlyByRace
  QueueBounded
PROPERTIES
  SessionShedsOldest
  NoResend
