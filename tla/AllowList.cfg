SPECIFICATION Spec
CONSTANTS
  None = None
  Writers = {w1, w2}
  Readers = {r1}
INVARIANTS SavedWhole PurgeDropsOld
PROPERTIES AllReturn
