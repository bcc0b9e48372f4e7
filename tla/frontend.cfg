CONSTANTS
  Outputs = {o1, o2, o3}
  None = None
  Listed = {b32}
  Unlisted = b160
  FirstListed = b32
  DefaultBitrate = b32
  Missing = Missing
SPECIFICATION ConfigSpec
SYMMETRY OutputSymmetry
INVARIANTS
  ActiveIsAlive EveryOutputHasItsOwner NothingSurvivesUnload
  LastSaveIsOnDisk LiveConfigIsOnDisk
PROPERTIES StartSparesBroadcast ConfirmingChangesNothing
CHECK_DEADLOCK FALSE
