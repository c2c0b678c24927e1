SPECIFICATION WSpec
CONSTANTS
  MaxRecord = 2
  HeaderSize = 2
  Lens = {1, 2, 4, 5}
  MaxEntries = 3
  MaxStops = 2
  MaxErrors = 1
  PowerLosses = TRUE
INVARIANTS WTypeOK RecoveredWhole SyncedUntilCut
