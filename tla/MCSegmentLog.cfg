SPECIFICATION Spec
CONSTANTS
  N = 3
  ChanCap = 2
  MaxRemove = 1
  MaxCrash = 2
  MaxDrop = 1
INVARIANTS
  TypeOK
  AckedIsKept
  WatermarkCoversSlot
  ExactlyOnce
  AppliedIsDurable
  DirectoryRecovers
  CatalogOnDisk
  ReaderNotStranded
