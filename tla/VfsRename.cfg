SPECIFICATION Spec
CONSTANTS
  RAMFS_MAX_FILES = 3
  RAMFS_MAX_DIRENT = 4
  Garbage <- LeftOver
  Path <- Paths
  MaxOpen = 1
  MaxRefs = 6
  MaxStray = 1
CHECK_DEADLOCK FALSE
PROPERTY RenameKeepsFile
