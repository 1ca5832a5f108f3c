SPECIFICATION Spec
CONSTANTS
  Names = {"sh", "kbd"}
  NameLen <- MCNameLen
  Sizes = {0, 3, 4, 5}
  MaxFiles = 3
  ArchiveHdr = 1
  FileHdr = 3
  Page = 4
PROPERTIES
  LookupFindsFile
  ExtractInvertsCreate
CHECK_DEADLOCK FALSE
