SPECIFICATION FairSpec
CONSTANTS
  Names = {1, 2, 3, 4}
  PrefixOf <- MCPrefixOf
  UploadIds = {1, 2}
  PageSizes = {1, 2}
  MaxWrites = 1
  MaxPages = 12
INVARIANTS TypeOK  
PROPERTIES ListingEnds
CHECK_DEADLOCK FALSE
