SPECIFICATION StoreSpec
CONSTANTS
  Contents <- MCContents
  Unencodable <- MCUnencodable
  HeaderLists <- MCHeaderLists
  CidLists <- MCCidLists
  Cars <- MCCars
  NoCid = 0
  None = None
  MaxStoreCalls = 5
INVARIANTS
  StoreTypeOK
  PutsAreKept
  LoadedAsAsked
  LoadsAgain
CHECK_DEADLOCK FALSE
