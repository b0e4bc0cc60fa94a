SPECIFICATION Spec
CONSTANTS
  Tables <- MCTables
  Epochs <- MCEpochs
  NoPrice = NoPrice
  Sizes <- MCSizes
  Sectors <- MCSectors
INVARIANTS
  TypeOK
  LatestPrice
  UpgradesAgree
  
