SPECIFICATION Spec
CONSTANTS
  Cids <- MCCids
  MessageCids <- MCMessageCids
  DecodesAs <- MCDecodesAs
  Blocks <- MCBlocks
  MaxArrivals = 4
INVARIANTS
  TypeOK
PROPERTIES
  FetchSpec
  FetchEnds
