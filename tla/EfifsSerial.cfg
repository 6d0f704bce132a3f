SPECIFICATION Spec
CONSTANTS
  Driver <- Two
  AdminOpers = {"add"}
  Texts <- EspRows
  NoEspTexts <- OtherRows
  Chunk = 2
  MemMax = 7
  PipeCap = 2
  NoOutput = NoOutput
  MaxVers = 2
  MaxTrans = 2
  MaxFaults = 2
INVARIANTS
  TypeOK
  DriversMatch
  AddDone
  BufferHolds
  OutputWhole
  NothingLeft
PROPERTIES
  TransactionEnds
