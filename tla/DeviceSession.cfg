SPECIFICATION Spec
CONSTANTS
  Nothing = Nothing
  Gone = Gone
  Messages <- Five
  m1 = m1
  m2 = m2
  m3 = m3
  m4 = m4
  m5 = m5
  Classes <- AllClasses
  Batches <- SomeBatches
  MaxRows = 1
  Top = 3
  MaxItems = 2
  Values <- SomeValues
  WordList <- Vocabulary
  Rows = 2
  MaxText = 3
  Mnemonics <- SomeMnemonics
  Counts <- SomeCounts
  PageWords = 2
  PoolMax = 3
  ItemMax = 2
  Pins <- SomePins
  Phrases <- SomePhrases
INVARIANTS SignsLastScanned BatchAllOrNone MessagesOwned CodeIsOfRequest SourceTold PageTells CoinsKept TotalsAgree SeedIsChosen WordsOffered StackNeverFull ChipHasAccount PanelHasSeed
