\* One file: uploaded, ingested by two slots, deleted and collected, with one fault.
SPECIFICATION FairSpec
CONSTANTS
  Files = {f1}
  Workers = {w1, w2}
  Deleters = {d1}
  Deliveries = 2
  MaxFaults = 1
INVARIANTS
  TypeOK
  ReadyIsWhole
  NoStrayChunks
  RowsAgree
  ObjectsAreAttributed
  RetentionSparesDocuments
PROPERTIES
  DocumentsSettle
  OrphansCollected
CHECK_DEADLOCK FALSE
