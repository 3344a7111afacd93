SPECIFICATION ConnSpec
CONSTANTS
  Letters <- Alphabet
  Clients <- TwoClients
  Calls <- Script
  ScanOrder <- KeyOrder
  Contents <- Filled
  MAX_ATTEMPTS = 2
  ListOrder <- ObjectOrder
  Objects <- FilledObjects
  Dsns <- DsnSet
  EnvDsn <- Env
  Tenant <- Ours
INVARIANTS
  TypeOK
  ReplyIsOwn
  PrefixIsolated
PROPERTIES
  ImplementsKVStore
  CallsEnd
CHECK_DEADLOCK FALSE
