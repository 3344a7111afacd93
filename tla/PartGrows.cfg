SPECIFICATION ConnSpec
CONSTANTS
  Letters <- Alphabet
  Clients <- TwoClients
  Calls <- Growth
  ScanOrder <- KeyOrder
  Contents <- Filled
  MAX_ATTEMPTS = 2
  ListOrder <- ObjectOrder
  Objects <- FilledObjects
  Dsns <- RedisDsn
  EnvDsn <- Env
  Tenant <- Ours
PROPERTY
  PartsNeverGrow
CHECK_DEADLOCK FALSE
