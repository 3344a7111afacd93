SPECIFICATION ConnSpec
CONSTANTS
  Letters <- Alphabet
  Clients <- OneClient
  Calls <- OneSet
  ScanOrder <- KeyOrder
  Contents <- Filled
  MAX_ATTEMPTS = 2
  ListOrder <- ObjectOrder
  Objects <- FilledObjects
  Dsns <- DsnSet
  EnvDsn <- Env
  Tenant <- Ours
PROPERTY
  Retries5xx
CHECK_DEADLOCK FALSE
