\* Two clients under fair scheduling contend for the pool and for the logger.
SPECIFICATION FairSpec
CONSTANTS
  Clients = {c1, c2}
  Conns = {k1, k2}
  NoConn = NoConn
  select = select
  bad = bad
  SQLs = {select, bad}
  selectText = selectText
  Texts = {selectText}
  Failed = Failed
  TranslateSQL <- MCTranslateSQL
  Operations <- OneOperation
  BaseDrivers <- SomeDriver
  LogFailedSQL = {TRUE}
  MaxRetries = 2
  MaxIdle = 1
INVARIANTS
  PoolInv
VIEW NoHistory
PROPERTIES
  EveryCallReturns
