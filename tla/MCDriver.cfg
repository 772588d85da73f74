\* One client, every set of base driver interfaces, logging on and off.
SPECIFICATION Spec
CONSTANTS
  Clients = {c1}
  Conns = {k1, k2}
  NoConn = NoConn
  select = select
  bad = bad
  SQLs = {select, bad}
  selectText = selectText
  Texts = {selectText}
  Failed = Failed
  TranslateSQL <- MCTranslateSQL
  Operations <- SomeOperations
  BaseDrivers <- AnyDriver
  LogFailedSQL = {TRUE, FALSE}
  MaxRetries = 2
  MaxIdle = 1
INVARIANTS
  TypeOK
  OnlyTranslationsExecuted
  EffectOnce
  FailureLogged
  LogFaithful
