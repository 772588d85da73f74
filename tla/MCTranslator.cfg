\* Three goroutines under fair scheduling, a statement that translates and one that does not.
SPECIFICATION FairSpec
CONSTANTS
  Threads = {t1, t2, t3}
  NoThread = NoThread
  select = select
  show = show
  bad = bad
  SQLs = {select, bad}
  selectText = selectText
  showText = showText
  Texts = {selectText, showText}
  Failed = Failed
  Absent = Absent
  TranslateSQL <- MCTranslateSQL
  HitRange = 2
INVARIANTS
  TypeOK
  NoDataRace
  HitsExact
  CacheCoherent
  AnswerCorrect
  MissesExact
PROPERTIES
  CacheKept
  EveryCallReturns
  ImplementsLiveService
