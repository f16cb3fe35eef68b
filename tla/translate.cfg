SPECIFICATION Spec

CONSTANTS
  ChunkMax = 4
  MinTranslate = 2
  BatchBudget = 11
  BatchCap = 3
  Overhead = 1
  Retries = 2
  Formats = 2
  ShardMax = 5
  TitleWords = 1
  AuthorWords = 1
  AuthorLines = 2
  PartWords = 3
  RowWords = 3
  SubtitleHeadWords = 2
  SubtitleWords = 3
  Scenarios <- Everything

INVARIANTS
  TypeOK
  TextIsBatched
  OutputIsDocument
  CacheIsTrue
  CallsAreBounded
  CompleteIsComplete

PROPERTIES
  StoredNeverFalls
  TranslationEnds
  ServesSegments

CHECK_DEADLOCK FALSE
