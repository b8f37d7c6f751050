SPECIFICATION Spec
CONSTANTS
  Corpora <- SomeCorpora
  StopWords <- SomeStopWords
  Meanings <- SomeMeanings
  Malformed <- SomeMalformed
  MaxKeyups = 2
  NumPerPage = 1
  NoIndex = NoIndex
INVARIANTS TypeOK UnansweredHasACause BreadcrumbIsComplete
PROPERTIES IndexHoldsTheCorpus AnswersMeanTheirQueries ResultsNeverGoBack LastQueryIsShown
\* The user stops typing, and every message is delivered.
CHECK_DEADLOCK FALSE
