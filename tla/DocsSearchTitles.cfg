\* A user types titles.
SPECIFICATION Spec
CONSTANTS
  Corpora <- SomeCorpora
  StopWords <- SomeStopWords
  Meanings <- SomeTitles
  Malformed = {}
  MaxKeyups = 1
  NumPerPage = 1
  NoIndex = NoIndex
INVARIANTS TitleFindsItsPage
CHECK_DEADLOCK FALSE
