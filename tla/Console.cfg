\* The parts of the console, one at a time.
CONSTANTS
  Viewers = {v1}
  BufferSize = 1
  MaxRuns = 2
  Lists = {urls}
  Layouts = {plain, wide}
  Texts = {plain, word}
  Filters = {plain, blocked}
  Plain = plain
  MaxPage = 1
  MaxEdits = 2
  Keys = {k}
  LastPage = 3
  Stub = 2
  MaxRequests = 4
  MaxResets = 2
  MaxIds = 4
  Values = {x, y, z}
  MaxChanges = 3
  Notes = {n1, n2}
  MaxPolls = 2
  MaxEvents = 5
  Dialogs = {d1, d2}
  Domains = {a, b}
  MaxCases = 1
  MaxSaves = 2
  DueDomains = {n1, n2}
  MaxDueCases = 1
  MaxTime = 2
  MaxUpdates = 2
SPECIFICATION ConsoleSpec
INVARIANTS
  TypeOK
  ShownIsTrue ListsAreFresh
  RowsAnswerTheControls FirstFetchIsTheOnlyOne LayoutIsSaved
  LoadingIsAlive NothingFromBefore LoadedIsWhole
  QueryIsATree EditsAreExact
  RowIsTrue
  SavedMeansStored CasesAreWhole
  TasksFollowDates
PROPERTIES
  EndIsShown BadgeCorrects
CHECK_DEADLOCK FALSE
