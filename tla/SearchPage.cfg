SPECIFICATION Spec
CONSTANTS
    Words = {w1}
    Providers = {slack, confluence}
    None = None
    MaxSearches = 3
    MaxEdits = 1
    MaxBacks = 1
    Offset = 19800
INVARIANTS ShownIsTheQuery CountedIsFound FailureIsToasted
PROPERTIES UrlFollows
