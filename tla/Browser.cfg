\* The engine, with two requests and one screen; undo, with three mementos of two documents;
\* loading, of three images under two names and of two sounds; and the pages: a table, new
\* items and one element, whose editor waits for its properties.
SPECIFICATION BrowserSpec
CONSTANTS
    Moving = {"engine", "undo", "loading", "admin"}
    MaxRequests = 2  Kinds = {"more", "critical"}
    Screens = {"s1"}  MaxScreens = 2  MaxLeaks = 1
    MaxImages = 3  Names = {"n1", "n2"}  NameOf <- SameName
    Sounds = {"a", "b"}  PreloaderImages = 1
    Elements = {"e1"}  Deferred = {"editor"}  MaxInits = 2  MaxSaves = 1  NoPanel = NoPanel
    Docs = {"d1", "d2"}  MaxDepth = 3  NoDoc = NoDoc
INVARIANTS BrowserTypeOK FirstRunsInOrder DamageHasCause PageInView SavesOwn
PROPERTIES ErrorsBalanced EventsRun FramesServe KeepsTimeline PageShown
           CompleteMeansLoaded FailuresReported LoadingEnds
CHECK_DEADLOCK FALSE
