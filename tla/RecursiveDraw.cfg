\* The engine alone matters: a screen that throws while it is drawn, and the next frame.
SPECIFICATION BrowserSpec
CONSTANTS
    Moving = {"engine"}
    MaxRequests = 2  Kinds = {"more", "critical"}
    Screens = {"s1"}  MaxScreens = 2  MaxLeaks = 1
    MaxImages = 3  Names = {"n1", "n2"}  NameOf <- SameName
    Sounds = {"a", "b"}  PreloaderImages = 1
    Elements = {"e1"}  Deferred = {"editor"}  MaxInits = 2  MaxSaves = 1  NoPanel = NoPanel
    Docs = {"d1", "d2"}  MaxDepth = 3  NoDoc = NoDoc
PROPERTIES NoFalseRecursion
CHECK_DEADLOCK FALSE
