\* Every chunk of up to 5 bytes over {0, 1, 255} with a window of 3; the
\* dispenser over 5 letters and width 3 (125 names); the server process
\* with three files, containers of two shares and two container names,
\* starting with and without clean and crashing at any point.
CONSTANTS
    Bytes = {0, 1, 255}
    MaxLen = 5
    Base = 257
    Mod = 1024
    WinSize = 3
    NumLetters = 5
    Width = 3
    g1 = g1
    g2 = g2
    g3 = g3
    FileIds <- MCFileIds
    Cap = 2
    MaxContainers = 2
    None = None
SYMMETRY MCSymmetry
SPECIFICATION Spec
INVARIANTS
    TypeOK
    RollingHashExact
    NamesFollowReference
    LifecycleTypeOK
    CompletedFilesRestorable
    RecipesIndexedWhileRunning
PROPERTY
    RefinesFileStore
\* rabin() returns and the dispenser throws: both end.
CHECK_DEADLOCK FALSE
