SPECIFICATION Spec
CONSTANTS
    Parts = {"log", "files", "feedback", "themes", "layout", "language", "process"}
    Levels = {0, 1}
    VisibleEntries = 2
    MaxLines = 3
    NoLog = NoLog
    Names = {"a", "b"}
    CURRENT_FILE = "a"
    Data = {"x", "y"}
    Paths <- MCPaths
    Capacity = 5
    TORN = "torn"
    DIR = "dir"
    ABSENT = "absent"
    FbNodes = {"n1", "n2", "n3"}
    MaxMessages = 2
    MaxAdds = 5
    NIL = NIL
    ThemeNames = {"dark", "default", "mine"}
    ThemeFiles = {"f", "g"}
    MenuThemes = 3
    NoTheme = NoTheme
    Terminals <- MCTerminals
    Entered <- MCEntered
    UsedLayouts = {"widescreen", "mobile"}
    NoSize = NoSize
    Languages = {"en", "zh"}
    EN = "en"
    Detectable = {"en", "zh"}
    Blocks = {"b1", "b2"}
    NULL = "null"
    Timeouts = {0, 1}
    MaxElapsed = 3
    MaxSetBacks = 1
INVARIANTS
    TypeOK
    PositionMatchesEntry
    MoveLosesNothing
    AdaptedDialogFits
    ChosenThemeApplied
    TableOwnsItsBlock
PROPERTIES
    ImplementsWindow
    WaitReturns
    TimedOutChildDies
