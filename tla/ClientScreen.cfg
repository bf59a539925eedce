SPECIFICATION ScreenSpec
CONSTANTS
    Text = {"a", "b"}
    Sizes = {2, 3}
    Tcp = TRUE
    MaxOutput = 2
    MaxKeys = 1
    MaxResizes = 1
INVARIANTS TerminalTrue
CHECK_DEADLOCK FALSE
