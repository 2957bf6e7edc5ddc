CONSTANTS
    VGA_WIDTH = 2
    VGA_HEIGHT = 2
    MaxPrinted = 5
    Alphabet <- MCAlphabet
    Strings <- MCStrings
    Numbers = {0, 7, 30, 105}
    Colors <- MCColors
SPECIFICATION ConsoleSpec
INVARIANTS
    ConsoleTypeOK
    LineInOrder
    ScreenShowsTail
    NumberReadable
PROPERTIES
    SentAtRate
    AllIsSent
CHECK_DEADLOCK FALSE
