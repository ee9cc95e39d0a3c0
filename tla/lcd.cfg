SPECIFICATION Spec
CONSTANTS
    Width = 3
    Chars = {"a", "b", " "}
    Blank = " "
    Texts <- MCTexts
    Welcome <- MCWelcome
    SaveText <- MCSaveText
    SaveOverlay <- MCSaveOverlay
INVARIANT TypeOK
INVARIANT ScreenAsDrawn
PROPERTY ImplementsContract
PROPERTY RedrawEnds
