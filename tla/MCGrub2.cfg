CONSTANTS
    Titles = {"a", "0", "S", "c"}
    BadTitle = BadTitle
    Absent = Absent
    MenuTexts <- MCMenuTexts
    DefaultValues <- MCDefaultValues
    TimeoutValues <- MCTimeoutValues
    GfxValues <- MCGfxValues
    NumeralValue <- MCNumeralValue
    TimeoutInputs <- MCTimeoutInputs
    ThemeFiles <- MCThemeFiles
SPECIFICATION Spec
INVARIANT TypeOK
INVARIANT DefaultEntryIsStable
INVARIANT TimeoutIsStable
PROPERTY SavedDefaultsSurviveRestart
