SPECIFICATION Spec
CONSTANTS
    Space = 4
    Hidden <- MCHidden
    Completes <- MCCompletes
    Keys <- MCKeys
    HighBytes = {12}
    MaxLen <- MCMaxLen
    Add <- MCAdd
    Delete <- MCDelete
    Edit <- MCEdit
    Update <- MCUpdate
    Rekey <- MCRekey
    Exit <- MCExit
    OtherCommands <- MCOther
    Generate <- MCGenerate
    Generated <- MCGenerated
    Base32 = {6}
    Separators = {4, 8}
    Stored <- MCStored
    Master <- MCMaster
    MaxChanges = 2
    Base = 16
    Quote = 7
    Comma = 9
    Newline = 3
    Apostrophe = 10
    Backslash = 11
    Formula = {1, 8}
    Named <- MCNamed
    Controls = {0, 1, 2, 3}
    LetterU = 6
CHECK_DEADLOCK FALSE
INVARIANT TypeOK
INVARIANT BufferClean
INVARIANT ScreenMatches
INVARIANT TerminalRestored
INVARIANT EntriesAreWhole
INVARIANT VaultReadsBack
INVARIANT ExportReadsBack
PROPERTY TabKeepsInput
PROPERTY OnlyTheNamedEntry
