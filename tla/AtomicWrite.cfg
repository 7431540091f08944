SPECIFICATION Spec
CONSTANTS
    NoFile = NoFile
    Torn = Torn
    MaxWrites = 4
    MaxKills = 3
INVARIANT TypeOK
INVARIANT VaultAlwaysWhole
INVARIANT TempsAccounted
INVARIANT AckedWriteSurvives
INVARIANT BackupNeverBehindRekey
CHECK_DEADLOCK FALSE
