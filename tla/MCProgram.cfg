\* Two edits between starts, so that values of the file, of the command line and
\* of a generated file meet.  Numbers are two bytes wide.
CONSTANTS
    Files = {"/app.js"}
    Missing = {"/gone"}
    FileEdits <- MCFileEdits
    Overrides <- MCOverrides
    DeviceTables <- MCDeviceTables
    Difficulties <- MCDifficulties
    MaxEdits = 2
    SIZE_BYTES = 2
SPECIFICATION Spec
INVARIANT TypeOK
INVARIANT NothingUnwanted
INVARIANT DocumentedRequestsHandled
INVARIANT SettingsObeyed
INVARIANT GeneratedFileIsNeutral

