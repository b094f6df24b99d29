SPECIFICATION Spec
CONSTANTS
    NoHandle = NoHandle
    Schemes = {"none", "zip", "aes", "aes1", "aes2"}
    Bodies <- MCBodies
    Hints = {0, 4}
    Slack = 4
    Zip64Limit = 4
    FieldMax = 6
    CountLimit = 1
    TailCells = 1
    MaxWrites = 2
    MaxSessions = 3
INVARIANTS
    RecordsSpeakTrue
    ContentComesBack
    OnlyTheWrittenIsTrusted
CHECK_DEADLOCK FALSE
