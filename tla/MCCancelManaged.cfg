CONSTANTS
    Heavy = {h1}
    Light = {}
    NoRun = NoRun
    NoRow = NoRow
    MaxFails = 1
SPECIFICATION AskSpec
INVARIANT CancelIsRecorded
