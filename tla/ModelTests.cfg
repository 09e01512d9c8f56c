CONSTANTS
    model = model
    fixture = fixture
    NTests = 3
    Files = {model, fixture}
    Needs <- MCNeeds
    Workspace = workspace
    Extra = extra
    None = none
    MaxParallel = 2
    MaxEdits = 2
    LoneDirs = FALSE
SPECIFICATION MCSpec
CHECK_DEADLOCK FALSE
INVARIANTS
    ReportIsTrue
    StopsAndCleansUp
PROPERTIES
    RunsSettle
