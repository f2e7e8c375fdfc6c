SPECIFICATION FairSpec
CONSTANTS
    Hooks = {"text", "mode"}
    Vals <- MCVals
    Acts <- MCActs
    InitVal = 0
    Effects = {"sync", "editors"}
    Deps <- MCDeps
    MaxQueue = 3
    MaxTasks = 2
INVARIANTS HandlersSeeState ClickEffectsDone WorkScheduled
PROPERTIES ImplementsRendering NoEffectOvertaken Settles
