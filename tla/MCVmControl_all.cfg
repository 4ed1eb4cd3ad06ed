CONSTANTS
    MaxFrames = 3
    MaxActs = 4
    MaxDefers = 2
    MaxScopes = 2
    MaxDisturbedActs = 3
    MaxHost = 5
    Features = {"deferThrow", "returnInTry", "interrupt", "swallow", "skippedDefer"}
SPECIFICATION SeenSpec
CONSTRAINT OneDisturbance
INVARIANTS LoopsOwnFrames HandlersLiveUndisturbed CleanAtPromptUndisturbed OwnDefersUndisturbed
CHECK_DEADLOCK FALSE
