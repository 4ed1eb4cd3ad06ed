SPECIFICATION WorkspaceSpec
CONSTANTS
    None = None
    Torn = Torn
    repl = repl
    Repl = repl
    Writers <- MCWriters
    Values <- MCValues
    Inodes <- MCInodes
    NGlobals = 3
    BuiltinSlots = {3}
    MaxObjs = 2
    MaxFns = 4
    MaxCommands = 5
    MaxKids = 2
    GcMayRun = FALSE
CHECK_DEADLOCK FALSE
INVARIANTS CallsRunOwnCode RoundTrip
PROPERTIES FileIsAtomic
