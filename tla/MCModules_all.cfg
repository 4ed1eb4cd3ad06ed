CONSTANTS
    init = init
    table = table
    pkg = pkg
    pkg_table = pkg_table
    File = {init, table}
    Pkg = {pkg, pkg_table}
    InitOf <- MCInitOf
    SubOf <- MCSubOf
    NoFile = NoFile
    MaxNs = 4
    MaxStack = 6
    MaxPlain = 2
    MaxDisturbed = 4
    Features = {"leave", "silent", "swallow", "frameLimit", "conflict"}
SPECIFICATION SeenSpec
CONSTRAINT OneDisturbance
INVARIANTS FilesSoundUndisturbed PackagesSoundUndisturbed LoadedOnce LoadingExact IncludeInnermostUndisturbed
CHECK_DEADLOCK FALSE
VIEW View
