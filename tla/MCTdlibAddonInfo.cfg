CONSTANTS
    EnvPath = EnvPath
    RelPath = RelPath
    RelCwdPath = RelCwdPath
    AppPath = AppPath
    UsrSrcAppPath = UsrSrcAppPath
    UsrLocalPath = UsrLocalPath
    OptPath = OptPath
    UsrLibPath = UsrLibPath
    WinRelPath = WinRelPath
    WinRelCwdPath = WinRelCwdPath
    NotFound = NotFound
    NoError = NoError
    None = None
    NaN = NaN
    Workers = {w1}
    Callers = {c1}
    EnvSet = TRUE
    AddonDirKnown = TRUE
    InitFs <- MCInitFsComplete
    VolatilePaths = {}
    Timeouts <- MCTimeouts
    MaxCalls = 0
    MaxFsChanges = 0
    AllocFails = FALSE
    CallbackThrows = FALSE
    CallLoop = FALSE
SPECIFICATION Spec
INVARIANT InfoAllOrNothing
