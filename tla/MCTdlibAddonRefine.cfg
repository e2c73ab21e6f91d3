CONSTANTS
    EnvPath = EnvPath
    RelPath = RelPath
    RelCwdPath = RelCwdPath
    AppPath = AppPath
    UsrSrcAppPath = UsrSrcAppPath
    UsrLocalPath = UsrLocalPath
    OptPath = OptPath
    UsrLibPath = UsrLibPath
    WinRelPath = WinRelPath
    WinRelCwdPath = WinRelCwdPath
    NotFound = NotFound
    NoError = NoError
    None = None
    NaN = NaN
    Workers = {w1, w2}
    Callers = {c1}
    EnvSet = TRUE
    AddonDirKnown = TRUE
    InitFs <- MCInitFsAll
    VolatilePaths = {EnvPath}
    Timeouts <- MCTimeouts
    MaxCalls = 2
    MaxFsChanges = 1
    AllocFails = TRUE
    CallbackThrows = TRUE
    CallLoop = FALSE
SPECIFICATION Spec
PROPERTY RegistryRefinement
PROPERTY BinderRefinement
INVARIANT HandleLive
