CONSTANTS
    EnvPath = EnvPath
    RelPath = RelPath
    RelCwdPath = RelCwdPath
    AppPath = AppPath
    UsrSrcAppPath = UsrSrcAppPath
    UsrLocalPath = UsrLocalPath
    OptPath = OptPath
    UsrLibPath = UsrLibPath
    WinRelPath = WinRelPath
    WinRelCwdPath = WinRelCwdPath
    NotFound = NotFound
    NoError = NoError
    None = None
    NaN = NaN
    Workers = {w1, w2}
    Callers = {c1}
    EnvSet = TRUE
    AddonDirKnown = TRUE
    InitFs <- MCInitFsAll
    VolatilePaths = {EnvPath}
    Timeouts <- MCTimeouts
    MaxCalls = 2
    MaxFsChanges = 1
    AllocFails = FALSE
    CallbackThrows = FALSE
    CallLoop = FALSE
SPECIFICATION Spec
INVARIANT TypeOK
INVARIANT NoLeakedHandle
INVARIANT ClientsImplyBinding
PROPERTY CreateClientSettles
