CONSTANTS
    EnvPath = EnvPath
    RelPath = RelPath
    RelCwdPath = RelCwdPath
    AppPath = AppPath
    UsrSrcAppPath = UsrSrcAppPath
    UsrLocalPath = UsrLocalPath
    OptPath = OptPath
    UsrLibPath = UsrLibPath
    WinRelPath = WinRelPath
    WinRelCwdPath = WinRelCwdPath
    NotFound = NotFound
    NoError = NoError
SPECIFICATION Spec
INVARIANT DiagnosticIsLastFailure
