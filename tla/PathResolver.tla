---------------------------- MODULE PathResolver ----------------------------
(***************************************************************************)
(* Path Resolver and Library Prober of src/native/tdlib/tdlib_addon.cc,    *)
(* both the Unix and the _WIN32 branch.  A candidate path is an opaque     *)
(* model value; what a path string denotes on disk is all the rest of the  *)
(* system distinguishes.                                                    *)
(***************************************************************************)
EXTENDS Naturals, Sequences

CONSTANTS
    EnvPath,        \* value of TDLIB_LIBRARY_PATH
    RelPath,        \* <dir of /proc/self/exe>/../../vendor/tdlib/lib/libtdjson.so
    RelCwdPath,     \* "../../vendor/tdlib/lib/libtdjson.so", relative to the cwd
    AppPath,        \* /app/native/vendor/tdlib/lib/libtdjson.so
    UsrSrcAppPath,  \* /usr/src/app/native/vendor/tdlib/lib/libtdjson.so
    UsrLocalPath,   \* /usr/local/lib/libtdjson.so
    OptPath,        \* /opt/tdlib/lib/libtdjson.so
    UsrLibPath,     \* /usr/lib/libtdjson.so
    WinRelPath,     \* <dir of the addon module>\..\..\vendor\tdlib\lib\tdjson.dll
    WinRelCwdPath,  \* "..\..\vendor\tdlib\lib\tdjson.dll", relative to the cwd
    NotFound,       \* find_tdjson_library_path throws "library not found"
    NoError         \* last_error is still empty

Paths == {EnvPath, RelPath, RelCwdPath, AppPath, UsrSrcAppPath,
          UsrLocalPath, OptPath, UsrLibPath, WinRelPath, WinRelCwdPath}

(* resolve_path(get_addon_directory(), "../../vendor/..."): when readlink  *)
(* of /proc/self/exe fails the base directory is "" and the joined string  *)
(* stays relative, so dlopen resolves it against the working directory;    *)
(* otherwise it is joined to the executable's directory and normalised.    *)
(* On _WIN32 the base is the addon module's own directory (empty when     *)
(* GetModuleFileNameW fails), every '/' becomes '\' and GetFullPathNameW   *)
(* normalises the result: both spellings of the relative path, "..\..\"   *)
(* and "../../", resolve to the same string.                               *)
ResolvePath(dirKnown, windows) ==
    CASE ~windows /\ dirKnown -> RelPath
      [] ~windows /\ ~dirKnown -> RelCwdPath
      []  windows /\ dirKnown -> WinRelPath
      []  windows /\ ~dirKnown -> WinRelCwdPath

(* get_tdjson_candidate_paths: the override first when set and non-empty, *)
(* then the addon-relative path(s), the deployment paths (not on _WIN32),  *)
(* and the system paths, which are pushed on every platform.               *)
CandidatePaths(envSet, dirKnown, windows) ==
    (IF envSet THEN <<EnvPath>> ELSE <<>>)
    \o (IF windows
        THEN <<ResolvePath(dirKnown, windows), ResolvePath(dirKnown, windows)>>
        ELSE <<ResolvePath(dirKnown, windows), AppPath, UsrSrcAppPath>>)
    \o <<UsrLocalPath, OptPath, UsrLibPath>>

(* The loop of find_tdjson_library_path from candidate i on: the first     *)
(* candidate whose probe (try_load_tdjson) succeeds, else NotFound.        *)
(* viable is the set of paths for which try_load_tdjson returns true.      *)
RECURSIVE FindFrom(_, _, _)
FindFrom(cands, viable, i) ==
    IF i > Len(cands) THEN NotFound
    ELSE IF cands[i] \in viable THEN cands[i]
    ELSE FindFrom(cands, viable, i + 1)

FindLibraryPath(cands, viable) == FindFrom(cands, viable, 1)

(* last_error of the same loop, as the path its dlerror text is about.     *)
(* A candidate whose dlopen fails leaves its error for the dlerror() after *)
(* the probe; one that opens but lacks create has had its dlsym error      *)
(* consumed inside try_load_tdjson, and dlclose sets none, so last_error   *)
(* keeps the earlier text.  opened is the set of paths dlopen succeeds on. *)
RECURSIVE LastErrorFrom(_, _, _, _, _)
LastErrorFrom(cands, opened, viable, i, err) ==
    IF i > Len(cands) \/ cands[i] \in viable THEN err
    ELSE LastErrorFrom(cands, opened, viable, i + 1,
                       IF cands[i] \in opened THEN err ELSE cands[i])

LastError(cands, opened, viable) == LastErrorFrom(cands, opened, viable, 1, NoError)
=============================================================================
