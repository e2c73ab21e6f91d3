--------------------------- MODULE MCPathResolver ---------------------------
(* Checks the search's diagnostic against spec 4.2 over every platform,    *)
(* environment setting and every outcome of dlopen and of the create       *)
(* lookup on each path.                                                     *)
EXTENDS PathResolver, SequencesExt

VARIABLES envSet, dirKnown, windows, opened, viable
vars == <<envSet, dirKnown, windows, opened, viable>>

Init ==
    /\ envSet \in BOOLEAN
    /\ dirKnown \in BOOLEAN
    /\ windows \in BOOLEAN
    /\ opened \in SUBSET Paths
    /\ viable \in SUBSET opened

Next == UNCHANGED vars

Spec == Init /\ [][Next]_vars

Cands == CandidatePaths(envSet, dirKnown, windows)

(* Spec 4.2: LibraryNotFound carries "the last observed loader error      *)
(* text": when every candidate fails, the error reported is the one the   *)
(* loader gave for the last candidate tried (the Unix build; the _WIN32    *)
(* build calls dlerror too, which does not exist there).                   *)
DiagnosticIsLastFailure ==
    ~windows /\ FindLibraryPath(Cands, viable) = NotFound =>
        LastError(Cands, opened, viable) = Last(Cands)
=============================================================================
