---------------------------- MODULE MCTdlibAddon ----------------------------
(* Instances of TdlibAddon for TLC.  The override path and the            *)
(* /usr/local/lib path are the ones whose contents vary; every other       *)
(* candidate is absent, which only lengthens the same search.              *)
EXTENDS TdlibAddon

\* Libraries at the two varying paths: absent, not tdjson (no create),
\* missing execute and destroy (rollback after three pointers), complete.
MCShapes == {Absent, 0, 3, 5}

FsWith(env, local) ==
    [p \in Paths |-> CASE p = EnvPath      -> env
                       [] p = UsrLocalPath -> local
                       [] OTHER            -> Absent]

MCInitFsAll == {FsWith(e, l) : e \in MCShapes, l \in {Absent, 5}}
MCInitFsComplete == {FsWith(Absent, 5)}
MCInitFsNoDestroy == {FsWith(4, Absent)}

MCTimeouts == {-1, MaxTimeout, MaxTimeout + 1}
=============================================================================
