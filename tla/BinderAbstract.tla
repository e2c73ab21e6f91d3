---------------------------- MODULE BinderAbstract ----------------------------
(***************************************************************************)
(* What the Dynamic Binder promises (spec: Dynamic Binder): the process   *)
(* is unbound until one bind succeeds, and from then on it stays bound to *)
(* that library -- first successful bind wins for the process lifetime,  *)
(* with no reload, hot-swap or unbind.                                     *)
(***************************************************************************)
CONSTANTS
    Libs,       \* libraries (by path) that can be bound
    None

VARIABLE bound  \* the library the process is bound to, or None

TypeOK == bound \in Libs \cup {None}

Init == bound = None

Bind(p) ==
    /\ bound = None
    /\ bound' = p

Next == \E p \in Libs : Bind(p)

Spec == Init /\ [][Next]_bound
================================================================================
