------------------------- MODULE ClientRegistryAbstract -------------------------
(***************************************************************************)
(* What the Client Registry promises (spec: ClientRegistry, Monotonic     *)
(* Counter), with no locks, workers or counter: an id is registered at    *)
(* most once, to a handle no other id holds, and once it leaves the       *)
(* registry -- by destroyClient, or because the create that drew it       *)
(* failed -- it is never used again.  A handle is destroyed only after    *)
(* its id has left the registry, and at most once, so destroyClient        *)
(* succeeds at most once per id and no registered id holds a destroyed     *)
(* handle.                                                                  *)
(***************************************************************************)
CONSTANTS
    Ids,        \* every id the registry may ever hold
    Issuable,   \* the ids the counter can issue (tdc-0 never is)
    Handles,    \* native client handles
    None

VARIABLES
    entry,      \* id -> handle, or None
    retired,    \* ids that have been issued and are gone for good
    destroyed   \* handles td_json_client_destroy has been given

vars == <<entry, retired, destroyed>>

TypeOK ==
    /\ entry \in [Ids -> Handles \cup {None}]
    /\ retired \subseteq Issuable
    /\ destroyed \subseteq Handles

Init ==
    /\ entry = [i \in Ids |-> None]
    /\ retired = {}
    /\ destroyed = {}

(* A fresh id becomes visible, bound to a handle no other id holds.       *)
Register(i, h) ==
    /\ i \in Issuable \ retired
    /\ entry[i] = None
    /\ \A j \in Ids : entry[j] # h
    /\ h \notin destroyed
    /\ entry' = [entry EXCEPT ![i] = h]
    /\ UNCHANGED <<retired, destroyed>>

(* destroyClient removes a registered id; it can never come back.         *)
Remove(i) ==
    /\ entry[i] # None
    /\ entry' = [entry EXCEPT ![i] = None]
    /\ retired' = retired \cup {i}
    /\ UNCHANGED destroyed

(* An id is spent without ever being registered.                          *)
Retire(i) ==
    /\ i \in Issuable \ retired
    /\ entry[i] = None
    /\ retired' = retired \cup {i}
    /\ UNCHANGED <<entry, destroyed>>

(* The native client of a removed id is destroyed, once.                  *)
Destroy(h) ==
    /\ h \notin destroyed
    /\ \A j \in Ids : entry[j] # h
    /\ destroyed' = destroyed \cup {h}
    /\ UNCHANGED <<entry, retired>>

Next ==
    \/ \E i \in Ids, h \in Handles : Register(i, h)
    \/ \E i \in Ids : Remove(i) \/ Retire(i)
    \/ \E h \in Handles : Destroy(h)

Spec == Init /\ [][Next]_vars
================================================================================
