----------------------------- MODULE TdlibAddon -----------------------------
(***************************************************************************)
(* The tdjson bridge of src/native/tdlib/tdlib_addon.cc (Unix branch):     *)
(* the Dynamic Binder (load_tdjson), the Client Registry (g_clients,       *)
(* g_clientCounter), the Call Surface (DestroyClient, Send, Receive,       *)
(* Execute, GetLibraryInfo) and the CreateClientWorker that runs on the    *)
(* libuv thread pool.  Each lock scope of the code is one atomic step;     *)
(* a lock held across steps is an owner variable.                          *)
(***************************************************************************)
EXTENDS Integers, FiniteSets, PathResolver

CONSTANTS
    Workers,        \* CreateClientWorker instances, one per createClient call
    Callers,        \* JS threads that call into the addon synchronously
    EnvSet,         \* TDLIB_LIBRARY_PATH is set and non-empty
    AddonDirKnown,  \* readlink("/proc/self/exe") succeeds
    InitFs,         \* possible initial contents of the candidate paths
    VolatilePaths,  \* paths whose file may be replaced while the process runs
    Timeouts,       \* timeouts (ms) a caller may pass to receive
    NaN,            \* the double NaN, which JS may pass as a number
    MaxCalls,       \* bound on synchronous calls that take an argument
    MaxFsChanges,   \* bound on replacements of library files
    AllocFails,     \* std::string / map node allocation may throw bad_alloc
    CallbackThrows, \* the JS callback passed to createClient may throw
    CallLoop,       \* a JS loop makes synchronous calls without end
    None            \* null pointer, no owner, no client

(* The five entry points, in the order load_tdjson resolves them.          *)
Syms == <<"create", "send", "receive", "execute", "destroy">>
SymNames == {Syms[i] : i \in 1..5}

(* What a file at a path is, to the loader: Absent, or a shared object     *)
(* exporting the first n entry points of Syms.  load_tdjson stops at the   *)
(* first missing symbol and try_load_tdjson only needs "create", so the    *)
(* length of the exported prefix is all the code distinguishes.            *)
Absent == -1
Shapes == {Absent} \cup 0..5
Unmapped == -2

Candidates == CandidatePaths(EnvSet, AddonDirKnown, FALSE)  \* the Unix build
Ids == 0..Cardinality(Workers)          \* "tdc-<n>"; tdc-0 is never issued
MaxTimeout == 300000                    \* 300.0 seconds

VARIABLES
    fs,           \* path -> Shape: the files on disk
    fsChanges,
    mapped,       \* path -> Shape of the object the loader has mapped, or Unmapped
    api,          \* g_api: handle, the five pointers, initialized
    initOwner,    \* holder of g_api.init_mutex
    apiOwner,     \* holder of g_api_mutex across a native call
    clientsOwner, \* holder of g_clients_mutex across a native call
    counter,      \* g_clientCounter
    clients,      \* g_clients: id -> native client handle, or None
    hstate,       \* native client handle -> "none" | "live" | "destroyed"
    wk,           \* per CreateClientWorker: pc and locals
    cl,           \* per JS thread: pc and locals of the call in progress
    info,         \* per JS thread: the last getLibraryInfo result
    calls

vars == <<fs, fsChanges, mapped, api, initOwner, apiOwner, clientsOwner,
          counter, clients, hstate, wk, cl, info, calls>>

EmptyApi == [handle |-> None, ptr |-> [s \in SymNames |-> None],
             initialized |-> FALSE]
NoInfo == [initialized |-> TRUE, has |-> {}]

WPcs == {"idle", "find", "load", "resolve", "publish", "check", "create",
         "counter", "insert", "done", "delivered", "unsettled"}
Ops  == {"none", "destroy", "send", "receive", "execute"}

TypeOK ==
    /\ fs \in [Paths -> Shapes]
    /\ mapped \in [Paths -> Shapes \cup {Unmapped}]
    /\ api \in [handle: Paths \cup {None}, ptr: [SymNames -> Paths \cup {None}],
                initialized: BOOLEAN]
    /\ initOwner \in Workers \cup {None}
    /\ apiOwner \in Callers \cup {None}
    /\ clientsOwner \in Callers \cup {None}
    /\ counter \in Ids
    /\ clients \in [Ids -> Workers \cup {None}]
    /\ hstate \in [Workers -> {"none", "live", "destroyed"}]
    /\ wk \in [Workers -> [pc: WPcs, path: Paths \cup {None}, k: 1..5,
                           id: Ids, by: Callers \cup {None}]]
    /\ cl \in [Callers -> [pc: {"idle", "lookedUp", "erased", "native"},
                           op: Ops, client: Workers \cup {None},
                           lib: Paths \cup {None}, timeout: Timeouts \cup {0}]]
    /\ info \in [Callers -> [initialized: BOOLEAN, has: SUBSET SymNames]]
    /\ calls \in 0..MaxCalls /\ fsChanges \in 0..MaxFsChanges

-----------------------------------------------------------------------------
(* The loader.  dlopen of a path whose object is already mapped returns    *)
(* that object (glibc matches the name before opening the file).           *)
LoadedShape(p) == IF mapped[p] # Unmapped THEN mapped[p] ELSE fs[p]

(* try_load_tdjson: dlopen succeeds and "create" resolves; the trial       *)
(* handle is closed again before returning.                                *)
TryLoad(p) == LoadedShape(p) >= 1

Registered == {clients[i] : i \in Ids} \ {None}

(* The worker reports error e through SetError and Execute returns; the    *)
(* error itself is not kept (no property reads it).                        *)
Fail(w, e) == wk' = [wk EXCEPT ![w].pc = "done"]
Goto(w, l) == wk' = [wk EXCEPT ![w].pc = l]

-----------------------------------------------------------------------------
(* CreateClient: queue a CreateClientWorker; the promise is returned.      *)
CreateClient(c, w) ==
    /\ cl[c].pc = "idle" /\ wk[w].pc = "idle"
    /\ wk' = [wk EXCEPT ![w].pc = "find", ![w].by = c]
    /\ UNCHANGED <<fs, fsChanges, mapped, api, initOwner, apiOwner,
                   clientsOwner, counter, clients, hstate, cl, info, calls>>

(* CreateClientWorker::Execute, first call: find_tdjson_library_path.      *)
(* The probes take no lock of the addon.                                   *)
Find(w) ==
    /\ wk[w].pc = "find"
    /\ LET p == FindLibraryPath(Candidates, {q \in Paths : TryLoad(q)})
       IN  \/ /\ p = NotFound
              /\ Fail(w, "LibraryNotFound")
           \/ /\ p # NotFound
              /\ wk' = [wk EXCEPT ![w].pc = "load", ![w].path = p]
    /\ UNCHANGED <<fs, fsChanges, mapped, api, initOwner, apiOwner,
                   clientsOwner, counter, clients, hstate, cl, info, calls>>

(* load_tdjson's early return: a second call when bound is a no-op.       *)
AlreadyBound == api.initialized /\ api.handle # None

(* Seeded fault: the early return when already bound is dropped.        *)
LoadOpenNoGuard(w) ==
    LET p == wk[w].path IN
    /\ wk[w].pc = "load" /\ initOwner = None
    /\ \/ /\ LoadedShape(p) = Absent
          /\ Fail(w, "LibraryNotLoaded")
          /\ UNCHANGED <<api, mapped, initOwner>>
       \/ /\ LoadedShape(p) # Absent
          /\ api' = [api EXCEPT !.handle = p]
          /\ mapped' = [mapped EXCEPT ![p] = LoadedShape(p)]
          /\ initOwner' = w
          /\ wk' = [wk EXCEPT ![w].pc = "resolve", ![w].k = 1]
    /\ UNCHANGED <<fs, fsChanges, apiOwner, clientsOwner, counter, clients,
                   hstate, cl, info, calls>>

(* load_tdjson: take init_mutex; return at once if already bound; else     *)
(* dlopen the path.  The lock is held until the binding is published or    *)
(* rolled back.                                                            *)
LoadOpen(w) ==
    LET p == wk[w].path IN
    /\ wk[w].pc = "load" /\ initOwner = None
    /\ \/ /\ AlreadyBound
          /\ Goto(w, "check")
          /\ UNCHANGED <<api, mapped, initOwner>>
       \/ /\ ~AlreadyBound
          /\ LoadedShape(p) = Absent
          /\ Fail(w, "LibraryNotLoaded")
          /\ UNCHANGED <<api, mapped, initOwner>>
       \/ /\ ~AlreadyBound
          /\ LoadedShape(p) # Absent
          /\ api' = [api EXCEPT !.handle = p]
          /\ mapped' = [mapped EXCEPT ![p] = LoadedShape(p)]
          /\ initOwner' = w
          /\ wk' = [wk EXCEPT ![w].pc = "resolve", ![w].k = 1]
    /\ UNCHANGED <<fs, fsChanges, apiOwner, clientsOwner, counter, clients,
                   hstate, cl, info, calls>>

(* Seeded fault: the last symbol index is off by one.                    *)
ResolveOffByOne(w) ==
    LET k == wk[w].k
        h == api.handle
    IN
    /\ wk[w].pc = "resolve"
    /\ \/ /\ mapped[h] >= k
          /\ api' = [api EXCEPT !.ptr[Syms[k]] = h]
          /\ wk' = IF k = 6 THEN [wk EXCEPT ![w].pc = "publish"]
                            ELSE [wk EXCEPT ![w].k = k + 1]
          /\ UNCHANGED <<mapped, initOwner>>
       \/ /\ mapped[h] < k
          /\ mapped' = [mapped EXCEPT ![h] = Unmapped]
          /\ api' = EmptyApi
          /\ initOwner' = None
          /\ Fail(w, "SymbolNotFound")
    /\ UNCHANGED <<fs, fsChanges, apiOwner, clientsOwner, counter, clients,
                   hstate, cl, info, calls>>

(* Seeded fault: the failure path keeps init_mutex locked.               *)
ResolveKeepLock(w) ==
    LET k == wk[w].k
        h == api.handle
    IN
    /\ wk[w].pc = "resolve"
    /\ \/ /\ mapped[h] >= k
          /\ api' = [api EXCEPT !.ptr[Syms[k]] = h]
          /\ wk' = IF k = 5 THEN [wk EXCEPT ![w].pc = "publish"]
                            ELSE [wk EXCEPT ![w].k = k + 1]
          /\ UNCHANGED <<mapped, initOwner>>
       \/ /\ mapped[h] < k
          /\ mapped' = [mapped EXCEPT ![h] = Unmapped]
          /\ api' = EmptyApi
          /\ UNCHANGED initOwner
          /\ Fail(w, "SymbolNotFound")
    /\ UNCHANGED <<fs, fsChanges, apiOwner, clientsOwner, counter, clients,
                   hstate, cl, info, calls>>

(* load_tdjson: dlsym of the k-th entry point.  On a missing symbol the    *)
(* library is dlclosed, g_api reset to TdJsonApi{} and SymbolNotFound      *)
(* thrown, which releases init_mutex.  None of this takes g_api_mutex.     *)
Resolve(w) ==
    LET k == wk[w].k
        h == api.handle
    IN
    /\ wk[w].pc = "resolve"
    /\ \/ /\ mapped[h] >= k
          /\ api' = [api EXCEPT !.ptr[Syms[k]] = h]
          /\ wk' = IF k = 5 THEN [wk EXCEPT ![w].pc = "publish"]
                            ELSE [wk EXCEPT ![w].k = k + 1]
          /\ UNCHANGED <<mapped, initOwner>>
       \/ /\ mapped[h] < k
          /\ mapped' = [mapped EXCEPT ![h] = Unmapped]
          /\ api' = EmptyApi
          /\ initOwner' = None
          /\ Fail(w, "SymbolNotFound")
    /\ UNCHANGED <<fs, fsChanges, apiOwner, clientsOwner, counter, clients,
                   hstate, cl, info, calls>>

(* load_tdjson: initialized = true, then init_mutex is released.           *)
Publish(w) ==
    /\ wk[w].pc = "publish"
    /\ api' = [api EXCEPT !.initialized = TRUE]
    /\ initOwner' = None
    /\ Goto(w, "check")
    /\ UNCHANGED <<fs, fsChanges, mapped, apiOwner, clientsOwner, counter,
                   clients, hstate, cl, info, calls>>

(* CreateClientWorker::Execute after load_tdjson: under g_api_mutex check  *)
(* the create pointer (the lock is then released).                        *)
CheckCreate(w) ==
    /\ wk[w].pc = "check" /\ apiOwner = None
    /\ IF api.ptr["create"] # None THEN Goto(w, "create")
                                   ELSE Fail(w, "LibraryNotLoaded")
    /\ UNCHANGED <<fs, fsChanges, mapped, api, initOwner, apiOwner,
                   clientsOwner, counter, clients, hstate, cl, info, calls>>

(* Under g_api_mutex again: client = g_api.create(); null fails.          *)
(* The handle of worker w's client is w itself.                           *)
NativeCreate(w) ==
    /\ wk[w].pc = "create" /\ apiOwner = None
    /\ \/ /\ hstate' = [hstate EXCEPT ![w] = "live"]
          /\ Goto(w, "counter")
       \/ /\ UNCHANGED hstate
          /\ Fail(w, "ClientCreateFailed")
    /\ UNCHANGED <<fs, fsChanges, mapped, api, initOwner, apiOwner,
                   clientsOwner, counter, clients, cl, info, calls>>

(* Seeded fault: the counter is read but not incremented.               *)
NextIdNoIncrement(w) ==
    /\ wk[w].pc = "counter"
    /\ wk' = [wk EXCEPT ![w].id = counter, ![w].pc = "insert"]
    /\ UNCHANGED <<fs, fsChanges, mapped, api, initOwner, apiOwner,
                   clientsOwner, counter, clients, hstate, cl, info, calls>>

(* Under g_counter_mutex: id = "tdc-" + to_string(++g_clientCounter).     *)
(* The counter is incremented before the string is built; if building it  *)
(* throws, the catch in Execute reports the error and the client is left  *)
(* to nobody.                                                              *)
NextId(w) ==
    /\ wk[w].pc = "counter"
    /\ counter' = counter + 1
    /\ \/ wk' = [wk EXCEPT ![w].id = counter + 1, ![w].pc = "insert"]
       \/ AllocFails /\ Fail(w, "bad_alloc")
    /\ UNCHANGED <<fs, fsChanges, mapped, api, initOwner, apiOwner,
                   clientsOwner, clients, hstate, cl, info, calls>>

(* Under g_clients_mutex: g_clients[id] = client.  A throwing insert       *)
(* leaves the map as it was and reports the error.                        *)
Insert(w) ==
    /\ wk[w].pc = "insert" /\ clientsOwner = None
    /\ \/ /\ clients' = [clients EXCEPT ![wk[w].id] = w]
          /\ Goto(w, "done")
       \/ /\ AllocFails /\ Fail(w, "bad_alloc")
          /\ UNCHANGED clients
    /\ UNCHANGED <<fs, fsChanges, mapped, api, initOwner, apiOwner,
                   clientsOwner, counter, hstate, cl, info, calls>>

(* OnOK / OnError: on the JS thread that queued the worker, once it is    *)
(* back in its event loop, the callback is called and then the promise   *)
(* resolved or rejected.  A callback that throws leaves a pending JS      *)
(* exception and the settle after it is never reached.                    *)
Complete(w) ==
    /\ wk[w].pc = "done" /\ cl[wk[w].by].pc = "idle"
    /\ \/ Goto(w, "delivered")
       \/ CallbackThrows /\ Goto(w, "unsettled")
    /\ UNCHANGED <<fs, fsChanges, mapped, api, initOwner, apiOwner,
                   clientsOwner, counter, clients, hstate, cl, info, calls>>

WorkerStep(w) ==
    \/ Find(w) \/ LoadOpen(w) \/ Resolve(w) \/ Publish(w) \/ CheckCreate(w)
    \/ NativeCreate(w) \/ NextId(w) \/ Insert(w)

-----------------------------------------------------------------------------
(* The Call Surface, on a JS thread.  A native call holds g_api_mutex      *)
(* from the read of its pointer until the call returns.                    *)
(* A synchronous call that takes an argument uses up the call bound,      *)
(* except in a JS loop that never stops calling.                           *)
Spend == calls' = IF CallLoop THEN calls ELSE calls + 1

(* The call returns to JS with result or error r (not kept: no property  *)
(* reads it).                                                              *)
CallDone(c, r) == cl' = [cl EXCEPT ![c].pc = "idle", ![c].op = "none",
                         ![c].client = None, ![c].lib = None,
                         ![c].timeout = 0]

EnterNative(c, s) ==
    /\ apiOwner' = c
    /\ cl' = [cl EXCEPT ![c].pc = "native", ![c].lib = api.ptr[s]]

(* Seeded fault: the entry is not erased before the native destroy.      *)
DestroyKeepEntry(c, id) ==
    /\ cl[c].pc = "idle" /\ clientsOwner = None /\ calls < MaxCalls
    /\ Spend
    /\ \/ /\ clients[id] = None
          /\ CallDone(c, "ClientNotFound")
          /\ UNCHANGED clientsOwner
       \/ /\ clients[id] # None
          /\ clientsOwner' = c
          /\ cl' = [cl EXCEPT ![c].pc = "erased", ![c].op = "destroy",
                              ![c].client = clients[id]]
    /\ UNCHANGED <<fs, fsChanges, mapped, api, initOwner, apiOwner, counter,
                   clients, hstate, wk, info>>

(* DestroyClient, under g_clients_mutex: find the id; if present erase it  *)
(* and keep the lock for the native destroy.                               *)
DestroyClient(c, id) ==
    /\ cl[c].pc = "idle" /\ clientsOwner = None /\ calls < MaxCalls
    /\ Spend
    /\ \/ /\ clients[id] = None
          /\ CallDone(c, "ClientNotFound")
          /\ UNCHANGED <<clientsOwner, clients>>
       \/ /\ clients[id] # None
          /\ clients' = [clients EXCEPT ![id] = None]
          /\ clientsOwner' = c
          /\ cl' = [cl EXCEPT ![c].pc = "erased", ![c].op = "destroy",
                              ![c].client = clients[id]]
    /\ UNCHANGED <<fs, fsChanges, mapped, api, initOwner, apiOwner, counter,
                   hstate, wk, info>>

(* Still holding g_clients_mutex, take g_api_mutex; destroy the client if  *)
(* the destroy pointer is set, else skip the native call.                  *)
DestroyNative(c) ==
    /\ cl[c].pc = "erased" /\ apiOwner = None
    /\ IF api.ptr["destroy"] # None
       THEN EnterNative(c, "destroy") /\ UNCHANGED clientsOwner
       ELSE clientsOwner' = None /\ CallDone(c, "ok") /\ UNCHANGED apiOwner
    /\ UNCHANGED <<fs, fsChanges, mapped, api, initOwner, counter, clients,
                   hstate, wk, info, calls>>

(* Send and Receive: look the client up under g_clients_mutex, release it. *)
(* Receive first rejects a timeout outside [0, 300] by two comparisons,    *)
(* both false for NaN.                                                     *)
Lt(a, b) == a # NaN /\ b # NaN /\ a < b
TimeoutRejected(t) == Lt(t, 0) \/ Lt(MaxTimeout, t)

LookUp(c, id, op, t) ==
    /\ clientsOwner = None
    /\ \/ /\ clients[id] = None
          /\ CallDone(c, "ClientNotFound")
       \/ /\ clients[id] # None
          /\ cl' = [cl EXCEPT ![c].pc = "lookedUp", ![c].op = op,
                              ![c].client = clients[id], ![c].timeout = t]

Send(c, id) ==
    /\ cl[c].pc = "idle" /\ calls < MaxCalls
    /\ Spend
    /\ LookUp(c, id, "send", 0)
    /\ UNCHANGED <<fs, fsChanges, mapped, api, initOwner, apiOwner,
                   clientsOwner, counter, clients, hstate, wk, info>>

Receive(c, id, t) ==
    /\ cl[c].pc = "idle" /\ calls < MaxCalls
    /\ Spend
    /\ \/ /\ TimeoutRejected(t)
          /\ CallDone(c, "InvalidArgument")
       \/ /\ ~TimeoutRejected(t)
          /\ LookUp(c, id, "receive", t)
    /\ UNCHANGED <<fs, fsChanges, mapped, api, initOwner, apiOwner,
                   clientsOwner, counter, clients, hstate, wk, info>>

(* Send / Receive under g_api_mutex: a null pointer is LibraryNotLoaded,   *)
(* else g_api.send(client, ...) or g_api.receive(client, timeout).         *)
CallClient(c) ==
    /\ cl[c].pc = "lookedUp" /\ apiOwner = None
    /\ IF api.ptr[cl[c].op] # None
       THEN EnterNative(c, cl[c].op)
       ELSE CallDone(c, "LibraryNotLoaded") /\ UNCHANGED apiOwner
    /\ UNCHANGED <<fs, fsChanges, mapped, api, initOwner, clientsOwner,
                   counter, clients, hstate, wk, info, calls>>

(* Execute under g_api_mutex: g_api.execute(nullptr, request).             *)
Execute(c) ==
    /\ cl[c].pc = "idle" /\ apiOwner = None /\ calls < MaxCalls
    /\ Spend
    /\ \/ /\ api.ptr["execute"] = None
          /\ CallDone(c, "LibraryNotLoaded")
          /\ UNCHANGED apiOwner
       \/ /\ api.ptr["execute"] # None
          /\ apiOwner' = c
          /\ cl' = [cl EXCEPT ![c].pc = "native", ![c].op = "execute",
                              ![c].lib = api.ptr["execute"]]
    /\ UNCHANGED <<fs, fsChanges, mapped, api, initOwner, clientsOwner,
                   counter, clients, hstate, wk, info>>

(* The native call returns; g_api_mutex (and, for destroy, the            *)
(* g_clients_mutex held since the erase) is released.                     *)
NativeReturn(c) ==
    /\ cl[c].pc = "native"
    /\ apiOwner' = None
    /\ IF cl[c].op = "destroy"
       THEN /\ hstate' = [hstate EXCEPT ![cl[c].client] = "destroyed"]
            /\ clientsOwner' = None
       ELSE UNCHANGED <<hstate, clientsOwner>>
    /\ CallDone(c, "ok")
    /\ UNCHANGED <<fs, fsChanges, mapped, api, initOwner, counter, clients,
                   wk, info, calls>>

(* GetLibraryInfo: the flags under g_api_mutex, then the client count     *)
(* under g_clients_mutex (the count and the handle are not kept).         *)
GetLibraryInfo(c) ==
    /\ cl[c].pc = "idle" /\ apiOwner = None /\ clientsOwner = None
    /\ info' = [info EXCEPT ![c] =
                  [initialized |-> api.initialized,
                   has |-> {s \in SymNames : api.ptr[s] # None}]]
    /\ UNCHANGED <<fs, fsChanges, mapped, api, initOwner, apiOwner,
                   clientsOwner, counter, clients, hstate, wk, cl, calls>>

(* The deployment replaces or removes a library file.                      *)
ReplaceLibrary(p, s) ==
    /\ fsChanges < MaxFsChanges /\ s # fs[p]
    /\ fs' = [fs EXCEPT ![p] = s]
    /\ fsChanges' = fsChanges + 1
    /\ UNCHANGED <<mapped, api, initOwner, apiOwner, clientsOwner, counter,
                   clients, hstate, wk, cl, info, calls>>

-----------------------------------------------------------------------------
Init ==
    /\ fs \in InitFs
    /\ fsChanges = 0
    /\ mapped = [p \in Paths |-> Unmapped]
    /\ api = EmptyApi
    /\ initOwner = None /\ apiOwner = None /\ clientsOwner = None
    /\ counter = 0
    /\ clients = [i \in Ids |-> None]
    /\ hstate = [w \in Workers |-> "none"]
    /\ wk = [w \in Workers |-> [pc |-> "idle", path |-> None, k |-> 1,
                                id |-> 0, by |-> None]]
    /\ cl = [c \in Callers |-> [pc |-> "idle", op |-> "none", client |-> None,
                                lib |-> None, timeout |-> 0]]
    /\ info = [c \in Callers |-> NoInfo]
    /\ calls = 0

CallerStep(c) ==
    \/ \E w \in Workers : CreateClient(c, w)
    \/ \E id \in Ids : DestroyClient(c, id) \/ Send(c, id)
    \/ \E id \in Ids, t \in Timeouts : Receive(c, id, t)
    \/ Execute(c)
    \/ GetLibraryInfo(c)

(* Steps of a call already in progress on a JS thread.                     *)
CallerContinue(c) == DestroyNative(c) \/ CallClient(c) \/ NativeReturn(c)

Next ==
    \/ \E w \in Workers : WorkerStep(w) \/ Complete(w)
    \/ \E c \in Callers : CallerStep(c) \/ CallerContinue(c)
    \/ \E p \in VolatilePaths, s \in Shapes : ReplaceLibrary(p, s)

(* The thread pool runs every queued worker to the end, a JS thread        *)
(* finishes the call it is in (a native receive returns by its timeout),   *)
(* and a settled worker's callback runs once its thread is idle.  Starting *)
(* a call and replacing a file are never forced.                           *)
Fairness ==
    /\ \A w \in Workers : WF_vars(WorkerStep(w)) /\ WF_vars(Complete(w))
    /\ \A c \in Callers : WF_vars(CallerContinue(c))

Spec == Init /\ [][Next]_vars /\ Fairness

-----------------------------------------------------------------------------
(* Safety.                                                                 *)

(* A native send, receive or destroy is only ever made on a client handle  *)
(* that td_json_client_create returned and td_json_client_destroy has not  *)
(* yet been given: DestroyClient erases the id before destroying, so no    *)
(* later lookup can hand out the handle again.                             *)
HandleLive ==
    \A c \in Callers :
        cl[c].pc = "native" /\ cl[c].client # None
            => hstate[cl[c].client] = "live"

(* Every live native client is owned by exactly one party: a worker       *)
(* between td_json_client_create and the registry insert, the registry    *)
(* under one id, or a DestroyClient that has erased it.  A handle owned   *)
(* by nobody is a leaked client.                                           *)
NoLeakedHandle ==
    \A h \in Workers :
        hstate[h] = "live" =>
            Cardinality({i \in Ids : clients[i] = h})
              + (IF wk[h].pc \in {"counter", "insert"} THEN 1 ELSE 0)
              + Cardinality({c \in Callers : cl[c].op = "destroy"
                                               /\ cl[c].client = h}) = 1

(* While any client is registered the binding is complete: initialized,   *)
(* all five pointers set and into the library that is mapped.  This is    *)
(* what Send and Receive rely on when they say LibraryNotLoaded "should    *)
(* not occur once any client exists".                                      *)
ClientsImplyBinding ==
    Registered # {} =>
        /\ api.initialized
        /\ api.handle # None /\ mapped[api.handle] # Unmapped
        /\ \A s \in SymNames : api.ptr[s] = api.handle

(* Spec 8: no thread observes a half-populated binding; getLibraryInfo    *)
(* sees all five pointers, or none of them and initialized = false.       *)
InfoAllOrNothing ==
    \A c \in Callers :
        info[c] # NoInfo =>
            \/ info[c].has = SymNames
            \/ info[c].has = {} /\ ~info[c].initialized

(* A native call never runs in a library that has been unloaded (dlclose) *)
(* while the call is in progress.                                          *)
NativeCodeMapped ==
    \A c \in Callers :
        cl[c].pc = "native" => mapped[cl[c].lib] # Unmapped

(* Spec 5 and 8: receive blocks for at most 300 seconds; every timeout    *)
(* that reaches td_json_client_receive lies in [0, 300].                   *)
ReceiveTimeoutBounded ==
    \A c \in Callers :
        cl[c].pc = "native" /\ cl[c].op = "receive" =>
            cl[c].timeout # NaN /\ 0 <= cl[c].timeout /\ cl[c].timeout <= MaxTimeout

(* Liveness: every createClient call settles, its callback run and its    *)
(* promise resolved or rejected, whatever the libraries on disk are.       *)
CreateClientSettles ==
    \A w \in Workers : wk[w].pc = "find" ~> wk[w].pc = "delivered"

(* Spec 4.5 and 5: createClient never blocks and its work on the pool     *)
(* thread runs to the end: CreateClientWorker::Execute returns, whatever   *)
(* the JS thread keeps calling meanwhile.                                  *)
WorkerExecuteReturns ==
    \A w \in Workers :
        wk[w].pc = "find" ~> wk[w].pc \in {"done", "delivered", "unsettled"}

-----------------------------------------------------------------------------
(* Refinement.  An id is pending while its worker holds it between        *)
(* NextId and Insert; an issued id that is neither pending nor in         *)
(* g_clients is gone for good.                                             *)
Pending(i) == \E w \in Workers : wk[w].pc = "insert" /\ wk[w].id = i
RetiredIds == {i \in 1..counter : clients[i] = None /\ ~Pending(i)}

Registry == INSTANCE ClientRegistryAbstract
                WITH entry <- clients, retired <- RetiredIds,
                     destroyed <- {h \in Workers : hstate[h] = "destroyed"},
                     Issuable <- Ids \ {0}, Handles <- Workers

(* The registry implements its abstract specification: across concurrent *)
(* workers (counter and insert in separate lock scopes), allocation       *)
(* failures between them and destroyClient, an id is registered at most   *)
(* once, to a handle no other id holds, an id that has left g_clients    *)
(* -- erased, or spent by a failed create -- never reappears, and a       *)
(* client is destroyed only once its id is erased, and only once.         *)
RegistryRefinement == Registry!Spec

Binder == INSTANCE BinderAbstract
              WITH Libs <- Paths,
                   bound <- IF api.initialized THEN api.handle ELSE None

(* load_tdjson implements the binder's promise: once a bind has           *)
(* published initialized, the process stays bound to that library --     *)
(* later createClient calls that find another path, files replaced on     *)
(* disk and failed loads never rebind or unbind it.                       *)
BinderRefinement == Binder!Spec

(* Spec 8: client ids are strictly increasing in creation order.  When a  *)
(* client becomes visible in g_clients, no larger id has been visible     *)
(* before it.                                                               *)
IdsIncreaseInCreationOrder ==
    [][\A i \in Ids :
          clients[i] = None /\ clients'[i] # None =>
              \A j \in Ids : j > i => clients[j] = None /\ j \notin RetiredIds
      ]_vars

=============================================================================
