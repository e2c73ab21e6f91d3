# TLA+ models of the tdjson bridge (`src/native/tdlib/tdlib_addon.cc`)

The addon is a Node-API module. It loads TDLib's JSON library (`libtdjson.so`)
with `dlopen` when it first needs it, keeps native TDLib clients in a
process-wide map under string ids `tdc-<n>`, and forwards JSON strings to the
five native entry points. This directory holds TLA+ models of that code, the
TLC configurations that check them, and `PROJECT.json`. `PROJECT.json` maps
every model definition to the source lines it translates. It also lists the
runs, the seeded faults (mutants) each property must catch, the findings and
the hazards.

## 1. Inventory

### Components, state and operations

| Component | State (source) | Operations |
|---|---|---|
| Path Resolver | none; reads `TDLIB_LIBRARY_PATH` and `/proc/self/exe` | `get_addon_directory`, `resolve_path`, `get_tdjson_candidate_paths` (182-304) |
| Library Prober | none; trial `dlopen`/`dlclose` | `try_load_tdjson`, `find_tdjson_library_path` (309-382) |
| Dynamic Binder | `g_api`: handle, five pointers, `initialized`, `init_mutex` (25-39) | `load_tdjson` (77-177) |
| Client Registry | `g_clients` + `g_clients_mutex`, `g_clientCounter` + `g_counter_mutex` (43-46) | insert (worker), lookup (Send/Receive), erase (DestroyClient) |
| Call Surface | `g_api_mutex` (40) | `DestroyClient`, `Send`, `Receive`, `Execute`, `GetLibraryInfo` (464-633) |
| Async creation task | per-worker `id`, promise | `CreateClient` queues `CreateClientWorker`; `Execute` runs on the libuv pool; `OnOK`/`OnError` run on the JS thread (384-462) |
| Error messages | none | `get_error_message` (58-75): formatting only |
| Smoke test | none | `tdlib_addon_test.cc`: a standalone dlopen check, out of scope |

### How the components interact

- A JS thread calls `createClient`. This queues a worker on the thread pool.
- The worker runs three steps in order:
  1. `find_tdjson_library_path`. It probes each candidate path and takes no addon lock.
  2. `load_tdjson`, under `g_api.init_mutex`.
  3. Under `g_api_mutex`: check the create pointer, then (in a second lock scope) call `td_json_client_create`.

  Then it takes `g_counter_mutex` to draw the id and `g_clients_mutex` to insert the client.
- The callback and the promise settle on the JS thread later.
- `send`, `receive` and `execute` run on the calling JS thread:
  - `send` and `receive` look the id up under `g_clients_mutex` and release it. Then they call native code under `g_api_mutex`.
  - `destroyClient` erases the id under `g_clients_mutex`. Still holding it, it calls native destroy under `g_api_mutex`.
- All state is shared through globals. There are four mutexes.

### What is hard

- **Two locks guard one structure.** `load_tdjson` writes `g_api` under `init_mutex`, while every reader uses `g_api_mutex`. Nothing orders the binder's writes against the readers.
- **Rollback.** A missing symbol unloads the library and resets `g_api` after some pointers were already visible.
- **Read under a lock, use after the unlock.** The client handle is copied under `g_clients_mutex` and used after that lock is released.
- **Interleaving.** Concurrent workers interleave with each other and with the JS thread. Ids, insertion and callbacks can each happen in a different order.
- **Files change between probe and load.** The probe and the real `dlopen` are separate steps, and the library files can change in between.
- **Blocking under a lock.** A blocking `receive` holds `g_api_mutex` for up to 300 s.
- **Floating-point edge cases.** The timeout check has to handle NaN and the boundary values.

### What makes each component correct

- Prober: the first viable candidate, in priority order, is chosen, and a failure reports the last loader error.
- Binder:
  - bind is idempotent;
  - no thread sees a half-populated binding;
  - rollback is complete before anyone can use it;
  - nothing runs inside a library that is being unloaded.
- Registry:
  - ids are unique;
  - every native client has exactly one owner, so none leaks and none is destroyed twice;
  - a destroyed id is never found again.
- Call surface:
  - native calls get only live handles;
  - registered clients imply a complete binding;
  - the timeout reaching native code is in [0, 300].
- Async task: every `createClient` settles.

## 2. Modules

| Module | Models |
|---|---|
| `PathResolver.tla` | Pure operators: `ResolvePath` and `CandidatePaths` for the Unix and the `_WIN32` build, the recursive `FindFrom`/`FindLibraryPath` loop, and `LastErrorFrom`/`LastError`, the loop's `last_error` diagnostic. A path is an opaque model value. On `_WIN32`, both spellings of the relative path normalise to the same path, which is probed twice. |
| `MCPathResolver.tla` | Checks the search's `last_error` diagnostic against spec 4.2. It covers both platforms, every override and base-directory outcome, and for each path whether `dlopen` succeeds and whether `create` resolves (472,392 cases). The first-match search itself is not checked against a reference: it restates the code's early return from a loop that cannot skip a candidate. |
| `TdlibAddon.tla` | The binder, registry, call surface and worker, with the loader and the filesystem as environment. It EXTENDS `PathResolver`. |
| `MCTdlibAddon.tla` | The library layouts and timeouts used by the `.cfg` files. |
| `ClientRegistryAbstract.tla` | What the registry promises, with no locks or workers: an id is registered at most once, to a handle no other id holds, and once it is gone (removed by `destroyClient`, or spent by a failed create) it never returns. A handle is destroyed only after its id has left the registry, and at most once. Written from spec 4.4, 8 and 9. |
| `BinderAbstract.tla` | What the binder promises: unbound until one bind succeeds, then bound to that library for the process lifetime. Written from spec 4.3. |

### Refinement

`TdlibAddon` instantiates both abstract modules (`Registry`, `Binder`) with a refinement mapping, and the runs check `Registry!Spec` and `Binder!Spec` as properties:

- `entry` is `clients`. `retired` is `RetiredIds`: the issued ids (`1..counter`) that are neither in `g_clients` nor `Pending`, meaning held by a worker between `NextId` and `Insert`. A drawn id stays abstractly free until it is inserted or spent. `destroyed` is the set of handles whose `hstate` is destroyed, so the native destroy in `NativeReturn` is the abstract `Destroy`, allowed only for a handle no id holds.
- `bound` is `api.handle` once `api.initialized` is set, else `None`. The worker's half-built binding, and its rollback, are stuttering steps of the abstract binder.

### How `TdlibAddon` corresponds to the code

- Each lock scope of the code is one atomic step.
- A lock held across steps is an owner variable:
  - `initOwner` holds `init_mutex` from `dlopen` to publish or rollback;
  - `apiOwner` holds `g_api_mutex` during a native send/receive/execute/destroy;
  - `clientsOwner` holds `g_clients_mutex` from the erase to the end of the native destroy.
- Workers take `g_api_mutex`, `g_counter_mutex` and `g_clients_mutex` only inside one step, because their scopes contain no blocking call.
- `fs[p]` describes each file as `Absent`, or as a shared object exporting the first *n* of the five entry points (0..5). The loader stops at the first missing one, and the probe needs only `create`, so this prefix length is all the code can tell apart.
- `mapped[p]` is what the loader has mapped. `dlopen` of a name that is already loaded returns that object, so probes after binding see the bound library even if the file changed.
- `api` is `g_api`: the handle, one pointer per entry point (the library each points into, or `None`), and `initialized`.
- `clients` is `g_clients`. Ids are the integers `n` of `tdc-<n>`; id 0 is never issued and stands for an unknown id. `counter` is `g_clientCounter`.
- `hstate` is the native library's view of each client handle: none, live or destroyed. Worker `w`'s client handle is `w` itself.
- `wk[w]` holds the worker's program counter and locals: chosen path, next symbol index, id, and the JS thread that queued it.
- `cl[c]` is the call in progress on JS thread `c`; `info[c]` is the last `getLibraryInfo` result.
- `ReplaceLibrary` is the environment: a deployment replacing or removing a library file.

### Actions

| Action | Code |
|---|---|
| `CreateClient` | queue a worker |
| `Find` | the probing loop |
| `LoadOpen` | early return (`AlreadyBound`) or `dlopen` |
| `Resolve` | one `dlsym`, or rollback |
| `Publish` | set `initialized` |
| `CheckCreate` | the create-pointer check under `g_api_mutex` |
| `NativeCreate` | `td_json_client_create` (it may return null) |
| `NextId` | draw the id under `g_counter_mutex`; with `AllocFails`, building the string may throw after the increment |
| `Insert` | insert into `g_clients`; with `AllocFails`, the insert may throw and the catch reports it |
| `Complete` | `OnOK`/`OnError`: the callback, then the promise; with `CallbackThrows`, the callback throws and the promise is never settled |
| `DestroyClient` | lookup and erase |
| `DestroyNative` | take `g_api_mutex` and call native destroy |
| `Send`, `Receive` | lookup (`Receive` first checks the timeout) |
| `CallClient` | take `g_api_mutex` and call native send/receive |
| `Execute` | `g_api.execute(nullptr, ...)` under `g_api_mutex` |
| `NativeReturn` | the native call returns and the locks are released |
| `GetLibraryInfo` | the read-only status record |

Some branches are defensive code that cannot run once a client exists:

- null `send`/`receive` pointer in `CallClient`;
- null `destroy` pointer in `DestroyNative`;
- null `create` pointer in `CheckCreate`.

They are kept as `IF` branches. The model agrees with the code that they are unreachable: a client exists only after a complete bind, and a bind is never undone. `ClientsImplyBinding` states this.

## 3. Runs

| Run | cfg | Expect | What it shows |
|---|---|---|---|
| `registry` | `MCTdlibAddon.cfg` | pass | With 2 workers and 1 JS thread, every live native client has exactly one owner (`NoLeakedHandle`). While any client is registered, the binding is complete and mapped (`ClientsImplyBinding`). Every `createClient` settles, through every load failure (`CreateClientSettles`). |
| `partial_binding_observed` | `MCTdlibAddonInfo.cfg` | violation | `getLibraryInfo` reports `hasCreate` but not `hasSend` during a load (`InfoAllOrNothing`). |
| `execute_during_rollback` | `MCTdlibAddonUnload.cfg` | violation | With a library lacking only `td_json_client_destroy`, `execute` calls into the library. The failing load then `dlclose`s it while the call runs (`NativeCodeMapped`). |
| `two_js_threads` | `MCTdlibAddonThreads.cfg` | violation | Two JS threads share the addon's statics: `receive` on one thread uses a handle that `destroyClient` on the other destroyed after the lookup (`HandleLive`). |
| `nan_timeout` | `MCTdlibAddonNaN.cfg` | violation | `receive(id, NaN)` passes the range check and reaches native code (`ReceiveTimeoutBounded`). |
| `refinement` | `MCTdlibAddonRefine.cfg` | pass | The registry implements `ClientRegistryAbstract` and the binder implements `BinderAbstract` (`RegistryRefinement`, `BinderRefinement`). With one JS thread, no native send/receive/destroy ever gets a destroyed handle (`HandleLive`). The bounds are those of `registry`, plus allocation failures and throwing callbacks. |
| `alloc_failure_leak` | `MCTdlibAddonAlloc.cfg` | violation | A `bad_alloc` while building `"tdc-" + to_string(...)` or inserting into `g_clients`, after `td_json_client_create` succeeded, leaves a live client nobody owns (`NoLeakedHandle`). |
| `ids_out_of_order` | `MCTdlibAddonOrder.cfg` | violation | Two workers draw tdc-1 and tdc-2, and tdc-2 is inserted first (`IdsIncreaseInCreationOrder`, spec 8). |
| `prober_diagnostic` | `MCPathResolverDiag.cfg` | violation | The last candidate opens but lacks `create`. `try_load_tdjson` has already consumed that `dlerror`, so `LibraryNotFound` reports an earlier candidate's error (`DiagnosticIsLastFailure`, spec 4.2). |
| `receive_starvation` | `MCTdlibAddonStarve.cfg` | violation | `CallLoop` makes the JS thread call without end. An `execute` loop keeps retaking `g_api_mutex`, and under weak fairness the worker waiting at `td_json_client_create` never proceeds (`WorkerExecuteReturns`). |
| `callback_throws` | `MCTdlibAddonCallback.cfg` | violation | A createClient callback that throws stops `OnOK`/`OnError` before `deferred.Resolve`/`Reject`, so the promise never settles (`CreateClientSettles`). |

The nine violations are findings in `PROJECT.json`.

- The first two have one root cause: `load_tdjson` uses `g_api.init_mutex`, while every reader uses `g_api_mutex`.
- `two_js_threads` depends on the addon being loaded by more than one JS thread (`worker_threads`). The spec assumes one primary context but calls the surface thread-safe.

### Bounds (the passing `TdlibAddon` runs)

| Bound | Value | Why it is enough |
|---|---|---|
| Workers | 2 | Two are the least that race on `init_mutex`, the counter and the registry. |
| JS threads | 1 | This is the execution model the spec states. |
| Override path (initial library) | absent, unrelated (no `create`), missing `execute` (rollback after three pointers), or complete | These are the cases the code tells apart. |
| `/usr/local/lib` | absent or complete | This gives fallback to a later candidate. |
| Other candidates | absent | They only lengthen the same search. |
| File replacements | 1, of the override path | This lets a probe and the later `dlopen` disagree. It also lets an earlier candidate appear after binding. |
| JS calls taking an argument | 2 | Enough for destroy-twice and lookup-then-use. |
| Timeouts (ms) | -1, 300000, 300001 | The rejected value on each side and the accepted upper edge. |

`registry` explores 756,104 distinct states in about 65 s, its liveness check included. `refinement` uses the same bounds with `AllocFails` and `CallbackThrows` on: 2,555,418 distinct states in about 80 s. This is the only passing run where the failure branches of `NextId`, `Insert` and `Complete` fire. `AllocFails` and `CallbackThrows` are off in the other passing runs, because those runs' properties are the ones the failures break (see the violation runs).

### Fairness

`Fairness` assumes weak fairness for the following:

- each worker's steps, because the libuv pool runs every queued work item to completion;
- `Complete`, because Node runs the after-work callback once the JS thread returns to its event loop;
- the continuation of a JS call already in progress, because a native call returns (receive is bounded by its timeout).

Starting a new call and replacing a file are not fair: the user may stop.

`std::mutex` gives no fairness. So `CreateClientSettles` holds with a bounded number of JS calls. `receive_starvation` shows what happens without the bound: a JS loop of `execute`/`receive` calls starves a worker waiting for `g_api_mutex`. Only strong fairness of that mutex, which the code does not have, would exclude this, so no passing run assumes it.

### Mutants

Each property of a passing run is matched with a seeded fault in `PROJECT.json`, which TLC must detect. The seeded faults are defined next to the definition they replace (`Seeded fault:` comments):

- the symbol index is off by one;
- the counter is not incremented;
- the early return of `load_tdjson` is dropped;
- the entry is not erased before the native destroy;
- the failure path keeps `init_mutex` locked.

The refinement properties reuse two of these faults. Without the increment, id 0 is registered and ids collide (`RegistryRefinement`; dropping the erase before the native destroy also breaks it). Without the early return, a later `createClient` rebinds to another path (`BinderRefinement`).

## 4. Not modelled, and observations outside TLC's reach

Not modelled:

- **Windows build of the binder.** `load_tdjson`'s `LoadLibraryW`/`GetProcAddress`/`FreeLibrary` branch (lines 84-127) takes the same steps as the Unix one, and `TdlibAddon` models the Unix build. The Windows candidate list is modelled in `PathResolver`. The Windows build also calls `dlerror`, which it does not have.
- **Argument type checks.** These throw `TypeError` before touching state.
- **Error text.** Message wording and the `Last error:` diagnostic.
- **JSON payloads.** They are opaque.
- **The smoke test.**

Observations made while reading the code, not checkable by TLC:

- **`g_api = TdJsonApi{}` (lines 97-173).** This assigns to a struct that contains a `std::mutex`, which is neither copy- nor move-assignable, so as written it does not compile. The model takes its evident intent: reset every field. Even if it compiled, it would overwrite the mutex that the enclosing `lock_guard` holds.
- **`find_tdjson_library_path` calls `dlerror()` (line 365) on every platform.** On Windows that symbol does not exist.
- **`get_addon_directory` is commented "the directory where the addon is located".** On Linux it reads `/proc/self/exe`, which is the `node` binary, so the "relative from addon" candidate is relative to node's directory. The Windows branch does use the module's own address. The model treats the path as one opaque candidate.
- **Lost diagnostic.** A candidate that opens but lacks `create` contributes no error text, because `try_load_tdjson` consumes the `dlerror`.

## 5. Plan

Done:

1. `TdlibAddon`: the binder, registry, call surface and worker; the safety and liveness runs and the first four violations.
2. `PathResolver` + `MCPathResolver`: the candidate lists and the search's diagnostic.
3. The abstract registry and binder, with their refinement checked.
4. Allocation failure after `td_json_client_create` (`alloc_failure_leak`).
5. Id ordering against spec 8 (`ids_out_of_order`).
6. A throwing createClient callback (`callback_throws`).

7. The `_WIN32` candidate list, and the prober's `last_error` diagnostic (`prober_diagnostic`).
8. Receive/execute starvation of a pool worker (`receive_starvation`).

Next sittings:

1. **Wider bounds** where runtime allows: 3 workers, 3 calls, replacement of `/usr/local/lib` too. Symmetry on `Workers` is allowed only in runs without liveness.
2. **Binder as seen under `g_api_mutex`:** a second mapping, from the pointers the readers see to the abstract binder. It is expected to fail, with the same root cause as `partial_binding_observed`.
