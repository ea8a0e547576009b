# TLA+ models of the Divinity: Original Sin 2 Script Extender

The Script Extender is a C++ library that is loaded into the game (`src/ScriptExtender`). It
gives mods a Lua API on the server and on the client, extends Osiris (the game's story
language), synchronises mod data over the game's network connection, and lets an editor debug
Lua and Osiris code. Around it are a debug adapter in C# (`src/LuaDebugger`), an updater and
a few tools.

This directory holds TLA+ modules of the parts of it that keep state of their own and where the
order of events matters, TLC configurations that check them on small instances, and TLAPS
proofs of what matters most. Sections: inventory, plan, the modules one by one, the runs and
their bounds, fairness, proofs, what is left out.

Paths below are relative to `src/ScriptExtender` unless they start with `src/`.

## 1. Inventory

| Component | State | Operations | Interacts with | Hard because of |
|---|---|---|---|---|
| User and mod variables (`Extender/Shared/UserVariables.*`, `Lua/Libs/Vars.inl`) | registered prototypes; a store of values with dirty flags per peer; a write-back cache in the Lua state with a flush queue; deferred and next-tick queues of the sync writer | register, read, write, mark dirty, flush on tick, explicit sync, receive, rebroadcast, save, load, drop caches | Lua proxies, network managers, tick, savegame, game states | two levels of caching, crossing writes of peers, early returns that keep or discard, sessions |
| Lua state lifecycle (`Extender/Shared/ExtensionState.*`) | pin count, recursive mutex, two pending flags, post-reset callbacks, the VM | pin, unpin, request a reset, reset, bootstrap | every thread that runs scripts; console, network message and session load ask for resets | flags read and written outside the mutex, re-entrance from scripts and callbacks |
| Lua debugger backend (`Lua/Debugger/*`, `Osiris/Debugger/DebugInterface.cpp`) | pause flag, step request and depth, breakpoints, action queue, readiness, sequence numbers, the socket | line hook, break, wait, evaluate, continue and step, set breakpoints, connect, disconnect | Lua thread, messaging thread, debug adapter | a condition variable, two sending threads, disconnects at any point, re-entrance from evaluations |
| Lua debug adapter (`src/LuaDebugger`) | stopped threads, sequence numbers, pending requests | launch, continue, breakpoints, evaluate, receive | the backend over TCP, the editor | asynchronous answers, its view may be stale |
| Network managers (`Extender/*/NetworkManager*.cpp`, `NetProtocol.cpp`) | extender support of the host, extender version of each peer, fixed-string sync state | hello, accept, broadcast, fixed-string request and table | game states, user variables, Lua messages | peers joining late, requests before readiness |
| Game-state machine (`Extender/*/ScriptExtender*.cpp`) | current state, post-startup and load flags | handlers of state changes | everything above | the same handler in another order of states |
| Threaded state and console (`Extender/Shared/ThreadedExtenderState.inl`, `Console.cpp`) | thread ids, task queue | add and remove threads, submit a task and wait, read input | game threads | a task nobody runs, a set read without a lock |
| Lua lifetimes (`Lua/Shared/LuaLifetime.h`) | bitmap pool of lifetimes with salts, a stack of lifetimes per state | allocate, release, push and pop, check a handle | every proxy of an engine object | reused slots, summary bits that disagree, a full pool |
| Osiris debugger (`Osiris/Debugger/*`) | breakpoints, call stack, pause flag | as the Lua debugger, with framing on the socket | server thread, messaging thread | as the Lua debugger |
| Status machine hooks (`Extender/Server/StatusHelpers.inl`) | statuses being entered, statuses that are pending, the machine's prevention flag | apply, prevent, enter, update, delete | Lua and Osiris handlers in between | re-entrance, addresses that are reused |
| Hit and damage helpers (`Hit.cpp`, `Osiris/Functions/DamageFunctions.cpp`) | the pending hits and three maps of pointers to them, the pool of damage helpers | deal, set up, enter, apply damage; prepare and execute a custom hit | status machine, scripts | re-entrance, plain pointers, addresses that are reused |
| Savegame serializer (`Extender/Shared/SavegameSerializer.inl`) | cached persistent variables, marked stats | save and load variables, mod data, stats | user variables, Lua, game states | the VM may be missing, reset or without the mod |
| Osiris bindings, Lua bindings, property maps, engine hooks, custom stats and conditions, updater, crash reporter, tools | registries and tables | conversions, lookups, I/O | | little state; not candidates for a model |

What makes them correct is stated as properties in section 3; PROJECT.json lists the
hazards of all of them by line, with the properties that would notice.

## 2. Plan

Done, in this order:

1. `UserVars` - the replicated variables, because mods store everything in them and no test of
   the repository covers their synchronisation.
2. `LuaState` - because every script runs under its pins.
3. `LuaDebugger` - because it is where threads block each other.
4. `Lifetimes` and the abstract `LifetimeScopes`, which it implements - because every proxy of an
   engine object relies on it, and a single wrong bit is a use after free.
5. `Session` - the two game-state machines, the task queues and the console, and what a savegame
   keeps: it joins what `UserVars` and `LuaState` assume of their surroundings.
6. `Combat` - hits and statuses, where scripts run in the middle of the engine's calls.

How they fit together: `LuaState` has the interleavings of one reset, `Session` takes a reset as one step
and has its consequences; `UserVars` takes the session states that `Session` produces as its phases;
`Lifetimes` is about one VM between two resets; `Combat` about one VM between two sessions.

Next: an abstract specification of `UserVars` for variables that only the server writes, and its
refinement; of `LuaState`, a VM that is replaced in one step. Then the message budget and the index map
of module variables. Every invariant and action property that the runs check has its theorem (section 6); those
two refinements are what is worth proving next.

## 3. Modules

### UserVars

One server, any number of clients, any number of keys. `ModKeys` are module variables, whose owner
always has a network id; every other key belongs to one game object a peer may or may not have
(`known`). The code has the two managers twice, for user and for mod variables, with the same
algorithm; the model has it once.

| Variable | Code |
|---|---|
| `proto` | the flags each key is registered with (constant during a run) |
| `registered` | `prototypes_` |
| `store` | `vars_` of UserVariableManager and ModVariableManager, with `Dirty` |
| `cache`, `flushQ` | `vars_`, `flushQueue_` of the Cached...Managers of the Lua state |
| `deferred`, `nextTick` | `deferredSyncs_`, `nextTickSyncs_` of the sync writer |
| `support`, `hello` | `extenderSupport_` of the clients, `extenderPeerVersions_` of the server |
| `down`, `up` | messages in transit |
| `phase`, `saved` | game state of each peer as its handlers see it; the last savegame |
| `stale` | history: the client's copy of a key missed an update for good |

Actions: `RegisterPrototype`, `Push` (read), `Set`, `MarkDirty`, `OnUpdate` (tick), `SyncVariables`
(explicit flush), `OnAcceptMessage`, `ReceiveHello`, `ReceiveFromClient`, `ReceiveFromServer`,
`EnterLoadLevel`, `EnterRunning`, `ObjectAppears`, `NewSession`, `LuaReset`, `SaveGame`, `LoadGame`.
Each is the whole handler: `Set` with SyncOnWrite goes through the cache, the store and the message.

Properties: `NothingForgotten`, `CacheCoherent`, `Delivered`, `Agreement`, `EventualAgreement`,
`WritesReachStore`, `SaveIsCurrent`; and two that the code does not keep, `LocalClientAgrees` and
`SyncSendsAllWrites`.

Abstractions and assumptions:
- The transport is reliable and FIFO per link, as the game's RakNet channel is used; the handlers of
  one peer run on that peer's thread, one at a time. Disconnects are not modelled.
- A key is registered with the same flags on both sides, and not again with other flags.
- A message is a function from keys to values. Its encoding, the split at 300000 bytes and the drop
  of payloads above 0xfffff are left out.
- `LikelyChanged` compares scalars and calls every table changed: equal values may go either way. A
  table that a script changes in place is not modelled.
- The order in which a client gets objects and variables is free (`ObjectAppears`); the repair in
  SyncEntityGuids is part of that freedom.
- `NewSession` is UnloadSession and LoadSession in one step; `LoadLevel` also stands for Sync and
  PrepareRunning, in which the writers stay closed.

### LuaState

Each thread has a stack of frames, one for each place in ExtensionState.cpp at which another thread
may get in between. The recursive `luaMutex_` has no variable: a thread holds it while it has a frame
past the place where it locks. `LuaReset` does not lock, and each of its reads and writes of a flag is
a step. Scripts, bootstraps and callbacks may pin again or ask for a reset (`MayAct`).

| Variable | Code |
|---|---|
| `refs` | `luaRefs_` |
| `pendingDelete`, `pendingStartup` | `LuaPendingDelete`, `LuaPendingStartup` |
| `callbacks` | `luaPostResetCallbacks_`: those registered before the loop over them starts, and during it |
| `vm` | `Lua`: none, created, or with its bootstraps started |

Actions: `IncLuaRefs`, `DecLuaRefs`/`CheckPending`/`Unlock`, `LuaReset`/`RequestDelete`/
`RequestStartup`/`CheckRefs`, and LuaResetInternal as `Lock`, `Destroy`, `Create`, `Protect`,
`LuaStartup`, `RunCallback`, `EndCallbacks`, `Weird`.

Assumptions: the plain flags behave like sequentially consistent atomics, the weakest reading under
which the code can be right at all. A body takes at most one nested pin at a time (frame `rest`): more
leave the same trace. The two consecutive pins of the server's LuaStartup are one body. A callback
pushed while the vector is iterated may or may not be seen; that the iterator may be invalid by then
is not modelled. The client does not pin in DoLuaReset (`IsServer`). `BootstrapsRun` and
`CallbacksAwaitReset` are stated for a state that one thread uses (`users`): with two they fail by the
race that `AssertPendingDelete` shows.

### LuaDebugger

The backend's two threads, `lua` and `msgr`, as stacks of frames, the socket, and the frontend.

| Variable | Code |
|---|---|
| `stack` | where each thread is in OnLuaHook, TriggerBreakpoint, Send, HandleDisconnect, ... |
| `sock`, `inbox`, `wire` | `clientSocket_` and the data under way; `fin`: the frontend has closed its end, `rst`: the connection is broken |
| `ready`, `outSeq` | `debuggerReady_`, `outboundSeq_` |
| `breakpoints`, `pending`, `breakOn` | `breakpoints_`, `pendingActions_`, the two break-on-error flags |
| `paused`, `request`, `maxDepth`, `depth` | `isPaused_`, `requestPause_`, `pauseMaxStackDepth_`, `currentStackDepth_` |
| `hooked`, `pos` | the VM's line hook; line and call depth the script is at |
| `stopped`, `expected`, `evals` | `ThreadState.Stopped`, `IncomingSeq`, `PendingEvalRequests` of the adapter |
| `wanted` | history: the breakpoints this frontend sent last |

TriggerBreakpoint is `Pause`, `Clear`, `Stamp` and `Send` of its message, `Lock`, and the wait:
`ExecuteQueuedAction` and `Decide` with the mutex, `Block` (the moment between a false predicate and
the sleep, in which a notification is lost), asleep. Each handler of the messaging thread is an action
followed by the sending of its answer. A disconnect is `Disable`, `Release`, `Detach`, on the messaging
thread or, after a failed send, on the thread that sent.

Properties: `StopsAreReal`, `EvalsRunPaused`, `EvalsAccounted`, `BreakpointsCurrent`, `StepsSurvive`; and
two that the code does not keep, `SequenceMatches` and `Resumes`.

Abstractions: one context (`server_` and `client_` are twins that share the socket). The VM exists
all the time, so recreated VMs and `enabled_` are left out. A script may be at any line and depth at
each hook. Evaluate and GetVariables are one request; requests have numbers that are unique over
sessions. The lines of one unlocked critical read are one step (IsBreakpoint; the assignments of
EnableDebugging). `newBreakpoints_` is local to its handler. Header and body of a message are sent in
one step. Mod and source requests and debug output, which change nothing here, are left out, as is the
line hook inside an evaluation. A new frontend connects after the backend has dropped the old one.
`recv` returning 0 keeps the messaging thread in its loop, as in the code.

### Lifetimes and LifetimeScopes

`LifetimeScopes` says what a proxy may rely on: scopes open and close, no scope is given out twice while
somebody still holds a value of it, and a value is usable exactly while its scope is open. `Lifetimes` is the
code.

| Variable | Code |
|---|---|
| `l1`, `l2`, `l3` | the three bitmap levels of HierarchicalPoolAllocator, a word as the set of its one-bits |
| `alive`, `salt` | `isAlive_`, `salt_` of each pooled Lifetime |
| `phase`, `global` | the constructor and destructor of the Lua state; `globalLifetime_` |
| `frames` | `lifetimeStack_`, with the kind of the pin that pushed each lifetime |
| `owners`, `refs` | the LifetimeOwnerPins of objects Lua owns; the other proxies Lua still has |
| `uses` | history: how often a slot was acquired |

Actions: `EnterCall`, `EnterCommand`, `Leave`, `NewOwner`, `DropOwner`, `MakeRef`, `DropRef`, `Close`, `Closed`,
`Reset`. Properties: `SummariesExact` (the levels agree with the slots in use), `NothingLeaks`, `RefsScoped`,
and the refinement `ImplementsScopes`.

Observations. The null handle (index 0, salt 0) is never issued because the global lifetime occupies slot 0
with salt 1 first; a full pool issues null handles, whose objects are dead at once. The constructor's masks for
partly used words (LuaLifetime.h:23-26) are wrong for pools that are not a multiple of 64^3 slots; the only
pool there is has such a size, and the model has full words only. Assumption `Distinct`: no proxy is held while
its slot is used as often as there are salts (2^30 times).

### Session

One process with a server and a client, as the host runs it; a client that joins is the same client without a
server state.

| Variable | Code |
|---|---|
| `state`, `prepared` | the game state of each side; how far OnStatsLoad and OnSkillPrototypeManagerInit are |
| `vm` | the context of the VM, the session events its scripts were told, PersistentVars of a mod |
| `installed`, `ext` | whether a mod has a ModTable; `cachedPersistentVars_` and `persistentStats_` |
| `entries` | the stats entries of the game (`stats->Objects`) |
| `source`, `saved` | the variables that the session is loaded from, with what became of them (`read`), and the last savegame |
| `tasks`, `notifying` | `threadTasks_` of each side; a game thread between the unlock and notify_one of its task |
| `console`, `completed` | the console thread in SubmitTaskAndWait, and the flag on its stack |
| `resets` | reset messages on their way to the client |
| `wiped`, `wanted`, `vm.odd` | history |

Actions: `ServerStateChanged` and `ClientStateChanged` (the whole of OnGameStateChanged as far as it touches this
state), `OnStatsLoad`, `OnSkillPrototypeManagerInit`, `SaveGame`, `LoadGame`, `SetPersistentVars`, `CreateStat`,
`Sync`, `SetPersistence`, `OsiLuaReset`, `HandleCommand`, `SubmitNext`, `EnqueueTask`, `Wait`, `RunTask`, `Notify`,
`OnResetMessage`. Properties: `ToldOnce`, `RestoredFirst`, `SavesKeep`, `NotifiesLive`, `PromptReturns`.

`LoadGame` takes how reading goes as its inputs. A savegame may be newer than the extender: nothing of it is read, an
error is shown and the session goes on (SavegameSerializer.inl:11-17). Lua may fail to take the variables. Each stat may
fit, be of a type the entry does not have or the game does not know (145-155), or have a payload that cannot be parsed,
after its entry was made (165-168); only one that fits is marked. `SaveGame` does not write a marked stat that the game
no longer has (181-185), and takes the variables of the savegame if Lua cannot write out its own.

What the properties leave out, because the code does not keep it:
- A savegame that is newer than the extender: no PersistentVars are back at SessionLoaded, and the next savegame has
  neither those nor the stats of the last. A session brings nothing from such a savegame: its `source` is that of a new
  game, and that is what `RestoredFirst` and `SavesKeep` compare with. A stat that could not be loaded is not in the next
  savegame either, so `SavesKeep` speaks of those that were.
- If Lua fails to take the variables, they are not there at SessionLoaded (`RestoredFirst`), but they are saved again as
  they were unless the mod sets others (`SavesKeep`).
- A reset in a running game throws SessionLoading in the new VM, whose server handler clears the marked stats and
  cached variables (LuaServer.cpp:1425), and PersistentVars are not restored before SessionLoaded is thrown again
  (`wiped`). Nothing that is saved in that session is compared with what it came from, so the reset drops that history
  too (`Forget`).
- A task that was queued in a running game may run after the game left it, and a reset message may reach a client
  that is still joining: the new VM is then told of its session not at all, or twice (`odd`).
- Spurious wakeups of the console's wait, after which its locals die before notify_one (THR 36-38). The lock is
  taken before the task is queued, and that is what keeps the locals alive otherwise (`NotifiesLive`).
- ModuleResume is thrown twice after a reset; the order of the others is what `ToldOnce` states.

Abstractions: Running stands for Paused, LoadLevel for Sync, Idle for UnloadModule. `installed` is a mod that has a
ModTable and asks for version 43 or later (LuaServer.cpp:1546). What entries there are when the server's module has loaded is
arbitrary; server and client of one process share them, so loading of the client leaves them alone. Entries are never
removed while a module is loaded, as the extender has no call for it. Multi-line input is left out, as is what other
commands of the console do. `Ext.Stats.Sync` without its second argument does not mark the stat (Stats.inl:1058),
although its comment says "(default `true`)".

### Combat

One status machine of the server; every status in it is a HIT. The engine calls hooks, hooks call scripts, and
scripts call the engine: `stack` has the hooks that have not returned, and `MayCall` says where a script runs.

| Variable | Code |
|---|---|
| `pendingHits` | PendingHitManager: `hits_`, `nextHitId_` and the three maps from addresses to hits |
| `helpers`, `nextHelperId` | DamageHelperPool |
| `active`, `list`, `prevent` | `IsStatusMachineActive`, `Statuses`, `PreventStatusApply` of the engine's machine |
| `pendingStatuses`, `pendingApply` | PendingStatuses with `PreventApply`; `pendingApply_` with `PendingDelete` |
| `requested`, `life` | the flag RequestDelete; what became of the object at an address |
| `crashed` | an object was used after it was freed: what follows is undefined, and the behaviour ends |
| `asked`, `dealt`, `own`, `seen`, `reused` | history: who asked for what, and which hit is whose |

Actions: `CharacterHit` and `CharacterHitReturns`, `HitPrepare`, `HitExecute` (`HitExecuteFails`, `ExecuteHit`,
`ExecuteApply`, `ExecuteReturns`), `StatusHitSetup`; OnApplyStatus as `ApplyStatus`, `StatusAttempted`,
`BeforeStatusApply`, `ApplyStatusReturns`; `PreventApply`; `EnterStatus`, `CharacterApplyDamage`,
`EnterStatusReturns`; `DeleteStatus` with `DeleteStatusReturns` or `DeletedTwice`; `Update`, `Activate`, `NewSession`.

Properties: `NoDangling`, `ContextIsOwn`, `PreventionIsOwn`, `HelpersLive`, `DeletionWaits`, `NothingLeft`.

Observations.
- OnApplyHit and OnStatusHitDestroy have no caller. Hits are therefore never forgotten within a session, and when the
  engine reuses the address of a StatusHit, `insert` keeps the old entry and handlers get the context of an old hit.
  `ContextIsOwn` is stated for addresses that were not reused (`reused`).
- The branch of OnCharacterHit for a hit that has its status already (Hit.cpp:25-27) is never taken; this is part
  of the proof.
- A handler of BeforeStatusApply can prevent a status and cannot allow one that was prevented (Hit.cpp:346).
- A script that executes a custom hit again from a handler of the same hit destroys the helper the outer call uses
  (DamageFunctions.cpp:281); HitExecute of the model never looks at a helper again other than to destroy it.
- DeleteStatusByHandle finds a status through the component factory (Status.h:16-19), whether it is in `Statuses` or not. A
  deletion during Enter takes the status from the list and marks it; a second one meanwhile is passed to the engine
  ("THIS WILL CRASH", StatusHelpers.inl:79-82). What the engine does with a status that is not in its list is not in this
  repository: `DeleteStatusByHandle` of the model does nothing, or frees the object, and then a hook that has it in
  hand (`Held`) goes on with freed memory. `DeletionWaits` therefore allows for a status that is marked to go, and for no other.
- A status that is deleted while a handler of its own deletion runs leaves a pointer to a freed object in
  the hook (StatusHelpers.inl:62-68): `DeletedTwice`, where the game may crash.

Assumptions: an address is reused by the engine only after the object was freed; a damage info is filled by
Character::Hit before each Setup that takes it as a hit of its own. Osiris' limit on nested events is `MaxDepth`.
Handlers of BeforeStatusDelete that change the list Update iterates over are not modelled. The target of a status
exists. A script deletes a status by a handle that the factory still has: for another GetStatus returns a null pointer,
which the hook does not check.

## 4. Runs

| Run | Shows | Bounds |
|---|---|---|
| `user_vars` | the safety properties of UserVars over whole sessions: menu, load, play, level swap, save, new session | one client, one object variable with each of five flag sets, two values, two script writes, one reload; about 310,000 states |
| `user_vars_two_clients` | crossing writes of three peers to a variable synced both ways agree, and settle | two clients, one mod variable, from the middle of a game (`InGame`, a reachable state), fair; about 96,000 states |
| `user_vars_local_client` | violated: host and only client end up with each other's value | as above with one client |
| `user_vars_sync_call` | violated: SyncUserVariables leaves cached changes behind | one client |
| `lua_state` | pins, resets and callbacks of the server's state, and that requests settle | three threads, call depth 4, three requests; about 185,000 states |
| `lua_state_assert` | violated: the assertion that a reset is pending | two threads, one request |
| `lua_debugger` | what the user sees is held, nothing asked for is lost | two frontends, two requests, one line, depth 2, all kinds of breaks; about 1.4 million states |
| `lua_debugger_sequence` | violated: messages arrive in the order of their numbers | one frontend |
| `lua_debugger_resume` | violated: a script that was let go resumes, when an expression raised an error | one frontend, two requests, fair |
| `lifetimes` | bitmaps, salts and pins keep every handle's promise, through full pools and wrapped salts; the pool implements LifetimeScopes | 8 slots in 3 levels of 2 bits, 3 salts, 8 allocations, nesting 2; about 293,000 states |
| `session` | session events and the console through any order of game states, resets, saves and tasks; savegames keep what could be loaded; the console's prompt returns | one mod, one stat, one task per queue, one reset message, fair; about 874,000 states |
| `combat` | hits, statuses, preventions and deletions that nest keep apart, and nothing is left of them | two statuses, one other damage info, three hits, two helpers, nesting 4; about 2.6 million states |

Why the bounds are enough: a hazard of UserVars needs at most two writes (two sides, or an old and a new
value) and one event that drops or replaces state. Of LuaState's races each needs two threads; the third is
there to use the VM meanwhile; depth 4 holds a reset asked for in a callback of a reset that a nested pin
started. In LuaDebugger two requests are a request and the continue that races it, and the second
frontend meets what the first left behind; the call depth 2 tells the steps apart. Larger instances give the
same results: `user_vars` with three writes (670,000 states), `lua_debugger` with two lines, and with three
requests of one frontend (2 million states).

Three salts wrap within eight allocations, and eight slots are the smallest pool in which each level has words
that are full while others are not. In Session one queued task is enough to outlive a state
change, and two (server and client) to let a command be skipped half way. In Combat four levels hold a status that is
applied by the handler of a custom hit that is executed by the handler of another status.

Deadlock is checked for LuaState, UserVars, Lifetimes and Session. In Combat the game may crash on a status that is
deleted twice, and a session is bounded in its hits. LuaDebugger really stops: the user runs out of requests
and frontends, and there are two ways to freeze the game that PROJECT.json lists as hazards (a break
between readiness and the pin of EnableDebugging; a disconnect between the readiness check and the pause).

Findings. Five of the runs show disagreements between the code and what its comments, assertions or
documents say; each is a finding in PROJECT.json with the steps that lead to it. `Resumes` is worth a
remark: in the same instance without expressions that raise errors (`Raising = {FALSE}`) it holds, so the
evaluation under the mutex is the only cause.

## 5. Fairness

- UserVars: each peer's main loop ticks (`OnUpdate`), a level that is loading finishes, messages in transit
  are handled. Scripts, players and joining are never forced.
- LuaState: a thread that is inside the extension's own code continues; what runs under a pin ends. Both
  hold unless a script loops for ever, which hangs the game anyway. Weak fairness is enough: a thread that
  waits for the mutex is served because others give it up and the requests are bounded.
- LuaDebugger: both threads run, the frontend reads its socket, and a running script ends (strongly fair,
  because each hook interrupts it). No wakeup is assumed other than notifications.
- Session: the console thread and a game thread that notifies go on (weakly fair); a game thread that comes round
  again and again runs its tasks (strongly fair, as the server may be gone for a while). The game need not ever
  leave a state, and `PromptReturns` is conditional on a server that comes back.

## 6. Proofs

TLC checks the instances above; the following hold for every value of the constants that satisfies the
`ASSUME`s of the modules (`UserVarsAssumption`, `LuaStateAssumption`, `LuaDebuggerAssumption`, `LifetimesAssumption`,
`SessionAssumption`, `CombatAssumption`). They cover every invariant and every action property of the passing runs.

`UserVars_proofs`:
- `Types`, `NoWriteForgotten`, `CachesNeverLie`: `TypeOK`, `NothingForgotten` and `CacheCoherent` are
  invariants of `Spec`.
- `IInv` is their strengthening: `TypeOK`, `NothingForgotten`, and "only entries with a value are dirty"
  (`DirtyHasValue`), which is needed because a dirty entry without a value would put an absent value into a
  message and break the type of the channels. `IInv` is split into the parts about stores, caches, channels
  and the rest, so that an action that only touches one of them keeps the others by a one-line step.
- There is a lemma for each operator that several actions use (Broadcast, Send, SetDirty, FlushSync,
  NetworkSync, FlushCache, DropCache), and one per action.
- `CacheCoherent` is proved on top of `IInv`. Its guard "not in LoadSession" is needed: LoadGame replaces
  the store and not the cache, and what makes that harmless is that EnterLoadLevel drops the cache next.
- `Delivery` and `Agreeing`: `Delivered` is an invariant, and `Agreement` is one in every game of more than one client
  (with one it is false: run `user_vars_local_client`). Both follow from `Arriving`: for each client and variable,
  either the server's value waits in its writer's queues (`Waiting`), or it is the last one in the client's channel
  (`LastIs`), or the channel has none and the client has the value - or, of a variable that clients write too, has a
  value of its own that waits, or is on its way up, and that the server will send back. Two more facts are needed:
  what only the server writes is never dirty on a client (`Untouched`), and only what was registered is dirty
  (`DirtyRegistered`), without which LoadGame could take a value off the queues and not queue it again. `Writes` says
  what a write does, whether it is made at once, by a flush or by a save, so that these need one argument. `LastFor` picks the last message with CHOOSE; `LastIs` says that there is one, so no induction over channels
  is needed. The parts were checked by TLC on the instances of `user_vars` and `user_vars_two_clients` first.
- `WritesReach` and `SavesAreCurrent`: the action properties `WritesReachStore` and `SaveIsCurrent`. The second needs
  `Coherence`: a clean cached value, which a save does not flush, is the stored one.

`LuaState_proofs`:
- `Types`, `RefsCountPins`, `ResetFindsNoRefs`, `PinsKeepVM`: `TypeOK`, `RefsArePins`, `AssertNoRefs` and
  the action property `PinnedVMStays`.
- The inductive invariant joins to these: the frames that count as pins are finitely many; only one thread
  holds the mutex (`OneHolder`); what lies under the top of a stack is a frame that can have called it
  (`UnderTop`); and a thread that is about to reset the VM has no pin of its own further down its stack
  (`EntersUnpinned`). The last two are the heart of the argument: LuaReset reads `luaRefs_` without the mutex,
  and the read may be old by the time the mutex is taken, but a pin keeps the mutex for its whole scope, so a
  thread that has the mutex excludes the pins of the others, and it has none itself.
- `Bootstraps` and `CallbacksRun`: `BootstrapsRun` and `CallbacksAwaitReset`, which are about a state that one thread
  uses. `SoloInv` says of such a thread what the two flags are at each point of a reset (`Solo`): both stay set from
  LuaReset to the reset, nothing but the reset takes them, and below the pin of a VM that was just made there is only
  State::Initialize, which asks for nothing.

`LuaDebugger_proofs`, for any lines, any depth of scripts, any number of frontends and requests:
- `TypeCorrect`, `StopsReal`, `EvalsPaused`, `EvalsAnswered`, `BreakpointsLatest` for `TypeOK`, `StopsAreReal`,
  `EvalsRunPaused`, `EvalsAccounted`, `BreakpointsCurrent`; and `RequestsSurvive` for the action property `StepsSurvive`.
- What the frontend believes is only as good as what is under way, so the inductive invariant is about the channels:
  the connect message comes first and nothing that needs a held script comes after the user let it go (`Linked`,
  `Stops`); a stop that the user has not answered is the only one, and as long as there is one the Lua thread rests in
  its wait with `paused` set (`Resting`); evaluations are queued only for a thread that will look again (`Queued`); the
  last breakpoints the frontend sent are in the socket, in the queue, or set (`Updates`). `LuaStack` and `MsgrStack`
  say which frames can lie above each other: a disconnect runs in frames of its own between any two of these, and
  `Announces` is what that leaves of a stop that is being announced.

`Session_proofs`, for any values and stats and any bound on the queues:
- `TypeCorrect`, `EventsInOrder`, `NotifiesTheWaiting`, `VarsBackFirst`, `SavegamesComplete` for `TypeOK`, `ToldOnce`,
  `NotifiesLive`, `RestoredFirst`, `SavesKeep`.
- The inductive invariant has a part for each. `VMsKept` says which VM each game state can have and what its scripts
  have been told so far (`Told`), with VMs that a late reset makes (`odd`) apart; `Handshake` that the console's task is
  in one queue at most, or has been run and one game thread has yet to notify; `Savegames` where the persistent variables
  are in each state between LoadGame and the first save, whether or not Lua took them (`source.read`), and that without a
  reset the stats to keep are the marked ones, all of which the game has.

`Lifetimes_proofs`:
- `Types`, `BitmapsExact`, `NoLeaks`, `Scoped` for `TypeOK`, `SummariesExact`, `NothingLeaks`, `RefsScoped`; and
  `Implements`: `Spec => ImplementsScopes`, the refinement.
- The inductive invariant is `TypeOK /\ SummariesExact /\ Holders`, where `Holders` says which handles the frames,
  owners and proxies can have. The arithmetic of the three levels is in the lemmas `DivMod`, `Addresses` and `Scan` (a
  path of one-bits from the root leads to a free slot); `AllocateExact` and `FreeExact` are the two places where
  the bitmaps change. For the refinement there is one lemma per action; `AllocatedFresh` shows that a scope given out is
  fresh, which is where the salts, `Distinct` and the history `uses` come in, and `NoneFree` that a null handle is
  issued only when as many scopes are open as there are slots.

`Combat_proofs`:
- `Live`: `NoDangling` is an invariant. `IInv` joins to it that only hits that were set up are in `hitStatusMap_` and
  only hits that were entered in `hitStatusDamageMap_`: a hit that OnCharacterHit deletes still waits for its status,
  so the map of damage infos is the only one that can have it. There is a lemma for each operation of
  PendingHitManager; the hooks only choose among these, however they nest.

`CombatNesting_proofs`, for any depth of nesting (the run bounds it by `MaxDepth`, which no proof uses):
- `Prevention`, `Helpers`, `Nothing`: `PreventionIsOwn`, `HelpersLive` and `NothingLeft` are invariants.
- The inductive invariant is `NInv == IInv /\ Nested`. `HeldBy` says that the helper of a hit that is being prepared is
  that hit's alone, and none that a custom hit destroys. `Once` says that a status is applied by one frame at a time,
  `Staged` how far each apply is and what was asked for it, `Known` that what is pending has its frame. `Chain` is the
  heart: PreventStatusApply is one flag of the machine, and each OnApplyStatus that changes it keeps the old value on the
  C++ stack, so the value that counts for a frame is in the lowest frame above it that has kept one, and in the machine
  only if there is none. `OwnFlag` follows: at the decision the flag is that of the frame's own status.
- There are lemmas for what a call, a return and a change of the top frame keep of each part, and one per action.
  `Nested` was checked by TLC on the instance of the run `combat` before it was proved.

`CombatStatuses_proofs`, on top of it:
- `TypeCorrect`, `Deletions`, `Contextual`: `TypeOK`, `DeletionWaits` and `ContextIsOwn` are invariants.
- `SInv` joins to `NInv` the parts `Flags`, `Records`, `Contexts`, and either `Lives` or `Doomed`. `Lives` ties the machine's list to what became
  of the objects: below the Enter of a status is the frame that applies it, the status is pending exactly that long, and
  it is missing from the list only if its deletion was asked for. A second deletion can break that, in the step in
  which the game crashes: what is left then is `Doomed`, which has the types and `DeletionWaits` itself. `Flags` has the
  types of the flags and the sets. `Contexts` ties the maps to the history: what a map has
  for a status is the hit it was set up from (`Joined`), an address that no status was at is in no map (`Unseen`), and
  what the handlers of a running Enter were given is a hit that was entered, which nothing deletes (`Shown`).
  `Removed` is the removal of the engine's array, whose last entry takes the freed place; the lemmas about it are where
  the list stays without duplicates. All parts were checked by TLC on the instance of the run `combat` first.

Only model-checked: the liveness properties `EventualAgreement`, `PendingSettles` and `PromptReturns` (liveness under
fairness is outside what the installed provers handle, as are ENABLED and induction over data). The properties of the
runs that expect a violation are false, and their counterexamples are TLC's. `Agreement` is proved of `Spec`, from the
start of a game; its run starts in the middle of one.

## 7. Not modelled

Most of the code by lines: game definitions and property maps, enumerations, the stats loaders, the Lua and Osiris
function libraries, vendored parsers. They convert and look up, one call at a time, and what could go wrong in them is
a wrong offset or a wrong table, which a model does not show. The same holds for pattern scanning, file and network
I/O, the updater, the crash reporter and the tools. The Osiris debugger has the shape of the Lua debugger and no
module of its own.

Of the modelled components: the message budget and the encodings of UserVars, module index maps, disconnects of
game clients, the fixed-string table; the configuration loading in ExtensionState; in the debugger, in Session and in
Combat what section 3 lists. Data races on plain containers (`threadIds_`, the breakpoint tables, the callback vector)
are undefined behaviour whose outcomes the models do not enumerate; they are listed as hazards.
