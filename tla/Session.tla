------------------------------- MODULE Session -------------------------------
(***************************************************************************)
(* One process with a server and a client: the state changes of the two    *)
(* game-state machines create, reset and inform the Lua VM of each side;   *)
(* the server's state keeps what goes into a savegame; the console and     *)
(* Osiris ask for resets, through the task queues that the game threads    *)
(* run and through a network message to the client.                        *)
(*                                                                         *)
(* A reset is one step here: LuaState has its interleavings.               *)
(***************************************************************************)
EXTENDS Naturals, Sequences, FiniteSets

CONSTANTS
  Values,    \* contents of PersistentVars of a mod
  NoValue,   \* ... that has none
  Stats,     \* stats entries
  MaxTasks   \* bound on the length of a task queue and on reset messages under way

ASSUME SessionAssumption ==
  /\ NoValue \notin Values
  /\ MaxTasks \in Nat \ {0}
  /\ IsFiniteSet(Stats)

Sides == {"server", "client"}

VARIABLES
  state,      \* the game state of each side; "none": there is no server
  prepared,   \* how far a side got with loading the module
  vm,         \* the VM of each side: its context, the events scripts of it were told
              \* of, PersistentVars, and (history) whether a reset at an odd time made it
  installed,  \* the server has a configuration, with a ModTable, of the mod
  ext,        \* the server's cachedPersistentVars_ and persistentStats_
  entries,    \* the stats entries that the game has: Objects of RPGStats
  source,     \* the variables that the session is loaded from, and what became of them,
              \* until a reset forgets them
  saved,      \* the last savegame
  tasks,      \* threadTasks_ of each side
  notifying,  \* the side's thread is about to notify the console that its task is done
  console,    \* where the console thread is, and the tasks its command still has to submit
  completed,  \* the flag of the task the console waits for
  resets,     \* S2CResetLua messages on their way to the client
  wiped,      \* history: a reset threw SessionLoading in this session of the server
  wanted      \* history: the stats to keep, as the savegame and the scripts of this
              \* session have it, until then

vars == <<state, prepared, vm, installed, ext, entries, source, saved, tasks, notifying,
          console, completed, resets, wiped, wanted>>

sessionData == <<installed, ext, source, saved, wiped, wanted>>
serverData  == <<sessionData, entries>>
consoleVars == <<notifying, console, completed>>

-----------------------------------------------------------------------------
(* The game: which states follow each other.  Running stands for Paused too, *)
(* LoadLevel of the server for Sync, Idle for UnloadModule.                  *)

ServerMoves ==
  [none |-> {"Idle"}, Idle |-> {"LoadModule", "none"}, LoadModule |-> {"LoadSession"},
   LoadSession |-> {"LoadLevel"}, LoadLevel |-> {"Running"},
   Running |-> {"Save", "UnloadLevel"}, Save |-> {"Running"},
   UnloadLevel |-> {"LoadLevel", "UnloadSession"}, UnloadSession |-> {"LoadSession", "Idle"}]

ClientMoves ==
  [LoadMenu |-> {"Menu"}, Menu |-> {"LoadModule"},
   LoadModule |-> {"LoadSession"}, LoadSession |-> {"Running"},
   Running |-> {"UnloadSession"}, UnloadSession |-> {"LoadSession", "LoadMenu"}]

Moves(p) == IF p = "server" THEN ServerMoves ELSE ClientMoves

InSession == {"LoadLevel", "Running", "Save", "UnloadLevel"}

\* States of a client that is connected.
Connected == {"LoadModule", "LoadSession", "Running", "UnloadSession"}

\* The game thread of a side is not in the middle of a task.
Free(p) == ~notifying[p]

-----------------------------------------------------------------------------
(* VMs. *)

NoVM == [ctx |-> "none", told |-> <<>>, vars |-> NoValue, odd |-> FALSE]

\* The states in which LuaStartup resumes the module.
Resumes(p, s) ==
  \/ s \in {"LoadLevel", "LoadSession", "Running"}
  \/ s = "LoadModule" /\ prepared[p] = "skills"

\* DoLuaReset and LuaStartup, in state s.
LuaStartup(p, c, s) ==
  [NoVM EXCEPT !.ctx = c, !.told = IF Resumes(p, s) THEN <<"ModuleResume">> ELSE <<>>]

\* Events are thrown into a VM under a pin.  (What an odd one was told is not recorded.)
Throw(v, events) == IF v.ctx = "none" \/ v.odd THEN v ELSE [v EXCEPT !.told = @ \o events]

\* LoadExtensionState, of a side whose VM is v.
LoadExtensionState(p, v, c, s) == IF v.ctx = c THEN v ELSE LuaStartup(p, c, s)

SessionEvents == <<"SessionLoading", "SessionLoaded">>

\* The VM after a reset that is followed by the given events.
Reset(p, events) ==
  LET new == LuaStartup(p, IF vm[p].ctx = "none" THEN "Uninitialized" ELSE vm[p].ctx, state[p])
  IN  IF state[p] \in {"Menu", "Running"} THEN Throw(new, <<"ModuleResume">> \o events)
                                          ELSE [new EXCEPT !.told = <<>>, !.odd = TRUE]

EmptyExt  == [cached |-> NoValue, kept |-> {}]
EmptySave == [vars |-> NoValue, stats |-> {}]

\* What became of the variables of a savegame: it is not read yet; they were given back to
\* Lua; or the call of Lua that should take them failed.
Reads == {"unread", "restored", "refused"}

NewGame == [vars |-> NoValue, read |-> "restored"]

\* SessionLoading in the middle of a session: what its savegames should keep is forgotten,
\* and the history of it with that.
Forget(p) ==
  IF p = "server" /\ state[p] = "Running"
    THEN ext' = EmptyExt /\ wiped' = TRUE /\ source' = NewGame /\ wanted' = {}
    ELSE UNCHANGED <<ext, wiped, source, wanted>>

\* Variant of the next: tells a new VM of the session in any state.
ResetLuaStateAlways(p) ==
  IF vm[p].ctx = "none" THEN UNCHANGED <<vm, ext, wiped, source, wanted>>
  ELSE /\ vm' = [vm EXCEPT ![p] = Reset(p, IF state[p] = "Running" THEN <<"SessionLoaded">>
                                                                   ELSE <<>>)]
       /\ Forget(p)

\* ResetLuaState.  The SessionLoading of its callback is that of ExtensionState,
\* which on the server forgets what a savegame should keep.
ResetLuaState(p) ==
  IF vm[p].ctx = "none" THEN UNCHANGED <<vm, ext, wiped, source, wanted>>
  ELSE /\ vm' = [vm EXCEPT ![p] = Reset(p, IF state[p] = "Running" THEN SessionEvents
                                                                   ELSE <<>>)]
       /\ Forget(p)

-----------------------------------------------------------------------------
(* Changes of the game state. *)

\* What OnGameStateChanged does for the state that is left, ...
Leaving(p, v, to) ==
  CASE state[p] \in {"LoadModule", "LoadMenu"} -> LoadExtensionState(p, v, "Game", to)
    [] state[p] = "LoadSession"                -> Throw(v, <<"SessionLoaded">>)
    [] OTHER                                   -> v

\* ... and for the one that is entered.
Entering(p, v, to) ==
  CASE to = "UnloadSession" -> NoVM
    [] to = "LoadSession"   -> Throw(LoadExtensionState(p, v, "Game", to), <<"SessionLoading">>)
    [] OTHER                -> v

\* OnGameSessionLoading of the server.
SessionLoading == EmptyExt

OnGameStateChanged(p, to) ==
  /\ to \in Moves(p)[state[p]] /\ Free(p)
  /\ state[p] = "LoadModule" => prepared[p] = "skills"
  /\ p = "server" /\ state[p] = "LoadSession" => source.read # "unread"
  /\ state' = [state EXCEPT ![p] = to]
  /\ vm' = [vm EXCEPT ![p] = Entering(p, Leaving(p, @, to), to)]
  /\ prepared' = [prepared EXCEPT ![p] = "no"]
  /\ UNCHANGED <<saved, tasks, consoleVars>>

\* Messages under way go with the connection.
ClientStateChanged(to) ==
  /\ OnGameStateChanged("client", to)
  /\ resets' = IF to \in Connected THEN resets ELSE 0
  /\ UNCHANGED serverData

ServerStateChanged(to) ==
  /\ OnGameStateChanged("server", to)
  /\ UNCHANGED <<resets, entries>>
  /\ installed' \in CASE to = "LoadModule" -> BOOLEAN [] to = "Idle" -> {FALSE}
                      [] OTHER -> {installed}
  /\ ext' = CASE to = "UnloadSession" -> EmptyExt [] to = "LoadSession" -> SessionLoading
              [] OTHER -> ext
  /\ source' \in CASE to = "UnloadSession" -> {NewGame}
                   [] to = "LoadSession" -> {NewGame, [vars |-> saved.vars, read |-> "unread"]}
                   [] OTHER -> {source}
  /\ IF to \in {"LoadSession", "UnloadSession"} THEN wiped' = FALSE /\ wanted' = {}
                                               ELSE UNCHANGED <<wiped, wanted>>

\* RPGStats::Load of the server: what entries there are is up to the mods.
LoadStats(p) == IF p = "server" THEN entries' \in SUBSET Stats ELSE UNCHANGED entries

\* Variant of the next: stays in the preloading context.
OnStatsLoadStays(p) ==
  /\ state[p] = "LoadModule" /\ prepared[p] = "no" /\ Free(p)
  /\ vm' = [vm EXCEPT ![p] = LoadExtensionState(p, @, "Load", state[p])]
  /\ prepared' = [prepared EXCEPT ![p] = "stats"]
  /\ LoadStats(p)
  /\ UNCHANGED <<state, tasks, resets, consoleVars, sessionData>>

\* OnStatsLoad: the VM is replaced by one for preloading, and that by one for the game.
OnStatsLoad(p) ==
  /\ state[p] = "LoadModule" /\ prepared[p] = "no" /\ Free(p)
  /\ vm' = [vm EXCEPT ![p] = LoadExtensionState(p, LoadExtensionState(p, @, "Load", state[p]),
                                                "Game", state[p])]
  /\ prepared' = [prepared EXCEPT ![p] = "stats"]
  /\ LoadStats(p)
  /\ UNCHANGED <<state, tasks, resets, consoleVars, sessionData>>

OnSkillPrototypeManagerInit(p) ==
  /\ state[p] = "LoadModule" /\ prepared[p] = "stats" /\ Free(p)
  /\ vm' = [vm EXCEPT ![p] = Throw(LoadExtensionState(p, @, "Game", state[p]),
                                   <<"ModuleLoading">>)]
  /\ prepared' = [prepared EXCEPT ![p] = "skills"]
  /\ UNCHANGED <<state, tasks, resets, consoleVars, serverData>>

-----------------------------------------------------------------------------
(* What a savegame keeps. *)

\* A script of the mod fills its PersistentVars.
SetPersistentVars(v) ==
  /\ state["server"] = "Running" /\ Free("server") /\ installed /\ vm["server"].ctx = "Game"
  /\ vm' = [vm EXCEPT !["server"].vars = v]
  /\ UNCHANGED <<state, prepared, tasks, resets, consoleVars, serverData>>

\* Scripts of a side work with stats while the module loads and in a session.
MayScript(p) ==
  Free(p) /\ vm[p].ctx = "Game" /\ state[p] \in {"LoadModule", "Running"}

\* Ext.Stats.Create.  (An entry that there is already is an error.)
CreateStat(p, stat) ==
  /\ MayScript(p) /\ stat \notin entries
  /\ entries' = entries \cup {stat}
  /\ UNCHANGED <<state, prepared, vm, tasks, resets, consoleVars, sessionData>>

\* MarkPersistentStat and UnmarkPersistentStat.
Mark(stat, persist) ==
  /\ ext' = [ext EXCEPT !.kept = IF persist THEN @ \cup {stat} ELSE @ \ {stat}]
  /\ wanted' = CASE state["server"] # "Running" \/ wiped -> wanted [] persist -> wanted \cup {stat}
                 [] OTHER -> wanted \ {stat}

\* Ext.Stats.Sync marks the stat only if it is told to: not if the argument is left out.
Sync(stat, persist) ==
  /\ MayScript("server") /\ stat \in entries
  /\ IF persist = <<TRUE>> THEN Mark(stat, TRUE) ELSE UNCHANGED <<ext, wanted>>
  /\ UNCHANGED <<state, prepared, vm, installed, entries, source, saved, wiped, tasks, resets,
                 consoleVars>>

SetPersistence(stat, persist) ==
  /\ MayScript("server") /\ stat \in entries /\ Mark(stat, persist)
  /\ UNCHANGED <<state, prepared, vm, installed, entries, source, saved, wiped, tasks, resets,
                 consoleVars>>

\* Variant of the next: what the VM does not have is gone.
GetModPersistentVarsLive(readable) ==
  IF installed /\ readable THEN vm["server"].vars ELSE NoValue

\* GetModPersistentVars: those of the VM, or, if it has none or Lua cannot write them
\* out, those of the savegame.
GetModPersistentVars(readable) ==
  IF installed /\ readable /\ vm["server"].vars # NoValue THEN vm["server"].vars
                                                          ELSE ext.cached

\* A stat that the game does not have is not written.
SaveGame(readable) ==
  /\ state["server"] = "Save" /\ Free("server")
  /\ saved' = [vars |-> GetModPersistentVars(readable), stats |-> ext.kept \cap entries]
  /\ UNCHANGED <<state, prepared, vm, installed, ext, entries, source, wiped, wanted, tasks,
                 resets, consoleVars>>

Remembered == IF ext.cached = NoValue THEN saved.vars ELSE ext.cached

GivenBack(read) ==
  IF installed /\ read = "restored" /\ saved.vars # NoValue
    THEN [vm EXCEPT !["server"].vars = saved.vars] ELSE vm

\* How a stat of a savegame meets the game: "foreign" is one whose entry is of another type
\* in the game, or of a type that the game does not have; "garbled" one whose payload
\* cannot be parsed.
Blobs == {"fits", "foreign", "garbled"}

\* RestoreStatObject, for each stat: the entry is made first, and marked last.
RestoreStats(blobs) ==
  /\ ext' = [cached |-> Remembered,
             kept |-> ext.kept \cup {stat \in saved.stats : blobs[stat] = "fits"}]
  /\ entries' = entries \cup {stat \in saved.stats : blobs[stat] # "foreign"}

\* Variant of the next: only remembers the variables.
RestoreLater(read, blobs) == RestoreStats(blobs) /\ UNCHANGED vm

\* RestoreModPersistentVars, and the stats.
Restore(read, blobs) == RestoreStats(blobs) /\ vm' = GivenBack(read)

\* The savegame is visited: of one that is newer than the extender nothing is read, and
\* the session goes on, like one of a new game.
LoadGame(read, blobs) ==
  /\ state["server"] = "LoadSession" /\ Free("server") /\ source.read = "unread"
  /\ IF read = "newer" THEN source' = NewGame /\ UNCHANGED <<vm, ext, entries, wanted>>
     ELSE /\ Restore(read, blobs)
          /\ source' = [source EXCEPT !.read = read]
          /\ wanted' = {stat \in saved.stats : blobs[stat] = "fits"}
  /\ UNCHANGED <<state, prepared, installed, saved, wiped, tasks, resets, consoleVars>>

-----------------------------------------------------------------------------
(* Tasks of the game threads, and the console.                              *)

\* The sides whose VM a console command resets, in the order in which it does.  Commands
\* that run Lua code take the same way, with a task that changes nothing here.
Commands == {<<"server">>, <<"client">>, <<"server", "client">>}

\* Where the console thread is: at its prompt, before it looks at the game state,
\* before it locks the mutex of its task, before it waits, and waiting.
ConsoleAt(pc) == console.pc = pc

\* On with the next task of the command.
Continue == IF Len(console.todo) > 1 THEN [pc |-> "check", todo |-> Tail(console.todo)]
                                     ELSE [pc |-> "prompt", todo |-> <<>>]

\* The states in which the console submits tasks to a side.
Accepting(p) == IF p = "server" THEN {"Running"} ELSE {"Menu", "Running"}

\* On with the tasks of the command: DebugConsole::SubmitTaskAndWait looks at the game
\* state from the console's thread, and skips a task that the state does not allow.
Submit(todo) ==
  console' = IF state[Head(todo)] \in Accepting(Head(todo))
               THEN [pc |-> "accepted", todo |-> todo]
               ELSE [pc |-> IF Len(todo) > 1 THEN "check" ELSE "prompt", todo |-> Tail(todo)]

HandleCommand(cmd) ==
  /\ ConsoleAt("prompt") /\ resets < MaxTasks
  /\ Submit(cmd)
  /\ UNCHANGED <<state, prepared, vm, tasks, notifying, completed, resets, serverData>>

\* The second task of a command.
SubmitNext ==
  /\ ConsoleAt("check")
  /\ Submit(console.todo)
  /\ UNCHANGED <<state, prepared, vm, tasks, notifying, completed, resets, serverData>>

\* Variant of the next: does not lock the mutex before.
EnqueueUnlocked ==
  /\ ConsoleAt("accepted")
  /\ tasks' = [tasks EXCEPT ![Head(console.todo)] = Append(@, "console")]
  /\ console' = [console EXCEPT !.pc = "enqueued"]
  /\ UNCHANGED <<state, prepared, vm, notifying, completed, resets, serverData>>

\* SubmitTaskAndWait locks the mutex of the task, which is local, and queues it.
EnqueueTask ==
  /\ ConsoleAt("accepted")
  /\ tasks' = [tasks EXCEPT ![Head(console.todo)] = Append(@, "console")]
  /\ console' = [console EXCEPT !.pc = "locked"]
  /\ UNCHANGED <<state, prepared, vm, notifying, completed, resets, serverData>>

\* The end of SubmitTaskAndWait: its mutex, condition variable and flag are gone.
Submitted == console' = Continue /\ completed' = FALSE

\* Wait releases the mutex, unless the task is done already.  (A spurious wakeup is not
\* modelled: one after the task's unlock would let the console return before Notify.)
Wait ==
  /\ console.pc \in {"enqueued", "locked"}
  /\ IF completed THEN Submitted
                  ELSE console' = [console EXCEPT !.pc = "waiting"] /\ UNCHANGED completed
  /\ UNCHANGED <<state, prepared, vm, tasks, notifying, resets, serverData>>

\* The client's task of a reset: a message to all clients if there is a server.
RequestReset ==
  IF state["server"] # "none"
    THEN /\ resets' = resets + (IF state["client"] \in Connected THEN 1 ELSE 0)
         /\ UNCHANGED <<vm, ext, wiped, source, wanted>>
    ELSE ResetLuaState("client") /\ UNCHANGED resets

\* One task of RunPendingTasks: of NRD_LuaReset ("local"), or of the console, whose
\* mutex it locks while it runs.
RunTask(p) ==
  /\ Free(p) /\ state[p] # "none" /\ tasks[p] # <<>>
  /\ Head(tasks[p]) = "console" => ~ConsoleAt("locked")
  /\ tasks' = [tasks EXCEPT ![p] = Tail(@)]
  /\ IF p = "client" /\ Head(tasks[p]) = "console" THEN RequestReset
                                                 ELSE ResetLuaState(p) /\ UNCHANGED resets
  /\ IF Head(tasks[p]) = "console"
       THEN completed' = TRUE /\ notifying' = [notifying EXCEPT ![p] = TRUE]
       ELSE UNCHANGED <<completed, notifying>>
  /\ UNCHANGED <<state, prepared, installed, entries, saved, console>>

\* Variant of the next: the notification comes to nothing.
NotifyNobody(p) ==
  /\ notifying[p]
  /\ notifying' = [notifying EXCEPT ![p] = FALSE]
  /\ UNCHANGED <<state, prepared, vm, tasks, console, completed, resets, serverData>>

\* notify_one, after the unlock; the console, which waits, returns.
Notify(p) ==
  /\ notifying[p]
  /\ notifying' = [notifying EXCEPT ![p] = FALSE]
  /\ IF ConsoleAt("waiting") THEN Submitted ELSE UNCHANGED <<console, completed>>
  /\ UNCHANGED <<state, prepared, vm, tasks, resets, serverData>>

\* NRD_LuaReset, called by the story.
OsiLuaReset(resetServer, resetClient) ==
  /\ state["server"] = "Running" /\ Free("server") /\ Len(tasks["client"]) < MaxTasks
  /\ tasks' = IF resetClient THEN [tasks EXCEPT !["client"] = Append(@, "local")] ELSE tasks
  /\ IF resetServer THEN ResetLuaState("server") ELSE UNCHANGED <<vm, ext, wiped, source, wanted>>
  /\ UNCHANGED <<state, prepared, installed, entries, saved, resets, consoleVars>>

\* S2CResetLua: the client tells its new VM of the session in whatever state it is.
OnResetMessage ==
  /\ resets > 0 /\ Free("client")
  /\ vm' = [vm EXCEPT !["client"] = Reset("client", SessionEvents)]
  /\ resets' = resets - 1
  /\ UNCHANGED <<state, prepared, tasks, consoleVars, serverData>>

-----------------------------------------------------------------------------
Init ==
  /\ state = [server |-> "none", client |-> "LoadMenu"]
  /\ prepared = [p \in Sides |-> "no"]
  /\ vm = [p \in Sides |-> NoVM]
  /\ installed = FALSE /\ ext = EmptyExt /\ entries = {}
  /\ source = NewGame /\ saved = EmptySave
  /\ tasks = [p \in Sides |-> <<>>]
  /\ notifying = [p \in Sides |-> FALSE]
  /\ console = [pc |-> "prompt", todo |-> <<>>] /\ completed = FALSE
  /\ resets = 0 /\ wiped = FALSE /\ wanted = {}

Games ==
  \/ \E to \in DOMAIN ServerMoves : ServerStateChanged(to)
  \/ \E to \in DOMAIN ClientMoves : ClientStateChanged(to)
  \/ \E p \in Sides : OnStatsLoad(p) \/ OnSkillPrototypeManagerInit(p)
  \/ \E readable \in BOOLEAN : SaveGame(readable)
  \/ \E read \in {"restored", "refused", "newer"}, blobs \in [Stats -> Blobs] :
       LoadGame(read, blobs)

Scripts ==
  \/ \E v \in Values : SetPersistentVars(v)
  \/ \E stat \in Stats : \E persist \in {<<>>, <<TRUE>>, <<FALSE>>} : Sync(stat, persist)
  \/ \E stat \in Stats, persist \in BOOLEAN : SetPersistence(stat, persist)
  \/ \E p \in Sides, stat \in Stats : CreateStat(p, stat)
  \/ \E s, c \in BOOLEAN : OsiLuaReset(s, c)

Console == SubmitNext \/ EnqueueTask \/ Wait

Next ==
  \/ Games \/ Scripts \/ Console
  \/ \E cmd \in Commands : HandleCommand(cmd)
  \/ \E p \in Sides : RunTask(p) \/ Notify(p)
  \/ OnResetMessage

\* The console thread runs, and a game thread that comes round again and again runs
\* its tasks.
Fairness ==
  /\ WF_vars(Console)
  /\ \A p \in Sides : SF_vars(RunTask(p)) /\ WF_vars(Notify(p))

Spec == Init /\ [][Next]_vars /\ Fairness

-----------------------------------------------------------------------------
(* Properties. *)

VMs == [ctx : {"none", "Uninitialized", "Game"},
        told : UNION {[1..n -> {"ModuleLoading", "ModuleResume", "SessionLoading",
                                "SessionLoaded"}] : n \in 0..6},
        vars : Values \cup {NoValue}, odd : BOOLEAN]

TypeOK ==
  /\ state["server"] \in DOMAIN ServerMoves /\ state["client"] \in DOMAIN ClientMoves
  /\ vm \in [Sides -> VMs]
  /\ ext.kept \subseteq Stats /\ ext.cached \in Values \cup {NoValue}
  /\ entries \subseteq Stats /\ source.read \in Reads

\* The scripts were told of the event then, and at no other time.
Once(told, i, event) == \A j \in DOMAIN told : told[j] = event <=> j = i

\* Scripts of a VM that works for a session have been told of it exactly once, first
\* SessionLoading and then SessionLoaded, and of the module before: after any history of
\* sessions, menus, level changes and resets, of both sides.  Except when a reset came
\* while the game was between states (a task that was queued before, a message to a
\* client that is still joining).
ToldOnce ==
  \A p \in Sides :
    state[p] \in InSession /\ vm[p].ctx # "none" /\ ~vm[p].odd =>
      LET told == vm[p].told IN
        /\ \E i, j \in DOMAIN told :
             i < j /\ Once(told, i, "SessionLoading") /\ Once(told, j, "SessionLoaded")
        /\ told[1] \in {"ModuleLoading", "ModuleResume"}

\* What Lua has of the savegame that the session came from.
Returned == IF source.read = "restored" THEN source.vars ELSE NoValue

\* PersistentVars of the savegame are back when scripts are told SessionLoaded, or none
\* are: none if the savegame was newer than the extender (SavegameSerializer.inl:11), or
\* if Lua failed to take them.
RestoredFirst ==
  [][state["server"] = "LoadSession" /\ state'["server"] # "LoadSession"
       /\ installed /\ ~vm["server"].odd => vm["server"].vars = Returned]_vars

\* A savegame has no less than the session brought from the last one: the variables of a
\* mod that is not installed are in it as they were, those of one that is are never lost,
\* even if Lua could not take them or cannot write them out; and it has just the stats
\* that the last savegame brought or the scripts of this session wanted to keep, none of
\* which is gone from the game.  Except when a reset threw SessionLoading once more.  (A
\* session brings nothing from a savegame that is newer than the extender, and no stat
\* that does not fit the game: what it saves is without them.)
SavesKeep ==
  [][saved' # saved /\ ~wiped =>
       /\ ~installed => saved'.vars = source.vars
       /\ source.vars # NoValue => saved'.vars # NoValue
       /\ saved'.stats = wanted]_vars

\* The condition variable and the mutex are locals of SubmitTaskAndWait: the game thread
\* must not come to notify them when it has returned.  (It is the lock taken before the
\* task is queued that keeps them, as long as the wait has no spurious wakeup.)
NotifiesLive == \A p \in Sides : notifying[p] => ConsoleAt("waiting")

\* The console gets its prompt back, if the server does not stay away for good.
PromptReturns == []<>(state["server"] # "none") => []<>ConsoleAt("prompt")

=============================================================================
