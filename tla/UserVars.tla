------------------------------- MODULE UserVars -------------------------------
(***************************************************************************)
(* User and mod variables (Extender/Shared/UserVariables.h/.inl): values   *)
(* that mods attach to game objects and modules, cached by the Lua state,  *)
(* kept in a store per peer, synchronised between the server and its       *)
(* clients by messages, and persisted in the server's savegame.            *)
(*                                                                         *)
(* UserVariableManager and ModVariableManager (and their two caches) are   *)
(* the same algorithm over different owners; a key of ModKeys belongs to a *)
(* module, which always has a network id, any other key to one game object *)
(* that each peer may or may not know at the moment.                       *)
(***************************************************************************)
EXTENDS Naturals, Sequences, FiniteSets

CONSTANTS
  Server,      \* the host
  Clients,     \* the connected peers, the host's own client included
  Keys,        \* variable names
  ModKeys,     \* those of Keys that are mod variables
  Protos,      \* the flag sets variables may be registered with
  Values,      \* what a script can store
  Absent,      \* "no map entry"
  MaxOps,      \* bound on script writes and DirtyVariables calls
  MaxLoads     \* bound on level swaps and new sessions after the first

Peers == Clients \cup {Server}

Flags == {"IsOnServer", "IsOnClient", "SyncServerToClient", "SyncClientToServer",
          "SyncOnWrite", "DontCache", "WriteableOnServer", "WriteableOnClient",
          "SyncOnTick", "Persistent"}

\* The combinations ParseUserVariableFlags can produce.
LegalFlags ==
  {F \in SUBSET Flags :
     /\ F \cap {"WriteableOnServer", "Persistent"} # {} => "IsOnServer" \in F
     /\ "WriteableOnClient" \in F => "IsOnClient" \in F
     /\ F \cap {"SyncServerToClient", "SyncClientToServer"} # {}
          => {"IsOnServer", "IsOnClient"} \subseteq F}

ASSUME UserVarsAssumption ==
  /\ Server \notin Clients
  /\ ModKeys \subseteq Keys
  /\ Protos \subseteq LegalFlags
  /\ Absent \notin Values
  /\ MaxOps \in Nat
  /\ MaxLoads \in Nat

VARIABLES
  proto,       \* [Keys -> flags]: the flags scripts pass when they register a key
  registered,  \* prototypes_: the keys each peer's bootstrap has registered
  phase,       \* the game state of each peer, as far as the handlers look at it
  known,       \* peers whose world currently has the game object
  store,       \* vars_ of the managers
  cache,       \* vars_ of the Lua state's cached managers
  flushQ,      \* flushQueue_ of the cached managers
  deferred,    \* deferredSyncs_ of the writer
  nextTick,    \* nextTickSyncs_ of the writer
  support,     \* clients whose extenderSupport_ is set
  hello,       \* extenderPeerVersions_ on the server
  down,        \* messages on their way from the server to each client
  up,          \* messages on their way from each client to the server
  saved,       \* what the last savegame holds
  ops,         \* script operations so far
  loads,       \* level swaps and new sessions so far
  stale        \* history: <<c, k>> whose last update for client c was discarded

local == <<store, cache, flushQ, deferred, nextTick>>
net   == <<support, hello, down, up>>
vars  == <<proto, registered, phase, known, local, net, saved, ops, loads, stale>>

-----------------------------------------------------------------------------
(* Prototypes. *)

Has(k, f) == f \in proto[k]

NeedsSyncFor(k, p) ==
  Has(k, IF p = Server THEN "SyncServerToClient" ELSE "SyncClientToServer")

IsAvailableFor(k, p) == Has(k, IF p = Server THEN "IsOnServer" ELSE "IsOnClient")

IsWriteableFor(k, p) ==
  Has(k, IF p = Server THEN "WriteableOnServer" ELSE "WriteableOnClient")

\* Variant: counts a host and two clients before it rebroadcasts.
NeedsRebroadcastOffByOne(k, p) ==
  /\ p = Server /\ Has(k, "IsOnClient") /\ Has(k, "SyncServerToClient")
  /\ Cardinality(Clients) > 2

NeedsRebroadcast(k, p) ==
  /\ p = Server
  /\ Has(k, "IsOnClient")
  /\ Has(k, "SyncServerToClient")
  /\ Cardinality(Clients) > 1

\* GuidToNetId / NetIdToGameObject succeed: the key's owner can be named.
Resolvable(p, k) == k \in ModKeys \/ p \in known

-----------------------------------------------------------------------------
(* The sync writer. *)

Entry    == [val : Values \cup {Absent}, dirty : BOOLEAN]
NoEntry  == [val |-> Absent, dirty |-> FALSE]
NoVars   == [k \in Keys |-> NoEntry]

HelloMsg   == [kind |-> "hello"]
VarsMsg(f) == [kind |-> "vars", vars |-> f]
VarsIn(m)  == IF m.kind = "vars" THEN DOMAIN m.vars ELSE {}

\* GetFreeMessage: a client without extender support on the host gets none.
MakeSyncMessage(p) == p = Server \/ p \in support

\* Flush returns early in the loading states.
MaySync(p) == phase[p] = "Running"

\* Where Sync puts a dirty variable: sent at once, or queued.
SyncsNow(p, k)      == NeedsSyncFor(k, p) /\ Has(k, "SyncOnWrite")
SyncsNextTick(p, k) == NeedsSyncFor(k, p) /\ ~Has(k, "SyncOnWrite") /\ Has(k, "SyncOnTick")
SyncsDeferred(p, k) == NeedsSyncFor(k, p) /\ ~Has(k, "SyncOnWrite") /\ ~Has(k, "SyncOnTick")

\* Variant of the next: the last branch of Sync is forgotten.
RequeueNextTickOnly(p, K) ==
  /\ nextTick' = [nextTick EXCEPT ![p] = @ \cup {k \in K : SyncsNextTick(p, k)}]
  /\ UNCHANGED deferred

Requeue(p, K) ==
  /\ deferred' = [deferred EXCEPT ![p] = @ \cup {k \in K : SyncsDeferred(p, k)}]
  /\ nextTick' = [nextTick EXCEPT ![p] = @ \cup {k \in K : SyncsNextTick(p, k)}]

\* The clients a message of the server goes to; BroadcastToConnectedPeers skips
\* the peers that never said hello.
Deliverable(p, K) == {k \in K : Resolvable(p, k)}

\* Variant: SendSyncs does not look at vars_size.
BroadcastUnchecked(f) ==
  down' = [c \in Clients |-> IF c \in hello THEN Append(down[c], VarsMsg(f)) ELSE down[c]]

Broadcast(f) ==
  down' = IF DOMAIN f = {} THEN down
          ELSE [c \in Clients |-> IF c \in hello THEN Append(down[c], VarsMsg(f)) ELSE down[c]]

\* AppendToSyncMessage of every key of K (vals has their values), then SendSyncs.
\* Keys whose owner has no network id are left out.
SendFromServer(K, vals) ==
  LET sent == Deliverable(Server, K) IN
  /\ Broadcast([k \in sent |-> vals[k]])
  /\ stale' = (stale \ (hello \X sent))
                \cup (Clients \X (K \ sent)) \cup ((Clients \ hello) \X K)

SendFromClient(c, K, vals) ==
  LET sent == IF MakeSyncMessage(c) THEN Deliverable(c, K) ELSE {} IN
  /\ up' = IF sent = {} THEN up
           ELSE [up EXCEPT ![c] = Append(@, VarsMsg([k \in sent |-> vals[k]]))]
  /\ stale' = stale \cup ({c} \X (K \ sent))

Send(p, K, vals) ==
  IF p = Server THEN SendFromServer(K, vals) /\ UNCHANGED up
                ELSE SendFromClient(p, K, vals) /\ UNCHANGED down

\* Manager::Set of the pairs in `vals`, all of them dirty: sync, then store.
SetDirty(p, K, vals) ==
  /\ store' = [store EXCEPT ![p] =
       [k \in Keys |-> IF k \in K THEN [val |-> vals[k], dirty |-> TRUE] ELSE @[k]]]
  /\ Requeue(p, K)
  /\ Send(p, {k \in K : SyncsNow(p, k)}, vals)

-----------------------------------------------------------------------------
(* Script operations. *)

\* Vars.RegisterUserVariable / RegisterModVariable.
RegisterPrototype(p, k) ==
  /\ k \notin registered[p]
  /\ registered' = [registered EXCEPT ![p] = @ \cup {k}]
  /\ UNCHANGED <<proto, phase, known, local, net, saved, ops, loads, stale>>

\* Variant of the next: does not look in the cache first.
PushOverCached(p, k) ==
  /\ k \in registered[p] /\ IsAvailableFor(k, p) /\ Resolvable(p, k)
  /\ ~Has(k, "DontCache") /\ store[p][k].val # Absent
  /\ cache' = [cache EXCEPT ![p][k] = [val |-> store[p][k].val, dirty |-> FALSE]]
  /\ UNCHANGED <<proto, registered, phase, known, store, flushQ, deferred, nextTick,
                 net, saved, ops, loads, stale>>

\* Reading through the proxy: a miss is filled from the store, clean.
Push(p, k) ==
  /\ k \in registered[p] /\ IsAvailableFor(k, p) /\ Resolvable(p, k)
  /\ ~Has(k, "DontCache")
  /\ cache[p][k].val = Absent
  /\ store[p][k].val # Absent
  /\ cache' = [cache EXCEPT ![p][k] = [val |-> store[p][k].val, dirty |-> FALSE]]
  /\ UNCHANGED <<proto, registered, phase, known, store, flushQ, deferred, nextTick,
                 net, saved, ops, loads, stale>>

\* Writing through the proxy of a DontCache variable.
SetUncached(p, k, v) ==
  /\ Has(k, "DontCache")
  /\ SetDirty(p, {k}, [x \in {k} |-> v])
  /\ UNCHANGED <<cache, flushQ>>

\* Writing through the proxy of a cached variable. LikelyChanged compares scalars
\* and says "changed" of every table, so equal values may go either way.
SetCached(p, k, v) ==
  /\ ~Has(k, "DontCache")
  /\ \E changed \in {TRUE, cache[p][k].val # v} :
       LET was   == cache[p][k].dirty
           dirty == was \/ changed
           now   == dirty /\ SyncsNow(p, k)
       IN /\ cache' = [cache EXCEPT ![p][k] = [val |-> v, dirty |-> dirty /\ ~now]]
          /\ flushQ' = [flushQ EXCEPT ![p] = IF dirty /\ ~was THEN @ \cup {k} ELSE @]
          /\ IF now THEN SetDirty(p, {k}, [x \in {k} |-> v])
                    ELSE UNCHANGED <<store, deferred, nextTick, down, up, stale>>

Set(p, k, v) ==
  /\ ops < MaxOps
  /\ k \in registered[p] /\ IsWriteableFor(k, p) /\ Resolvable(p, k)
  /\ SetUncached(p, k, v) \/ SetCached(p, k, v)
  /\ ops' = ops + 1
  /\ UNCHANGED <<proto, registered, phase, known, support, hello, saved, loads>>

\* Vars.DirtyUserVariables / DirtyModVariables.
MarkDirty(p, k) ==
  /\ ops < MaxOps
  /\ k \in registered[p] /\ store[p][k].val # Absent
  /\ SetDirty(p, {k}, [x \in {k} |-> store[p][k].val])
  /\ ops' = ops + 1
  /\ UNCHANGED <<proto, registered, phase, known, cache, flushQ, support, hello, saved, loads>>

-----------------------------------------------------------------------------
(* The tick and explicit flushes. *)

\* What Flush(force) sends of a manager's two queues, and what stays in a queue once
\* FlushSyncQueue has seen the keys K.
\* Variants: Flush without force; a queue cleared before the early return.
DrainedUnforced(slow, quick) == slow
RemainingAlwaysCleared(open, Q, K) == Q \ K

Drained(slow, quick) == slow \cup quick

Remaining(open, Q, K) == IF open THEN Q \ K ELSE Q

\* The cached writes F reach the store, then the writer sends what is queued for the
\* keys K of its manager and dirty. In a loading state, or without a message, the
\* queues are kept.
FlushSync(p, F, K) ==
  LET merged  == [k \in Keys |-> IF k \in F THEN [val |-> cache[p][k].val, dirty |-> TRUE]
                                            ELSE store[p][k]]
      vals    == [k \in Keys |-> merged[k].val]
      open    == MaySync(p) /\ MakeSyncMessage(p)
      slow    == deferred[p] \cup {k \in F : SyncsDeferred(p, k)}
      quick   == nextTick[p] \cup {k \in F : SyncsNextTick(p, k)}
      queued  == K \cap Drained(slow, quick)
      flushed == IF open THEN {k \in queued : merged[k].dirty} ELSE {}
  IN /\ store' = [store EXCEPT ![p] =
          [k \in Keys |-> [val |-> merged[k].val, dirty |-> merged[k].dirty /\ k \notin flushed]]]
     /\ deferred' = [deferred EXCEPT ![p] = Remaining(open, slow, K)]
     /\ nextTick' = [nextTick EXCEPT ![p] = Remaining(open, quick, K)]
     /\ Send(p, flushed \cup {k \in F : SyncsNow(p, k)}, vals)

\* Variant: flushes only what has to be synced.
CachedSyncedWrites(p) == {k \in flushQ[p] : cache[p][k].dirty /\ NeedsSyncFor(k, p)}

CachedWrites(p) == {k \in flushQ[p] : cache[p][k].dirty}

\* CachedUserVariableManager::Flush empties the queue and cleans the entries.
FlushCache(p) ==
  /\ cache' = [cache EXCEPT ![p] =
       [k \in Keys |-> IF k \in CachedWrites(p) THEN [@[k] EXCEPT !.dirty = FALSE] ELSE @[k]]]
  /\ flushQ' = [flushQ EXCEPT ![p] = {}]

\* ExtensionStateBase::OnUpdate: the Lua state flushes its caches, then both writers.
OnUpdate(p) ==
  /\ FlushCache(p)
  /\ FlushSync(p, CachedWrites(p), Keys)
  /\ UNCHANGED <<proto, registered, phase, known, support, hello, saved, ops, loads>>

\* Vars.SyncUserVariables / SyncModVariables: one writer, and not the cache.
SyncVariables(p, K) ==
  /\ FlushSync(p, {}, K)
  /\ UNCHANGED <<proto, registered, phase, known, cache, flushQ, support, hello,
                 saved, ops, loads>>

-----------------------------------------------------------------------------
(* The network. *)

\* OnAcceptMessage: the client learns that the host has the extender and says hello.
OnAcceptMessage(c) ==
  /\ c \notin support
  /\ support' = support \cup {c}
  /\ up' = [up EXCEPT ![c] = Append(@, HelloMsg)]
  /\ UNCHANGED <<proto, registered, phase, known, local, hello, down, saved, ops, loads, stale>>

\* The variables of a message NetworkSync accepts at p: object known, prototype
\* registered, and the other side allowed to send it.
Accepted(p, f) ==
  {k \in DOMAIN f : /\ Resolvable(p, k)
                    /\ k \in registered[p]
                    /\ Has(k, IF p = Server THEN "SyncClientToServer" ELSE "SyncServerToClient")}

\* Variant of the next: only a dirty copy is dropped.
InvalidateDirty(p, K) ==
  cache' = [cache EXCEPT ![p] =
    [k \in Keys |-> IF k \in K /\ @[k].dirty THEN NoEntry ELSE @[k]]]

\* Invalidate(component, key) of the caches; the flush queue keeps the key.
Invalidate(p, K) ==
  cache' = [cache EXCEPT ![p] = [k \in Keys |-> IF k \in K THEN NoEntry ELSE @[k]]]

\* NetworkSync of a whole message: each accepted variable overwrites the store (dirty
\* when it has to be rebroadcast) and drops the cached copy.
NetworkSync(p, f) ==
  LET A == Accepted(p, f) IN
  /\ store' = [store EXCEPT ![p] =
       [k \in Keys |-> IF k \in A THEN [val |-> f[k], dirty |-> NeedsRebroadcast(k, p)] ELSE @[k]]]
  /\ Invalidate(p, {k \in A : ~Has(k, "DontCache")})
  /\ Requeue(p, {k \in A : NeedsRebroadcast(k, p)})

ReceiveFromServer(c) ==
  /\ down[c] # <<>>
  /\ LET f == Head(down[c]).vars IN
       /\ NetworkSync(c, f)
       /\ stale' = stale \cup ({c} \X (DOMAIN f \ Accepted(c, f)))
  /\ down' = [down EXCEPT ![c] = Tail(@)]
  /\ UNCHANGED <<proto, registered, phase, known, flushQ, support, hello, up, saved, ops, loads>>

ReceiveHello(c) ==
  /\ up[c] # <<>> /\ Head(up[c]).kind = "hello"
  /\ hello' = hello \cup {c}
  /\ up' = [up EXCEPT ![c] = Tail(@)]
  /\ UNCHANGED <<proto, registered, phase, known, local, support, down, saved, ops, loads, stale>>

\* An update of a client; with SyncOnWrite the rebroadcast leaves at once.
ReceiveFromClient(c) ==
  /\ up[c] # <<>> /\ Head(up[c]).kind = "vars"
  /\ LET f    == Head(up[c]).vars
         A    == Accepted(Server, f)
         echo == {k \in A : NeedsRebroadcast(k, Server) /\ SyncsNow(Server, k)}
         out  == Deliverable(Server, echo)
     IN /\ NetworkSync(Server, f)
        /\ Broadcast([k \in out |-> f[k]])
        /\ stale' = (stale \ (hello \X out)) \cup ((Clients \ hello) \X echo)
                      \cup (Clients \X (echo \ out)) \cup ({c} \X (DOMAIN f \ A))
  /\ up' = [up EXCEPT ![c] = Tail(@)]
  /\ UNCHANGED <<proto, registered, phase, known, flushQ, support, hello, saved, ops, loads>>

-----------------------------------------------------------------------------
(* Game states, Lua resets and savegames. *)

DropCache(p) ==
  /\ cache'  = [cache EXCEPT ![p] = NoVars]
  /\ flushQ' = [flushQ EXCEPT ![p] = {}]

\* Entering LoadLevel, from LoadSession or by a level swap: the caches are dropped
\* and the objects of the old level are gone.
EnterLoadLevel(p) ==
  /\ phase[p] = "LoadSession" \/ (phase[p] = "Running" /\ loads < MaxLoads)
  /\ loads' = IF phase[p] = "Running" THEN loads + 1 ELSE loads
  /\ phase' = [phase EXCEPT ![p] = "LoadLevel"]
  /\ known' = known \ {p}
  /\ DropCache(p)
  /\ UNCHANGED <<proto, registered, store, deferred, nextTick, net, saved, ops, stale>>

\* The level is there; "LoadLevel" also stands for Sync and PrepareRunning, in which
\* the writers stay closed.
EnterRunning(p) ==
  /\ phase[p] = "LoadLevel"
  /\ phase' = [phase EXCEPT ![p] = "Running"]
  /\ UNCHANGED <<proto, registered, known, local, net, saved, ops, loads, stale>>

\* The engine creates (or replicates) the game object on this peer.
ObjectAppears(p) ==
  /\ phase[p] # "LoadSession" /\ p \notin known
  /\ known' = known \cup {p}
  /\ UNCHANGED <<proto, registered, phase, local, net, saved, ops, loads, stale>>

\* UnloadSession makes a fresh ExtensionState, LoadSession starts it.
NewSession(p) ==
  /\ phase[p] = "Running" /\ loads < MaxLoads
  /\ loads' = loads + 1
  /\ phase' = [phase EXCEPT ![p] = "LoadSession"]
  /\ known' = known \ {p}
  /\ registered' = [registered EXCEPT ![p] = {}]
  /\ store'    = [store EXCEPT ![p] = NoVars]
  /\ deferred' = [deferred EXCEPT ![p] = {}]
  /\ nextTick' = [nextTick EXCEPT ![p] = {}]
  /\ DropCache(p)
  /\ stale' = stale \cup ((IF p = Server THEN Clients ELSE {p}) \X Keys)
  /\ UNCHANGED <<proto, net, saved, ops>>

\* A Lua reset: Shutdown, and the new state's cache replaces the old one's.
LuaReset(p) ==
  /\ DropCache(p)
  /\ UNCHANGED <<proto, registered, phase, known, store, deferred, nextTick, net,
                 saved, ops, loads, stale>>

\* SavegameVisit, writing: the caches are flushed first, persistent variables written.
SaveGame ==
  /\ phase[Server] = "Running"
  /\ LET F    == CachedWrites(Server)
         vals == [k \in Keys |-> cache[Server][k].val]
     IN /\ FlushCache(Server)
        /\ SetDirty(Server, F, vals)
        /\ saved' = [k \in Keys |-> IF k \in registered[Server] /\ Has(k, "Persistent")
                                    THEN store'[Server][k].val ELSE Absent]
  /\ UNCHANGED <<proto, registered, phase, known, support, hello, ops, loads>>

\* SavegameVisit, reading: the store is replaced; registered variables that sync are
\* queued as dirty. The caches are not touched.
LoadGame ==
  /\ phase[Server] = "LoadSession"
  /\ LET requeued == {k \in registered[Server] :
                        saved[k] # Absent /\ NeedsSyncFor(k, Server)}
         silent   == {k \in Keys \ requeued : store[Server][k].val # saved[k]}
     IN /\ store' = [store EXCEPT ![Server] =
             [k \in Keys |-> [val |-> saved[k], dirty |-> k \in requeued]]]
        /\ deferred' = [deferred EXCEPT ![Server] = @ \cup requeued]
        /\ stale' = stale \cup (Clients \X silent)
  /\ UNCHANGED <<proto, registered, phase, known, cache, flushQ, nextTick, net, saved, ops, loads>>

-----------------------------------------------------------------------------
Init ==
  /\ proto \in [Keys -> Protos]
  /\ registered = [p \in Peers |-> {}]
  /\ phase = [p \in Peers |-> "LoadSession"]
  /\ known = {}
  /\ store = [p \in Peers |-> NoVars]
  /\ cache = [p \in Peers |-> NoVars]
  /\ flushQ = [p \in Peers |-> {}]
  /\ deferred = [p \in Peers |-> {}]
  /\ nextTick = [p \in Peers |-> {}]
  /\ support = {} /\ hello = {}
  /\ down = [c \in Clients |-> <<>>]
  /\ up = [c \in Clients |-> <<>>]
  /\ saved \in [Keys -> Values \cup {Absent}]
  /\ ops = 0 /\ loads = 0
  /\ stale = {}

ScriptStep(p) ==
  \E k \in Keys : \/ RegisterPrototype(p, k)
                  \/ Push(p, k)
                  \/ MarkDirty(p, k)
                  \/ \E v \in Values : Set(p, k, v)

\* The keys of the two managers.
Managers == {ModKeys, Keys \ ModKeys}

GameStep(p) ==
  \/ EnterLoadLevel(p)
  \/ EnterRunning(p)
  \/ ObjectAppears(p)
  \/ NewSession(p)
  \/ LuaReset(p)

NetStep(c) ==
  \/ OnAcceptMessage(c)
  \/ ReceiveFromServer(c)
  \/ ReceiveHello(c)
  \/ ReceiveFromClient(c)

Next ==
  \/ \E p \in Peers : ScriptStep(p) \/ OnUpdate(p) \/ GameStep(p)
  \/ \E p \in Peers : \E K \in Managers : SyncVariables(p, K)
  \/ \E c \in Clients : NetStep(c)
  \/ SaveGame
  \/ LoadGame

Spec == Init /\ [][Next]_vars

\* The main loops keep ticking, loading ends, and the transport delivers.
Fairness ==
  /\ \A p \in Peers : WF_vars(OnUpdate(p)) /\ WF_vars(EnterRunning(p))
                        /\ WF_vars(phase[p] = "LoadSession" /\ EnterLoadLevel(p))
  /\ \A c \in Clients : WF_vars(NetStep(c))

FairSpec == Spec /\ Fairness
-----------------------------------------------------------------------------
(* Properties. *)

\* What a message of variables carries: at least one (SendSyncs).
Bundle == UNION {[K -> Values] : K \in (SUBSET Keys) \ {{}}}

SyncMsg == [kind : {"vars"}, vars : Bundle]
Msg == SyncMsg \cup [kind : {"hello"}]

\* The shape of the state; no message is empty or carries an absent value (SendSyncs).
TypeOK ==
  /\ proto \in [Keys -> Protos]
  /\ registered \in [Peers -> SUBSET Keys]
  /\ phase \in [Peers -> {"LoadSession", "LoadLevel", "Running"}]
  /\ known \subseteq Peers
  /\ store \in [Peers -> [Keys -> Entry]]
  /\ cache \in [Peers -> [Keys -> Entry]]
  /\ flushQ \in [Peers -> SUBSET Keys]
  /\ deferred \in [Peers -> SUBSET Keys]
  /\ nextTick \in [Peers -> SUBSET Keys]
  /\ support \subseteq Clients /\ hello \subseteq Clients
  /\ down \in [Clients -> Seq(SyncMsg)]
  /\ up \in [Clients -> Seq(Msg)]
  /\ saved \in [Keys -> Values \cup {Absent}]
  /\ ops \in 0..MaxOps /\ loads \in 0..MaxLoads
  /\ stale \subseteq Clients \X Keys

\* Only values are dirty.
DirtyHasValue ==
  \A p \in Peers : \A k \in Keys :
    /\ store[p][k].dirty => store[p][k].val # Absent
    /\ cache[p][k].dirty => cache[p][k].val # Absent

Queued(p) == deferred[p] \cup nextTick[p]

\* Nothing is forgotten on a peer: a cached write that the store does not have yet is
\* in the flush queue, and a dirty variable that this peer has to sync, and that is not
\* synced at the write itself, is in one of the writer's queues - also after flushes
\* that a loading state or a missing message turned away (FlushSyncQueue).
NothingForgotten ==
  \A p \in Peers : \A k \in Keys :
    /\ cache[p][k].dirty => k \in flushQ[p]
    /\ store[p][k].dirty /\ NeedsSyncFor(k, p) /\ ~Has(k, "SyncOnWrite")
         => k \in Queued(p)

\* Once a level has been entered, what Lua reads from a clean cache entry is what the
\* store holds, whatever the network, savegames, resets and flushes did in between.
CacheCoherent ==
  \A p \in Peers : \A k \in Keys :
    /\ phase[p] # "LoadSession"
    /\ cache[p][k].val # Absent
    /\ ~cache[p][k].dirty
    => cache[p][k].val = store[p][k].val

\* What client c ends up with for k once it has handled everything on its way to it.
LastFor(c, k) ==
  LET I == {i \in 1..Len(down[c]) : k \in VarsIn(down[c][i])} IN
  IF I = {} THEN store[c][k].val
            ELSE down[c][CHOOSE i \in I : \A j \in I : j <= i].vars[k]

\* Only the server writes this variable.
ServerOwned(k) ==
  /\ Has(k, "SyncServerToClient")
  /\ ~Has(k, "SyncClientToServer") /\ ~Has(k, "WriteableOnClient")

\* A server-owned variable that is not waiting in the writer's queues has reached every
\* client, or is on its way there - unless the last update met one of the early returns
\* that discard it for good (no network id, no hello yet, unknown on the client, not
\* registered there), or one side has started a new session.
Delivered ==
  \A c \in Clients : \A k \in Keys :
    ServerOwned(k) /\ <<c, k>> \notin stale /\ ~(store[Server][k].dirty /\ k \in Queued(Server))
      => LastFor(c, k) = store[Server][k].val

\* Something about k has still to be flushed, sent or handled.
Unsettled(k) ==
  \/ \E p \in Peers : cache[p][k].dirty \/ (store[p][k].dirty /\ k \in Queued(p))
  \/ \E c \in Clients : \E i \in DOMAIN down[c] : k \in VarsIn(down[c][i])
  \/ \E c \in Clients : \E i \in DOMAIN up[c] : k \in VarsIn(up[c][i])

\* Written on both sides, synced both ways.
Shared(k) == {"SyncServerToClient", "SyncClientToServer"} \subseteq proto[k]

Agrees(c, k) == store[c][k].val = store[Server][k].val

\* Several clients: however their writes crossed those of the server and of each other,
\* once a variable synced both ways has settled everybody holds the server's value.
Agreement ==
  \A c \in Clients : \A k \in Keys :
    Shared(k) /\ <<c, k>> \notin stale /\ ~Unsettled(k) => Agrees(c, k)

\* The same of a game with one client, which NeedsRebroadcast leaves without a
\* rebroadcast: "If we only have a local client, no need to resync user vars".
LocalClientAgrees ==
  Cardinality(Clients) = 1 =>
    \A c \in Clients : \A k \in Keys :
      Shared(k) /\ <<c, k>> \notin stale /\ ~Unsettled(k) => Agrees(c, k)

\* A cached write leaves the cache only for the store - or because the level changed,
\* Lua was reset, a session ended, or an update of the other side replaced it.
WritesReachStore ==
  [][\A p \in Peers : \A k \in Keys :
       cache[p][k].dirty /\ ~cache'[p][k].dirty =>
         \/ store'[p][k].val = cache[p][k].val
         \/ \E v \in Values : Set(p, k, v)
         \/ LuaReset(p) \/ EnterLoadLevel(p) \/ NewSession(p)
         \/ \E c \in Clients : ReceiveFromServer(c) \/ ReceiveFromClient(c)]_vars

\* "Ext.Utils.SyncUserVariables() can be called, which synchronizes all user variable
\* changes that were done up to that point" (Docs/ReleaseNotesv58.md:231): once the call
\* has done its work no change to a synced variable still sits in the Lua state's cache.
SyncSendsAllWrites ==
  [][\A p \in Peers : \A K \in Managers :
       MaySync(p) /\ MakeSyncMessage(p) /\ SyncVariables(p, K) =>
         \A k \in K : cache'[p][k].dirty => ~NeedsSyncFor(k, p)]_vars

\* What a script on the server would read now.
Visible(k) == IF cache[Server][k].val # Absent THEN cache[Server][k].val ELSE store[Server][k].val

\* A savegame holds, for every persistent variable, what a script would have read when
\* it was made, flushed or not.
SaveIsCurrent ==
  [][saved' # saved =>
       \A k \in registered[Server] : Has(k, "Persistent") => saved'[k] = Visible(k)]_vars

\* With ticks, loading and transport going on, every client ends up with the server's
\* value of a variable that the server syncs, unless its last update was discarded.
EventualAgreement ==
  \A c \in Clients : \A k \in Keys :
    <>[](Shared(k) \/ ServerOwned(k) => <<c, k>> \in stale \/ Agrees(c, k))
===============================================================================
