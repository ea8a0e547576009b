--------------------------- MODULE UserVars_proofs ---------------------------
(***************************************************************************)
(* Proofs about UserVars, for every set of peers, keys, prototypes and     *)
(* values and whatever the bounds: the state is well-typed, so that no     *)
(* message is empty and none carries an absent value, no write waiting for *)
(* a flush or a sync is forgotten by the queues, the caches agree with the *)
(* stores, and the values of the server get to all clients.                *)
(***************************************************************************)
EXTENDS UserVars, TLAPS

-----------------------------------------------------------------------------
(* What the operators of the sync writer do to the shape of the state. *)

\* A message with at least one value is well-typed.
LEMMA BundleType ==
  ASSUME NEW K \in SUBSET Keys, K # {}, NEW f, \A k \in K : f[k] \in Values
  PROVE  VarsMsg([k \in K |-> f[k]]) \in SyncMsg
<1>1. [k \in K |-> f[k]] \in [K -> Values]
  OBVIOUS
<1>2. [k \in K |-> f[k]] \in Bundle
  BY <1>1 DEF Bundle
<1> QED
  BY <1>2 DEF VarsMsg, SyncMsg

\* Appending to a queue of messages.
LEMMA AppendType ==
  ASSUME NEW S, NEW q \in Seq(S), NEW m \in S
  PROVE  Append(q, m) \in Seq(S)
  OBVIOUS

\* Broadcast keeps the channels well-typed, whether it sends or not.
LEMMA BroadcastType ==
  ASSUME TypeOK, NEW K \in SUBSET Keys, NEW f, \A k \in K : f[k] \in Values,
         Broadcast([k \in K |-> f[k]])
  PROVE  down' \in [Clients -> Seq(SyncMsg)]
<1>1. DOMAIN [k \in K |-> f[k]] = K
  OBVIOUS
<1>2. CASE K = {}
  BY <1>1, <1>2 DEF Broadcast, TypeOK
<1>3. CASE K # {}
  <2> DEFINE m == VarsMsg([k \in K |-> f[k]])
  <2>1. m \in SyncMsg
    BY <1>3, BundleType
  <2>2. down' = [c \in Clients |-> IF c \in hello THEN Append(down[c], m) ELSE down[c]]
    BY <1>1, <1>3 DEF Broadcast
  <2> HIDE DEF m
  <2>3. \A c \in Clients : down[c] \in Seq(SyncMsg)
    BY DEF TypeOK
  <2>4. \A c \in Clients : Append(down[c], m) \in Seq(SyncMsg)
    BY <2>1, <2>3, AppendType
  <2> QED
    BY <2>2, <2>3, <2>4
<1> QED
  BY <1>2, <1>3

\* Send keeps the channels and the history well-typed, on the server and on a client.
LEMMA SendType ==
  ASSUME TypeOK, NEW p \in Peers, NEW K \in SUBSET Keys, NEW f,
         \A k \in K : f[k] \in Values, Send(p, K, f)
  PROVE  /\ down' \in [Clients -> Seq(SyncMsg)]
         /\ up' \in [Clients -> Seq(Msg)]
         /\ stale' \subseteq Clients \X Keys
<1>1. CASE p = Server
  <2> DEFINE sent == Deliverable(Server, K)
  <2>1. sent \in SUBSET Keys /\ \A k \in sent : f[k] \in Values
    BY DEF Deliverable
  <2>2. SendFromServer(K, f) /\ up' = up
    BY <1>1 DEF Send
  <2>3. down' \in [Clients -> Seq(SyncMsg)]
    <3>1. Broadcast([k \in sent |-> f[k]])
      BY <2>2 DEF SendFromServer
    <3> HIDE DEF sent
    <3> QED
      BY <2>1, <3>1, BroadcastType
  <2>4. stale' \subseteq Clients \X Keys
    BY <2>1, <2>2 DEF SendFromServer, TypeOK
  <2> QED
    BY <2>2, <2>3, <2>4 DEF TypeOK
<1>2. CASE p # Server
  <2> DEFINE sent == IF MakeSyncMessage(p) THEN Deliverable(p, K) ELSE {}
             m == VarsMsg([k \in sent |-> f[k]])
  <2>1. sent \in SUBSET Keys /\ \A k \in sent : f[k] \in Values
    BY DEF Deliverable
  <2>2. p \in Clients
    BY <1>2 DEF Peers
  <2>3. down' = down /\ stale' = stale \cup ({p} \X (K \ sent))
    BY <1>2 DEF Send, SendFromClient
  <2>4. up' = IF sent = {} THEN up ELSE [up EXCEPT ![p] = Append(@, m)]
    BY <1>2 DEF Send, SendFromClient
  <2>5. sent # {} => m \in Msg
    BY <2>1, BundleType DEF Msg
  <2> HIDE DEF m, sent
  <2>6. up' \in [Clients -> Seq(Msg)]
    <3>1. CASE sent = {}
      BY <2>4, <3>1 DEF TypeOK
    <3>2. CASE sent # {}
      <4>1. up[p] \in Seq(Msg) /\ m \in Msg
        BY <2>2, <2>5, <3>2 DEF TypeOK
      <4>2. Append(up[p], m) \in Seq(Msg)
        BY <4>1, AppendType
      <4> QED
        BY <2>2, <2>4, <3>2, <4>2 DEF TypeOK
    <3> QED
      BY <3>1, <3>2
  <2> QED
    BY <2>2, <2>3, <2>6 DEF TypeOK
<1> QED
  BY <1>1, <1>2

\* What an operation leaves in the queues: a dirty variable that p syncs later is
\* queued. The second conjunct of NothingForgotten, of one key.
QueuedIfDirty(p, k) ==
  store[p][k].dirty /\ NeedsSyncFor(k, p) /\ ~Has(k, "SyncOnWrite") => k \in Queued(p)

\* The part of IInv about the stores and the writer's queues.
StoreInv ==
  /\ store \in [Peers -> [Keys -> Entry]]
  /\ deferred \in [Peers -> SUBSET Keys]
  /\ nextTick \in [Peers -> SUBSET Keys]
  /\ \A p \in Peers : \A k \in Keys :
       /\ store[p][k].dirty => store[p][k].val # Absent
       /\ QueuedIfDirty(p, k)

\* The part about the Lua caches.
CacheInv ==
  /\ cache \in [Peers -> [Keys -> Entry]]
  /\ flushQ \in [Peers -> SUBSET Keys]
  /\ \A p \in Peers : \A k \in Keys :
       cache[p][k].dirty => cache[p][k].val # Absent /\ k \in flushQ[p]

\* The part about the channels.
NetInv ==
  /\ support \subseteq Clients /\ hello \subseteq Clients
  /\ down \in [Clients -> Seq(SyncMsg)]
  /\ up \in [Clients -> Seq(Msg)]
  /\ stale \subseteq Clients \X Keys

\* The rest.
BaseInv ==
  /\ proto \in [Keys -> Protos]
  /\ registered \in [Peers -> SUBSET Keys]
  /\ phase \in [Peers -> {"LoadSession", "LoadLevel", "Running"}]
  /\ known \subseteq Peers
  /\ saved \in [Keys -> Values \cup {Absent}]
  /\ ops \in 0..MaxOps /\ loads \in 0..MaxLoads

\* The inductive invariant. It says more than the two properties: a value must be there
\* whenever it is dirty, or a flush could send nothing under a name.
IInv == StoreInv /\ CacheInv /\ NetInv /\ BaseInv

\* It is what the runs check as three invariants.
LEMMA Parts == IInv <=> TypeOK /\ DirtyHasValue /\ NothingForgotten
BY DEF IInv, TypeOK, DirtyHasValue, NothingForgotten, StoreInv, CacheInv, NetInv,
       BaseInv, QueuedIfDirty

-----------------------------------------------------------------------------
(* The operators that write the stores. *)

\* Setting values dirty stores them, and queues those that have to wait.
LEMMA SetDirtyStore ==
  ASSUME StoreInv, NEW p \in Peers, NEW K \in SUBSET Keys, NEW f,
         \A k \in K : f[k] \in Values, SetDirty(p, K, f), UNCHANGED proto
  PROVE  StoreInv'
<1> DEFINE row == [k \in Keys |-> IF k \in K THEN [val |-> f[k], dirty |-> TRUE]
                                             ELSE store[p][k]]
<1>1. store' = [store EXCEPT ![p] = row]
  BY DEF SetDirty
<1>2. /\ deferred' = [deferred EXCEPT ![p] = @ \cup {k \in K : SyncsDeferred(p, k)}]
      /\ nextTick' = [nextTick EXCEPT ![p] = @ \cup {k \in K : SyncsNextTick(p, k)}]
  BY DEF SetDirty, Requeue
<1>3. row \in [Keys -> Entry]
  BY DEF StoreInv, Entry
<1>4. store' \in [Peers -> [Keys -> Entry]]
  BY <1>1, <1>3 DEF StoreInv
<1>5. deferred' \in [Peers -> SUBSET Keys] /\ nextTick' \in [Peers -> SUBSET Keys]
  BY <1>2 DEF StoreInv
<1>6. ASSUME NEW q \in Peers, NEW k \in Keys
      PROVE  /\ store'[q][k].dirty => store'[q][k].val # Absent
             /\ QueuedIfDirty(q, k)'
  <2>1. CASE q # p \/ k \notin K
    <3>1. store'[q][k] = store[q][k]
      BY <1>1, <2>1 DEF StoreInv
    <3>2. Queued(q) \subseteq Queued(q)'
      BY <1>2 DEF StoreInv, Queued
    <3> QED
      BY <3>1, <3>2 DEF StoreInv, QueuedIfDirty, NeedsSyncFor, Has
  <2>2. CASE q = p /\ k \in K
    <3>1. store'[q][k] = [val |-> f[k], dirty |-> TRUE] /\ f[k] \in Values
      BY <1>1, <2>2 DEF StoreInv
    <3>2. NeedsSyncFor(k, p) /\ ~Has(k, "SyncOnWrite") => k \in Queued(p)'
      BY <1>2, <2>2 DEF StoreInv, Queued, SyncsDeferred, SyncsNextTick
    <3> QED
      BY <2>2, <3>1, <3>2, UserVarsAssumption DEF QueuedIfDirty, NeedsSyncFor, Has
  <2> QED
    BY <2>1, <2>2
<1> QED
  BY <1>4, <1>5, <1>6 DEF StoreInv

\* Flushing cleans what it sends; what it does not send stays dirty and stays queued.
LEMMA FlushSyncStore ==
  ASSUME StoreInv, NEW p \in Peers, NEW F \in SUBSET Keys, NEW K \in SUBSET Keys,
         cache \in [Peers -> [Keys -> Entry]], \A k \in F : cache[p][k].val \in Values,
         FlushSync(p, F, K), UNCHANGED proto
  PROVE  StoreInv'
<1> DEFINE merged  == [k \in Keys |-> IF k \in F THEN [val |-> cache[p][k].val, dirty |-> TRUE]
                                                 ELSE store[p][k]]
           open    == MaySync(p) /\ MakeSyncMessage(p)
           slow    == deferred[p] \cup {k \in F : SyncsDeferred(p, k)}
           quick   == nextTick[p] \cup {k \in F : SyncsNextTick(p, k)}
           queued  == K \cap Drained(slow, quick)
           flushed == IF open THEN {k \in queued : merged[k].dirty} ELSE {}
           row     == [k \in Keys |-> [val |-> merged[k].val,
                                       dirty |-> merged[k].dirty /\ k \notin flushed]]
<1>1. /\ store' = [store EXCEPT ![p] = row]
      /\ deferred' = [deferred EXCEPT ![p] = Remaining(open, slow, K)]
      /\ nextTick' = [nextTick EXCEPT ![p] = Remaining(open, quick, K)]
  BY DEF FlushSync
<1>2. merged \in [Keys -> Entry]
  BY DEF StoreInv, Entry
<1>3. \A k \in Keys : merged[k].val \in Values \cup {Absent} /\ merged[k].dirty \in BOOLEAN
  BY <1>2 DEF Entry
<1>4. slow \in SUBSET Keys /\ quick \in SUBSET Keys
  BY DEF StoreInv
<1>5. \A k \in Keys : merged[k].dirty => merged[k].val # Absent
  BY UserVarsAssumption DEF StoreInv
<1>6. \A k \in Keys : merged[k].dirty /\ NeedsSyncFor(k, p) /\ ~Has(k, "SyncOnWrite")
                        => k \in slow \cup quick
  BY DEF StoreInv, QueuedIfDirty, Queued, SyncsDeferred, SyncsNextTick
<1> HIDE DEF merged, open, slow, quick
<1>7. row \in [Keys -> Entry]
  BY <1>3 DEF Entry
<1>8. store' \in [Peers -> [Keys -> Entry]]
  BY <1>1, <1>7 DEF StoreInv
<1>9. deferred' \in [Peers -> SUBSET Keys] /\ nextTick' \in [Peers -> SUBSET Keys]
  BY <1>1, <1>4 DEF StoreInv, Remaining
<1>10. ASSUME NEW q \in Peers, NEW k \in Keys
       PROVE  /\ store'[q][k].dirty => store'[q][k].val # Absent
              /\ QueuedIfDirty(q, k)'
  <2>1. CASE q # p
    <3>1. store'[q][k] = store[q][k] /\ Queued(q)' = Queued(q)
      BY <1>1, <2>1 DEF StoreInv, Queued
    <3> QED
      BY <3>1 DEF StoreInv, QueuedIfDirty, NeedsSyncFor, Has
  <2>2. CASE q = p
    <3>1. store'[q][k].val = merged[k].val
      BY <1>1, <2>2 DEF StoreInv
    <3>2. store'[q][k].dirty <=> merged[k].dirty /\ k \notin flushed
      BY <1>1, <1>3, <2>2 DEF StoreInv
    <3>3. Queued(q)' = Remaining(open, slow, K) \cup Remaining(open, quick, K)
      BY <1>1, <2>2 DEF StoreInv, Queued
    <3>4. ASSUME k \in slow \cup quick, merged[k].dirty, k \notin flushed
          PROVE  k \in Queued(q)'
      BY <3>3, <3>4 DEF Remaining, Drained
    <3>5. (NeedsSyncFor(k, q) /\ ~Has(k, "SyncOnWrite"))'
            => NeedsSyncFor(k, p) /\ ~Has(k, "SyncOnWrite")
      BY <2>2 DEF NeedsSyncFor, Has
    <3> QED
      BY <1>5, <1>6, <3>1, <3>2, <3>4, <3>5 DEF QueuedIfDirty
  <2> QED
    BY <2>1, <2>2
<1> QED
  BY <1>8, <1>9, <1>10 DEF StoreInv

\* What is in a channel is well-typed, and remains so when its head is taken.
LEMMA ChannelType ==
  ASSUME NEW S, NEW ch \in [Clients -> Seq(S)], NEW c \in Clients, ch[c] # <<>>
  PROVE  /\ Head(ch[c]) \in S
         /\ [ch EXCEPT ![c] = Tail(@)] \in [Clients -> Seq(S)]
<1>1. ch[c] \in Seq(S)
  OBVIOUS
<1>2. Head(ch[c]) \in S /\ Tail(ch[c]) \in Seq(S)
  BY <1>1
<1> QED
  BY <1>2

\* The variables of a message that carries any are keys with a value.
LEMMA VarsType ==
  ASSUME NEW m \in Msg, m.kind = "vars"
  PROVE  DOMAIN m.vars \in SUBSET Keys /\ \A k \in DOMAIN m.vars : m.vars[k] \in Values
<1>1. m \in SyncMsg
  BY DEF Msg
<1>2. PICK K \in SUBSET Keys : m.vars \in [K -> Values]
  BY <1>1 DEF SyncMsg, Bundle
<1> QED
  BY <1>2

\* An update from the other side is stored; on the server it may be queued again.
LEMMA NetworkSyncStore ==
  ASSUME StoreInv, CacheInv, NEW p \in Peers, NEW f,
         DOMAIN f \in SUBSET Keys, \A k \in DOMAIN f : f[k] \in Values,
         NetworkSync(p, f), UNCHANGED <<proto, flushQ>>
  PROVE  StoreInv' /\ CacheInv'
<1> DEFINE A == Accepted(p, f)
           again == {k \in A : NeedsRebroadcast(k, p)}
           row == [k \in Keys |-> IF k \in A THEN [val |-> f[k], dirty |-> NeedsRebroadcast(k, p)]
                                             ELSE store[p][k]]
           gone == {k \in A : ~Has(k, "DontCache")}
<1>1. A \in SUBSET Keys /\ \A k \in A : f[k] \in Values
  BY DEF Accepted
<1>2. /\ store' = [store EXCEPT ![p] = row]
      /\ cache' = [cache EXCEPT ![p] = [k \in Keys |-> IF k \in gone THEN NoEntry ELSE cache[p][k]]]
  BY DEF NetworkSync, Invalidate, CacheInv
<1>3. /\ deferred' = [deferred EXCEPT ![p] = @ \cup {k \in again : SyncsDeferred(p, k)}]
      /\ nextTick' = [nextTick EXCEPT ![p] = @ \cup {k \in again : SyncsNextTick(p, k)}]
  BY DEF NetworkSync, Requeue
<1> HIDE DEF A
<1>4. row \in [Keys -> Entry]
  BY <1>1 DEF StoreInv, Entry, NeedsRebroadcast
<1>5. store' \in [Peers -> [Keys -> Entry]]
  BY <1>2, <1>4 DEF StoreInv
<1>6. deferred' \in [Peers -> SUBSET Keys] /\ nextTick' \in [Peers -> SUBSET Keys]
  BY <1>1, <1>3 DEF StoreInv
<1>7. ASSUME NEW q \in Peers, NEW k \in Keys
      PROVE  /\ store'[q][k].dirty => store'[q][k].val # Absent
             /\ QueuedIfDirty(q, k)'
  <2>1. CASE q # p \/ k \notin A
    <3>1. store'[q][k] = store[q][k]
      BY <1>2, <2>1 DEF StoreInv
    <3>2. Queued(q) \subseteq Queued(q)'
      BY <1>3 DEF StoreInv, Queued
    <3> QED
      BY <3>1, <3>2 DEF StoreInv, QueuedIfDirty, NeedsSyncFor, Has
  <2>2. CASE q = p /\ k \in A
    <3>1. store'[q][k] = [val |-> f[k], dirty |-> NeedsRebroadcast(k, p)] /\ f[k] \in Values
      BY <1>1, <1>2, <2>2 DEF StoreInv
    <3>2. store'[q][k].dirty => k \in again
      BY <2>2, <3>1
    <3>3. k \in again /\ NeedsSyncFor(k, p) /\ ~Has(k, "SyncOnWrite") => k \in Queued(p)'
      BY <1>3, <2>2 DEF StoreInv, Queued, SyncsDeferred, SyncsNextTick
    <3> QED
      BY <2>2, <3>1, <3>2, <3>3, UserVarsAssumption DEF QueuedIfDirty, NeedsSyncFor, Has
  <2> QED
    BY <2>1, <2>2
<1>8. CacheInv'
  BY <1>2 DEF CacheInv, Entry, NoEntry
<1> QED
  BY <1>5, <1>6, <1>7, <1>8 DEF StoreInv

\* The channels, when values are set dirty.
LEMMA SetDirtyNet ==
  ASSUME IInv, NEW p \in Peers, NEW K \in SUBSET Keys, NEW f,
         \A k \in K : f[k] \in Values, SetDirty(p, K, f), UNCHANGED <<support, hello>>
  PROVE  NetInv'
<1> DEFINE S == {k \in K : SyncsNow(p, k)}
<1>1. S \in SUBSET Keys /\ \A k \in S : f[k] \in Values
  OBVIOUS
<1>2. Send(p, S, f)
  BY DEF SetDirty
<1>3. TypeOK /\ NetInv
  BY Parts DEF IInv
<1> HIDE DEF S
<1> QED
  BY <1>1, <1>2, <1>3, SendType DEF NetInv

-----------------------------------------------------------------------------
(* The caches. *)

\* What is flushed has a value.
LEMMA CachedWritesType ==
  ASSUME CacheInv, NEW p \in Peers
  PROVE  CachedWrites(p) \in SUBSET Keys /\ \A k \in CachedWrites(p) : cache[p][k].val \in Values
BY DEF CachedWrites, CacheInv, Entry

\* Emptying the flush queue loses nothing, because the queue had every dirty entry.
LEMMA FlushCacheInv ==
  ASSUME CacheInv, NEW p \in Peers, FlushCache(p)
  PROVE  CacheInv'
<1> DEFINE row == [k \in Keys |-> IF k \in CachedWrites(p) THEN [cache[p][k] EXCEPT !.dirty = FALSE]
                                                            ELSE cache[p][k]]
<1>1. cache' = [cache EXCEPT ![p] = row] /\ flushQ' = [flushQ EXCEPT ![p] = {}]
  BY DEF FlushCache, CacheInv
<1>2. row \in [Keys -> Entry]
  <2>1. \A e \in Entry : [e EXCEPT !.dirty = FALSE] \in Entry
    BY DEF Entry
  <2>2. \A k \in Keys : cache[p][k] \in Entry
    BY DEF CacheInv
  <2> QED
    BY <2>1, <2>2
<1>3. \A k \in Keys : ~row[k].dirty
  BY DEF CachedWrites, CacheInv, Entry
<1> HIDE DEF row
<1>4. cache' \in [Peers -> [Keys -> Entry]] /\ flushQ' \in [Peers -> SUBSET Keys]
  BY <1>1, <1>2 DEF CacheInv
<1>5. ASSUME NEW q \in Peers, NEW k \in Keys, cache'[q][k].dirty
      PROVE  cache'[q][k].val # Absent /\ k \in flushQ'[q]
  <2>1. q # p
    BY <1>1, <1>3, <1>5 DEF CacheInv
  <2> QED
    BY <1>1, <1>5, <2>1 DEF CacheInv
<1> QED
  BY <1>4, <1>5 DEF CacheInv

\* Dropping a cache drops its queue too.
LEMMA DropCacheInv ==
  ASSUME CacheInv, NEW p \in Peers, DropCache(p)
  PROVE  CacheInv'
BY DEF CacheInv, DropCache, NoVars, NoEntry, Entry

-----------------------------------------------------------------------------
(* The actions. *)

\* Initially nothing is dirty and no message is under way.
LEMMA InitInv == Init => IInv
<1> SUFFICES ASSUME Init PROVE IInv
  OBVIOUS
<1>1. StoreInv
  BY DEF Init, StoreInv, NoVars, NoEntry, Entry, QueuedIfDirty
<1>2. CacheInv
  BY DEF Init, CacheInv, NoVars, NoEntry, Entry
<1>3. NetInv
  BY DEF Init, NetInv
<1>4. BaseInv
  BY UserVarsAssumption DEF Init, BaseInv
<1> QED
  BY <1>1, <1>2, <1>3, <1>4 DEF IInv

\* Script operations.
LEMMA ScriptInv ==
  ASSUME IInv, NEW p \in Peers, ScriptStep(p)
  PROVE  IInv'
<1> USE DEF IInv
<1>1. ASSUME NEW k \in Keys, RegisterPrototype(p, k) PROVE IInv'
  BY <1>1 DEF RegisterPrototype, local, net, StoreInv, CacheInv, NetInv, BaseInv,
              QueuedIfDirty, Queued, NeedsSyncFor, Has
<1>2. ASSUME NEW k \in Keys, Push(p, k) PROVE IInv'
  <2>1. StoreInv' /\ NetInv' /\ BaseInv'
    BY <1>2 DEF Push, net, StoreInv, NetInv, BaseInv, QueuedIfDirty, Queued, NeedsSyncFor, Has
  <2>2. [val |-> store[p][k].val, dirty |-> FALSE] \in Entry
    BY DEF StoreInv, Entry
  <2>3. CacheInv'
    BY <1>2, <2>2 DEF Push, CacheInv
  <2> QED
    BY <2>1, <2>3
<1>3. ASSUME NEW k \in Keys, MarkDirty(p, k) PROVE IInv'
  <2> DEFINE f == [x \in {k} |-> store[p][k].val]
  <2>1. \A x \in {k} : f[x] \in Values
    BY <1>3 DEF MarkDirty, StoreInv, Entry
  <2>2. SetDirty(p, {k}, f)
    BY <1>3 DEF MarkDirty
  <2>3. UNCHANGED <<proto, registered, phase, known, cache, flushQ, support, hello, saved, loads>>
    BY <1>3 DEF MarkDirty
  <2> HIDE DEF f
  <2>4. StoreInv'
    BY <2>1, <2>2, <2>3, SetDirtyStore
  <2>6. NetInv'
    BY <2>1, <2>2, <2>3, SetDirtyNet
  <2>7. CacheInv' /\ BaseInv'
    BY <1>3, <2>3, UserVarsAssumption DEF CacheInv, BaseInv, MarkDirty
  <2> QED
    BY <2>4, <2>6, <2>7
<1>4. ASSUME NEW k \in Keys, NEW v \in Values, Set(p, k, v) PROVE IInv'
  <2> DEFINE f == [x \in {k} |-> v]
  <2>1. UNCHANGED <<proto, registered, phase, known, support, hello, saved, loads>>
    BY <1>4 DEF Set
  <2>2. BaseInv'
    BY <1>4, UserVarsAssumption DEF Set, BaseInv
  <2>3. ASSUME SetDirty(p, {k}, f) PROVE StoreInv' /\ NetInv'
    <3>1. \A x \in {k} : f[x] \in Values
      OBVIOUS
    <3> HIDE DEF f
    <3>2. StoreInv'
      BY <2>1, <2>3, <3>1, SetDirtyStore
    <3>3. NetInv'
      BY <2>1, <2>3, <3>1, SetDirtyNet
    <3> QED
      BY <3>2, <3>3
  <2>4. CASE SetUncached(p, k, v)
    <3>1. SetDirty(p, {k}, f) /\ CacheInv'
      BY <2>4 DEF SetUncached, CacheInv
    <3> QED
      BY <2>2, <2>3, <3>1
  <2>5. CASE SetCached(p, k, v)
    <3>1. PICK changed \in {TRUE, cache[p][k].val # v} :
            LET was   == cache[p][k].dirty
                dirty == was \/ changed
                now   == dirty /\ SyncsNow(p, k)
            IN /\ cache' = [cache EXCEPT ![p][k] = [val |-> v, dirty |-> dirty /\ ~now]]
               /\ flushQ' = [flushQ EXCEPT ![p] = IF dirty /\ ~was THEN @ \cup {k} ELSE @]
               /\ IF now THEN SetDirty(p, {k}, f)
                         ELSE UNCHANGED <<store, deferred, nextTick, down, up, stale>>
      BY <2>5 DEF SetCached
    <3> DEFINE dirty == cache[p][k].dirty \/ changed
               now   == dirty /\ SyncsNow(p, k)
    <3>2. StoreInv' /\ NetInv'
      <4>1. CASE now
        BY <2>3, <3>1, <4>1
      <4>2. CASE ~now
        BY <2>1, <3>1, <4>2 DEF StoreInv, NetInv, QueuedIfDirty, Queued, NeedsSyncFor, Has
      <4> QED
        BY <4>1, <4>2
    <3>3. [val |-> v, dirty |-> dirty /\ ~now] \in Entry
      BY DEF Entry
    <3>4. CacheInv'
      <4>1. cache' = [cache EXCEPT ![p][k] = [val |-> v, dirty |-> dirty /\ ~now]]
        BY <3>1
      <4>2. flushQ' = [flushQ EXCEPT ![p] = IF dirty /\ ~cache[p][k].dirty THEN @ \cup {k} ELSE @]
        BY <3>1
      <4> HIDE DEF dirty, now
      <4>3. cache' \in [Peers -> [Keys -> Entry]] /\ flushQ' \in [Peers -> SUBSET Keys]
        BY <3>3, <4>1, <4>2 DEF CacheInv
      <4>4. ASSUME NEW q \in Peers, NEW x \in Keys, cache'[q][x].dirty
            PROVE  cache'[q][x].val # Absent /\ x \in flushQ'[q]
        <5>1. CASE q # p \/ x # k
          BY <4>1, <4>2, <4>4, <5>1 DEF CacheInv
        <5>2. CASE q = p /\ x = k
          <6>1. cache'[q][x] = [val |-> v, dirty |-> dirty /\ ~now]
            BY <4>1, <5>2 DEF CacheInv
          <6>2. dirty
            <7>1. cache'[q][x].dirty = (dirty /\ ~now)
              BY <6>1
            <7> QED
              BY <4>4, <7>1
          <6>3. k \in flushQ'[p]
            BY <4>2, <6>2 DEF CacheInv
          <6> QED
            BY <5>2, <6>1, <6>3, UserVarsAssumption
        <5> QED
          BY <5>1, <5>2
      <4> QED
        BY <4>3, <4>4 DEF CacheInv
    <3> QED
      BY <2>2, <3>2, <3>4
  <2> QED
    BY <1>4, <2>4, <2>5 DEF Set
<1> QED
  BY <1>1, <1>2, <1>3, <1>4 DEF ScriptStep

\* The channels, when the writer's queues are flushed.
LEMMA FlushSyncNet ==
  ASSUME IInv, NEW p \in Peers, NEW F \in SUBSET Keys, NEW K \in SUBSET Keys,
         \A k \in F : cache[p][k].val \in Values,
         FlushSync(p, F, K), UNCHANGED <<support, hello>>
  PROVE  NetInv'
<1> DEFINE merged  == [k \in Keys |-> IF k \in F THEN [val |-> cache[p][k].val, dirty |-> TRUE]
                                                 ELSE store[p][k]]
           open    == MaySync(p) /\ MakeSyncMessage(p)
           slow    == deferred[p] \cup {k \in F : SyncsDeferred(p, k)}
           quick   == nextTick[p] \cup {k \in F : SyncsNextTick(p, k)}
           queued  == K \cap Drained(slow, quick)
           flushed == IF open THEN {k \in queued : merged[k].dirty} ELSE {}
           f       == [k \in Keys |-> merged[k].val]
           S       == flushed \cup {k \in F : SyncsNow(p, k)}
<1>1. \A k \in Keys : merged[k].dirty => merged[k].val \in Values
  BY DEF IInv, StoreInv, Entry
<1>2. flushed \in SUBSET Keys /\ \A k \in flushed : merged[k].dirty
  OBVIOUS
<1>3. S \in SUBSET Keys /\ \A k \in S : f[k] \in Values
  BY <1>1, <1>2
<1>4. Send(p, S, f)
  BY DEF FlushSync
<1>5. TypeOK /\ NetInv
  BY Parts DEF IInv
<1> HIDE DEF S, f
<1> QED
  BY <1>3, <1>4, <1>5, SendType DEF NetInv

\* The tick.
LEMMA OnUpdateInv ==
  ASSUME IInv, NEW p \in Peers, OnUpdate(p)
  PROVE  IInv'
<1>1. CachedWrites(p) \in SUBSET Keys /\ \A k \in CachedWrites(p) : cache[p][k].val \in Values
  BY CachedWritesType DEF IInv
<1>2. /\ FlushCache(p) /\ FlushSync(p, CachedWrites(p), Keys)
      /\ UNCHANGED <<proto, registered, phase, known, support, hello, saved, ops, loads>>
  BY DEF OnUpdate
<1>3. StoreInv'
  BY <1>1, <1>2, FlushSyncStore DEF IInv, CacheInv
<1>4. CacheInv'
  BY <1>2, FlushCacheInv DEF IInv
<1>5. NetInv'
  BY <1>1, <1>2, FlushSyncNet
<1>6. BaseInv'
  BY <1>2 DEF IInv, BaseInv
<1> QED
  BY <1>3, <1>4, <1>5, <1>6 DEF IInv

\* SyncUserVariables and SyncModVariables.
LEMMA SyncVariablesInv ==
  ASSUME IInv, NEW p \in Peers, NEW K \in Managers, SyncVariables(p, K)
  PROVE  IInv'
<1>1. K \in SUBSET Keys
  BY UserVarsAssumption DEF Managers
<1>2. /\ FlushSync(p, {}, K)
      /\ UNCHANGED <<proto, registered, phase, known, cache, flushQ, support, hello,
                     saved, ops, loads>>
  BY DEF SyncVariables
<1>3. StoreInv'
  BY <1>1, <1>2, FlushSyncStore DEF IInv, CacheInv
<1>4. NetInv'
  BY <1>1, <1>2, FlushSyncNet
<1>5. CacheInv' /\ BaseInv'
  BY <1>2 DEF IInv, CacheInv, BaseInv
<1> QED
  BY <1>3, <1>4, <1>5 DEF IInv

\* Loading, new objects, new sessions and Lua resets.
LEMMA GameInv ==
  ASSUME IInv, NEW p \in Peers, GameStep(p)
  PROVE  IInv'
<1> USE DEF IInv
<1>1. ASSUME EnterLoadLevel(p) PROVE IInv'
  <2>1. CacheInv'
    BY <1>1, DropCacheInv DEF EnterLoadLevel
  <2>2. StoreInv' /\ NetInv'
    BY <1>1 DEF EnterLoadLevel, net, StoreInv, NetInv, QueuedIfDirty, Queued, NeedsSyncFor, Has
  <2>3. BaseInv'
    BY <1>1, UserVarsAssumption DEF EnterLoadLevel, BaseInv
  <2> QED
    BY <2>1, <2>2, <2>3
<1>2. ASSUME EnterRunning(p) PROVE IInv'
  BY <1>2 DEF EnterRunning, local, net, StoreInv, CacheInv, NetInv, BaseInv, QueuedIfDirty,
              Queued, NeedsSyncFor, Has
<1>3. ASSUME ObjectAppears(p) PROVE IInv'
  BY <1>3 DEF ObjectAppears, local, net, StoreInv, CacheInv, NetInv, BaseInv, QueuedIfDirty,
              Queued, NeedsSyncFor, Has
<1>4. ASSUME NewSession(p) PROVE IInv'
  <2>1. CacheInv'
    BY <1>4, DropCacheInv DEF NewSession
  <2>2. StoreInv'
    <3>1. /\ store' = [store EXCEPT ![p] = NoVars]
          /\ deferred' = [deferred EXCEPT ![p] = {}] /\ nextTick' = [nextTick EXCEPT ![p] = {}]
          /\ proto' = proto
      BY <1>4 DEF NewSession
    <3>2. NoVars \in [Keys -> Entry] /\ \A k \in Keys : ~NoVars[k].dirty
      BY DEF NoVars, NoEntry, Entry
    <3> HIDE DEF NoVars
    <3> QED
      BY <3>1, <3>2 DEF StoreInv, QueuedIfDirty, Queued, NeedsSyncFor, Has
  <2>3. NetInv'
    BY <1>4 DEF NewSession, net, NetInv, Peers
  <2>4. BaseInv'
    BY <1>4, UserVarsAssumption DEF NewSession, BaseInv
  <2> QED
    BY <2>1, <2>2, <2>3, <2>4
<1>5. ASSUME LuaReset(p) PROVE IInv'
  <2>1. CacheInv'
    BY <1>5, DropCacheInv DEF LuaReset
  <2> QED
    BY <1>5, <2>1 DEF LuaReset, net, StoreInv, NetInv, BaseInv, QueuedIfDirty, Queued,
                      NeedsSyncFor, Has
<1> QED
  BY <1>1, <1>2, <1>3, <1>4, <1>5 DEF GameStep

\* The network handlers.
LEMMA NetStepInv ==
  ASSUME IInv, NEW c \in Clients, NetStep(c)
  PROVE  IInv'
<1> USE DEF IInv
<1>a. TypeOK
  BY Parts
<1>b. c \in Peers /\ Server \in Peers
  BY DEF Peers
<1>1. ASSUME OnAcceptMessage(c) PROVE IInv'
  <2>1. HelloMsg \in Msg
    BY DEF HelloMsg, Msg
  <2>2. up[c] \in Seq(Msg)
    BY DEF NetInv
  <2>3. Append(up[c], HelloMsg) \in Seq(Msg)
    BY <2>1, <2>2, AppendType
  <2>4. NetInv'
    BY <1>1, <2>3 DEF OnAcceptMessage, NetInv
  <2> QED
    BY <1>1, <2>4 DEF OnAcceptMessage, local, StoreInv, CacheInv, BaseInv, QueuedIfDirty,
                      Queued, NeedsSyncFor, Has
<1>2. ASSUME ReceiveHello(c) PROVE IInv'
  <2>1. [up EXCEPT ![c] = Tail(@)] \in [Clients -> Seq(Msg)]
    BY <1>2, ChannelType DEF ReceiveHello, NetInv
  <2>2. NetInv'
    BY <1>2, <2>1 DEF ReceiveHello, NetInv
  <2> QED
    BY <1>2, <2>2 DEF ReceiveHello, local, StoreInv, CacheInv, BaseInv, QueuedIfDirty,
                      Queued, NeedsSyncFor, Has
<1>3. ASSUME ReceiveFromServer(c) PROVE IInv'
  <2> DEFINE f == Head(down[c]).vars
  <2>1. /\ Head(down[c]) \in SyncMsg
        /\ [down EXCEPT ![c] = Tail(@)] \in [Clients -> Seq(SyncMsg)]
    BY <1>3, ChannelType DEF ReceiveFromServer, NetInv
  <2>2. DOMAIN f \in SUBSET Keys /\ \A k \in DOMAIN f : f[k] \in Values
    BY <2>1, VarsType DEF SyncMsg, Msg
  <2>3. /\ NetworkSync(c, f)
        /\ stale' = stale \cup ({c} \X (DOMAIN f \ Accepted(c, f)))
        /\ down' = [down EXCEPT ![c] = Tail(@)]
        /\ UNCHANGED <<proto, registered, phase, known, flushQ, support, hello, up,
                       saved, ops, loads>>
    BY <1>3 DEF ReceiveFromServer
  <2> HIDE DEF f
  <2>4. StoreInv' /\ CacheInv'
    BY <1>b, <2>2, <2>3, NetworkSyncStore
  <2>5. NetInv' /\ BaseInv'
    BY <2>1, <2>2, <2>3 DEF NetInv, BaseInv
  <2> QED
    BY <2>4, <2>5
<1>4. ASSUME ReceiveFromClient(c) PROVE IInv'
  <2> DEFINE f    == Head(up[c]).vars
             A    == Accepted(Server, f)
             echo == {k \in A : NeedsRebroadcast(k, Server) /\ SyncsNow(Server, k)}
             out  == Deliverable(Server, echo)
  <2>1. /\ Head(up[c]) \in Msg
        /\ [up EXCEPT ![c] = Tail(@)] \in [Clients -> Seq(Msg)]
    BY <1>4, ChannelType DEF ReceiveFromClient, NetInv
  <2>2. DOMAIN f \in SUBSET Keys /\ \A k \in DOMAIN f : f[k] \in Values
    BY <1>4, <2>1, VarsType DEF ReceiveFromClient
  <2>3. /\ NetworkSync(Server, f)
        /\ Broadcast([k \in out |-> f[k]])
        /\ stale' = (stale \ (hello \X out)) \cup ((Clients \ hello) \X echo)
                      \cup (Clients \X (echo \ out)) \cup ({c} \X (DOMAIN f \ A))
        /\ up' = [up EXCEPT ![c] = Tail(@)]
        /\ UNCHANGED <<proto, registered, phase, known, flushQ, support, hello,
                       saved, ops, loads>>
    BY <1>4 DEF ReceiveFromClient
  <2>4. /\ A \in SUBSET Keys /\ echo \in SUBSET Keys /\ out \in SUBSET Keys
        /\ \A k \in out : f[k] \in Values
    BY <2>2 DEF Accepted, Deliverable
  <2> HIDE DEF f, A, echo, out
  <2>5. StoreInv' /\ CacheInv'
    BY <1>b, <2>2, <2>3, NetworkSyncStore
  <2>6. down' \in [Clients -> Seq(SyncMsg)]
    BY <1>a, <2>3, <2>4, BroadcastType
  <2>7. NetInv' /\ BaseInv'
    BY <2>1, <2>2, <2>3, <2>4, <2>6 DEF NetInv, BaseInv
  <2> QED
    BY <2>5, <2>7
<1> QED
  BY <1>1, <1>2, <1>3, <1>4 DEF NetStep

\* Savegames. A save flushes the caches into the store; a restore replaces the store by
\* values that are dirty only if they are queued.
LEMMA SaveGameInv ==
  ASSUME IInv, SaveGame
  PROVE  IInv'
<1> DEFINE F == CachedWrites(Server)
           f == [k \in Keys |-> cache[Server][k].val]
<1>1. F \in SUBSET Keys /\ \A k \in F : f[k] \in Values
  BY CachedWritesType DEF IInv, Peers
<1>2. /\ FlushCache(Server) /\ SetDirty(Server, F, f)
      /\ saved' = [k \in Keys |-> IF k \in registered[Server] /\ Has(k, "Persistent")
                                  THEN store'[Server][k].val ELSE Absent]
      /\ UNCHANGED <<proto, registered, phase, known, support, hello, ops, loads>>
  BY DEF SaveGame
<1>3. Server \in Peers
  BY DEF Peers
<1> HIDE DEF F, f
<1>4. StoreInv'
  BY <1>1, <1>2, <1>3, SetDirtyStore DEF IInv
<1>5. CacheInv'
  BY <1>2, <1>3, FlushCacheInv DEF IInv
<1>6. NetInv'
  BY <1>1, <1>2, <1>3, SetDirtyNet
<1>7. BaseInv'
  <2>1. \A k \in Keys : store'[Server][k].val \in Values \cup {Absent}
    BY <1>3, <1>4 DEF StoreInv, Entry
  <2>2. saved' \in [Keys -> Values \cup {Absent}]
    BY <1>2, <2>1
  <2> QED
    BY <1>2, <2>2 DEF IInv, BaseInv
<1> QED
  BY <1>4, <1>5, <1>6, <1>7 DEF IInv

LEMMA LoadGameInv ==
  ASSUME IInv, LoadGame
  PROVE  IInv'
<1> DEFINE requeued == {k \in registered[Server] : saved[k] # Absent /\ NeedsSyncFor(k, Server)}
           row == [k \in Keys |-> [val |-> saved[k], dirty |-> k \in requeued]]
<1>1. /\ store' = [store EXCEPT ![Server] = row]
      /\ deferred' = [deferred EXCEPT ![Server] = @ \cup requeued]
      /\ stale' = stale \cup (Clients \X {k \in Keys \ requeued : store[Server][k].val # saved[k]})
      /\ UNCHANGED <<proto, registered, phase, known, cache, flushQ, nextTick, support, hello,
                     down, up, saved, ops, loads>>
  BY DEF LoadGame, net
<1>2. Server \in Peers /\ requeued \in SUBSET Keys
  BY DEF Peers, IInv, BaseInv
<1>3. row \in [Keys -> Entry]
  BY DEF IInv, BaseInv, Entry
<1>4. \A k \in Keys : row[k].dirty => row[k].val # Absent /\ k \in requeued
  OBVIOUS
<1> HIDE DEF row
<1>5. StoreInv'
  <2>1. store' \in [Peers -> [Keys -> Entry]]
    BY <1>1, <1>3 DEF IInv, StoreInv
  <2>2. deferred' \in [Peers -> SUBSET Keys] /\ nextTick' \in [Peers -> SUBSET Keys]
    BY <1>1, <1>2 DEF IInv, StoreInv
  <2>3. ASSUME NEW q \in Peers, NEW k \in Keys
        PROVE  /\ store'[q][k].dirty => store'[q][k].val # Absent
               /\ QueuedIfDirty(q, k)'
    <3>1. CASE q = Server
      <4>1. store'[q][k] = row[k] /\ requeued \subseteq Queued(q)'
        BY <1>1, <1>2, <3>1 DEF IInv, StoreInv, Queued
      <4> QED
        BY <1>4, <4>1 DEF QueuedIfDirty
    <3>2. CASE q # Server
      BY <1>1, <3>2 DEF IInv, StoreInv, QueuedIfDirty, Queued, NeedsSyncFor, Has
    <3> QED
      BY <3>1, <3>2
  <2> QED
    BY <2>1, <2>2, <2>3 DEF StoreInv
<1>6. CacheInv' /\ NetInv' /\ BaseInv'
  BY <1>1 DEF IInv, CacheInv, NetInv, BaseInv
<1> QED
  BY <1>5, <1>6 DEF IInv

\* Every step keeps the inductive invariant.
LEMMA StepInv == IInv /\ [Next]_vars => IInv'
<1> SUFFICES ASSUME IInv, [Next]_vars PROVE IInv'
  OBVIOUS
<1>1. ASSUME NEW p \in Peers, ScriptStep(p) PROVE IInv'
  BY <1>1, ScriptInv
<1>2. ASSUME NEW p \in Peers, OnUpdate(p) PROVE IInv'
  BY <1>2, OnUpdateInv
<1>3. ASSUME NEW p \in Peers, GameStep(p) PROVE IInv'
  BY <1>3, GameInv
<1>4. ASSUME NEW p \in Peers, NEW K \in Managers, SyncVariables(p, K) PROVE IInv'
  BY <1>4, SyncVariablesInv
<1>5. ASSUME NEW c \in Clients, NetStep(c) PROVE IInv'
  BY <1>5, NetStepInv
<1>6. ASSUME SaveGame PROVE IInv'
  BY <1>6, SaveGameInv
<1>7. ASSUME LoadGame PROVE IInv'
  BY <1>7, LoadGameInv
<1>8. ASSUME UNCHANGED vars PROVE IInv'
  BY <1>8 DEF vars, local, net, IInv, StoreInv, CacheInv, NetInv, BaseInv, QueuedIfDirty,
              Queued, NeedsSyncFor, Has
<1> QED
  BY <1>1, <1>2, <1>3, <1>4, <1>5, <1>6, <1>7, <1>8 DEF Next

\* The inductive invariant holds throughout.
LEMMA Invariance == Spec => []IInv
BY InitInv, StepInv, PTL DEF Spec

\* The state is well-typed: in particular no message that any peer sends is empty or
\* carries a value that is not there.
THEOREM Types == Spec => []TypeOK
<1>1. IInv => TypeOK
  BY Parts
<1> QED
  BY <1>1, Invariance, PTL

\* No dirty value waits outside the queue that will flush it, on any peer.
THEOREM NoWriteForgotten == Spec => []NothingForgotten
<1>1. IInv => NothingForgotten
  BY Parts
<1> QED
  BY <1>1, Invariance, PTL

-----------------------------------------------------------------------------
(* The caches never lie. An update from the other side drops a cached copy only if  *)
(* the prototype says the variable is cached, so the inductive invariant needs that *)
(* uncached variables are never in a cache.                                         *)

NeverCached(p, k) == Has(k, "DontCache") => cache[p][k].val = Absent

CoherentAt(p, k) ==
  phase[p] # "LoadSession" /\ cache[p][k].val # Absent /\ ~cache[p][k].dirty
    => cache[p][k].val = store[p][k].val

Coherence == \A p \in Peers : \A k \in Keys : NeverCached(p, k) /\ CoherentAt(p, k)

\* Setting the values f of K at p, when the cache already has them or has no entry.
LEMMA SetDirtyCoherent ==
  ASSUME IInv, Coherence, NEW p \in Peers, NEW K \in SUBSET Keys, NEW f,
         SetDirty(p, K, f), UNCHANGED <<proto, phase>>,
         \A q \in Peers : \A k \in Keys :
           \/ cache'[q][k] = cache[q][k] /\ (q = p /\ k \in K => cache[q][k].val = Absent)
           \/ cache'[q][k] = cache[q][k] /\ (q = p /\ k \in K => f[k] = store[q][k].val)
           \/ q = p /\ k \in K /\ ~Has(k, "DontCache") /\ cache'[q][k].val = f[k]
  PROVE  Coherence'
<1>1. store' = [store EXCEPT ![p] =
         [k \in Keys |-> IF k \in K THEN [val |-> f[k], dirty |-> TRUE] ELSE store[p][k]]]
  BY DEF SetDirty
<1>2. ASSUME NEW q \in Peers, NEW k \in Keys
      PROVE  NeverCached(q, k)' /\ CoherentAt(q, k)'
  <2>1. store'[q][k].val = IF q = p /\ k \in K THEN f[k] ELSE store[q][k].val
    BY <1>1 DEF IInv, StoreInv
  <2>2. CASE cache'[q][k] = cache[q][k] /\ (q = p /\ k \in K =>
               cache[q][k].val = Absent \/ f[k] = store[q][k].val)
    BY <2>1, <2>2 DEF Coherence, NeverCached, CoherentAt, Has
  <2>3. CASE q = p /\ k \in K /\ ~Has(k, "DontCache") /\ cache'[q][k].val = f[k]
    BY <2>1, <2>3 DEF NeverCached, CoherentAt, Has
  <2> QED
    BY <2>2, <2>3
<1> QED
  BY <1>2 DEF Coherence

\* Flushing the cache of p changes no value in it.
LEMMA FlushCacheVals ==
  ASSUME CacheInv, NEW p \in Peers, FlushCache(p), NEW q \in Peers, NEW k \in Keys
  PROVE  /\ cache'[q][k].val = cache[q][k].val
         /\ q # p \/ k \notin CachedWrites(p) => cache'[q][k] = cache[q][k]
<1> DEFINE row == [x \in Keys |-> IF x \in CachedWrites(p) THEN [cache[p][x] EXCEPT !.dirty = FALSE]
                                                            ELSE cache[p][x]]
<1>1. cache' = [cache EXCEPT ![p] = row]
  BY DEF FlushCache, CacheInv
<1>2. row[k].val = cache[p][k].val
  BY DEF CacheInv, Entry
<1>3. k \notin CachedWrites(p) => row[k] = cache[p][k]
  OBVIOUS
<1> HIDE DEF row
<1> QED
  BY <1>1, <1>2, <1>3 DEF CacheInv

\* Dropping the cache of p cannot make any cache lie.
LEMMA DropCacheCoherent ==
  ASSUME IInv, Coherence, NEW p \in Peers, DropCache(p), UNCHANGED proto,
         \A q \in Peers : q # p => phase'[q] = phase[q] /\ store'[q] = store[q]
  PROVE  Coherence'
<1>1. ASSUME NEW q \in Peers, NEW k \in Keys
      PROVE  NeverCached(q, k)' /\ CoherentAt(q, k)'
  <2>1. CASE q = p
    <3>1. cache'[q][k].val = Absent
      BY <2>1 DEF DropCache, IInv, CacheInv, NoVars, NoEntry
    <3> QED
      BY <3>1 DEF NeverCached, CoherentAt
  <2>2. CASE q # p
    <3>1. cache'[q] = cache[q]
      BY <2>2 DEF DropCache, IInv, CacheInv
    <3> QED
      BY <2>2, <3>1 DEF Coherence, NeverCached, CoherentAt, Has
  <2> QED
    BY <2>1, <2>2
<1> QED
  BY <1>1 DEF Coherence

\* The writer's flush stores what was cached, and changes no other value.
LEMMA FlushSyncVals ==
  ASSUME IInv, NEW p \in Peers, NEW F \in SUBSET Keys, NEW K \in SUBSET Keys,
         FlushSync(p, F, K), NEW q \in Peers, NEW k \in Keys
  PROVE  store'[q][k].val = IF q = p /\ k \in F THEN cache[p][k].val ELSE store[q][k].val
<1> DEFINE merged  == [x \in Keys |-> IF x \in F THEN [val |-> cache[p][x].val, dirty |-> TRUE]
                                                 ELSE store[p][x]]
<1>1. PICK flushed : store' = [store EXCEPT ![p] =
          [x \in Keys |-> [val |-> merged[x].val, dirty |-> merged[x].dirty /\ x \notin flushed]]]
  BY DEF FlushSync
<1>2. merged[k].val = IF k \in F THEN cache[p][k].val ELSE store[p][k].val
  OBVIOUS
<1> HIDE DEF merged
<1> QED
  BY <1>1, <1>2 DEF IInv, StoreInv

\* An update from the other side drops the cached copy of what it stores.
LEMMA NetworkSyncCoherent ==
  ASSUME IInv, Coherence, NEW p \in Peers, NEW f, NetworkSync(p, f), UNCHANGED <<proto, phase>>
  PROVE  Coherence'
<1> DEFINE A == Accepted(p, f)
           row == [k \in Keys |-> IF k \in A THEN [val |-> f[k], dirty |-> NeedsRebroadcast(k, p)]
                                             ELSE store[p][k]]
           kept == [k \in Keys |-> IF k \in A /\ ~Has(k, "DontCache") THEN NoEntry ELSE cache[p][k]]
<1>1. store' = [store EXCEPT ![p] = row] /\ cache' = [cache EXCEPT ![p] = kept]
  BY DEF NetworkSync, Invalidate, IInv, CacheInv
<1>2. ASSUME NEW q \in Peers, NEW k \in Keys
      PROVE  NeverCached(q, k)' /\ CoherentAt(q, k)'
  <2>1. CASE q = p /\ k \in A
    <3>1. cache'[q][k].val = Absent
      BY <1>1, <2>1 DEF Coherence, NeverCached, NoEntry, IInv, CacheInv
    <3> QED
      BY <3>1 DEF NeverCached, CoherentAt
  <2>2. CASE q # p \/ k \notin A
    <3>1. cache'[q][k] = cache[q][k] /\ store'[q][k] = store[q][k]
      BY <1>1, <2>2 DEF IInv, CacheInv, StoreInv
    <3> QED
      BY <3>1 DEF Coherence, NeverCached, CoherentAt, Has
  <2> QED
    BY <2>1, <2>2
<1> QED
  BY <1>2 DEF Coherence

\* No step makes a clean cached copy differ from the store.
LEMMA StepCoherent == IInv /\ Coherence /\ [Next]_vars => Coherence'
<1> SUFFICES ASSUME IInv, Coherence, [Next]_vars PROVE Coherence'
  OBVIOUS
<1> USE DEF Coherence, NeverCached, CoherentAt, Has
<1>1. ASSUME NEW p \in Peers, ScriptStep(p) PROVE Coherence'
  <2>1. ASSUME NEW k \in Keys, RegisterPrototype(p, k) PROVE Coherence'
    BY <2>1 DEF RegisterPrototype, local
  <2>2. ASSUME NEW k \in Keys, Push(p, k) PROVE Coherence'
    BY <2>2 DEF Push, IInv, CacheInv
  <2>3. ASSUME NEW k \in Keys, MarkDirty(p, k) PROVE Coherence'
    <3> DEFINE f == [x \in {k} |-> store[p][k].val]
    <3>1. f[k] = store[p][k].val
      OBVIOUS
    <3>2. /\ SetDirty(p, {k}, f)
          /\ UNCHANGED <<proto, phase, cache>>
      BY <2>3 DEF MarkDirty
    <3> HIDE DEF f, Coherence, NeverCached, CoherentAt, Has
    <3> QED
      BY <3>1, <3>2, SetDirtyCoherent
  <2>4. ASSUME NEW k \in Keys, NEW v \in Values, Set(p, k, v) PROVE Coherence'
    <3> DEFINE f == [x \in {k} |-> v]
    <3>1. f[k] = v /\ UNCHANGED <<proto, phase>>
      BY <2>4 DEF Set
    <3>2. CASE SetUncached(p, k, v)
      <4>1. SetDirty(p, {k}, f) /\ cache' = cache /\ cache[p][k].val = Absent
        BY <3>2 DEF SetUncached
      <4> HIDE DEF f, Coherence, NeverCached, CoherentAt, Has
      <4> QED
        BY <3>1, <4>1, SetDirtyCoherent
    <3>3. CASE SetCached(p, k, v)
      <4>1. PICK changed \in {TRUE, cache[p][k].val # v} :
              LET was   == cache[p][k].dirty
                  dirty == was \/ changed
                  now   == dirty /\ SyncsNow(p, k)
              IN /\ cache' = [cache EXCEPT ![p][k] = [val |-> v, dirty |-> dirty /\ ~now]]
                 /\ IF now THEN SetDirty(p, {k}, f)
                           ELSE UNCHANGED <<store, deferred, nextTick, down, up, stale>>
        BY <3>3 DEF SetCached
      <4> DEFINE dirty == cache[p][k].dirty \/ changed
                 now == dirty /\ SyncsNow(p, k)
      <4>2. cache' = [cache EXCEPT ![p][k] = [val |-> v, dirty |-> dirty /\ ~now]]
        BY <4>1
      <4>3. ~Has(k, "DontCache")
        BY <3>3 DEF SetCached
      <4>4. cache'[p][k].val = v
        BY <4>2 DEF IInv, CacheInv
      <4>5. \A q \in Peers : \A x \in Keys : q # p \/ x # k => cache'[q][x] = cache[q][x]
        BY <4>2 DEF IInv, CacheInv
      <4>6. CASE now
        <5>1. SetDirty(p, {k}, f)
          BY <4>1, <4>6
        <5> HIDE DEF f, Coherence, NeverCached, CoherentAt, Has
        <5> QED
          BY <3>1, <4>3, <4>4, <4>5, <5>1, SetDirtyCoherent
      <4>7. CASE ~now
        <5>1. store' = store
          BY <4>1, <4>7
        <5>2. cache'[p][k].dirty = dirty
          <6> HIDE DEF dirty
          <6>1. cache'[p][k] = [val |-> v, dirty |-> dirty /\ ~now]
            BY <4>2 DEF IInv, CacheInv
          <6>2. (dirty /\ ~now) = dirty
            <7>1. dirty \in BOOLEAN
              BY DEF dirty
            <7> QED
              BY <4>7, <7>1
          <6> QED
            BY <6>1, <6>2
        <5>3. ~dirty => cache[p][k].val = v /\ ~cache[p][k].dirty
          OBVIOUS
        <5> HIDE DEF dirty
        <5>4. ASSUME NEW q \in Peers, NEW x \in Keys
              PROVE  NeverCached(q, x)' /\ CoherentAt(q, x)'
          <6>1. CASE q = p /\ x = k
            BY <3>1, <4>3, <4>4, <5>1, <5>2, <5>3, <6>1
          <6>2. CASE q # p \/ x # k
            BY <3>1, <4>5, <5>1, <6>2
          <6> QED
            BY <6>1, <6>2
        <5> QED
          BY <5>4
      <4> QED
        BY <4>6, <4>7
    <3> QED
      BY <2>4, <3>2, <3>3 DEF Set
  <2> QED
    BY <1>1, <2>1, <2>2, <2>3, <2>4 DEF ScriptStep
<1>2. ASSUME NEW p \in Peers, OnUpdate(p) PROVE Coherence'
  <2>1. FlushCache(p) /\ FlushSync(p, CachedWrites(p), Keys) /\ UNCHANGED <<proto, phase>>
    BY <1>2 DEF OnUpdate
  <2>2. CachedWrites(p) \in SUBSET Keys
    BY CachedWritesType DEF IInv
  <2>3. ASSUME NEW q \in Peers, NEW k \in Keys
        PROVE  NeverCached(q, k)' /\ CoherentAt(q, k)'
    <3>1. store'[q][k].val = IF q = p /\ k \in CachedWrites(p) THEN cache[p][k].val
                                                             ELSE store[q][k].val
      BY <2>1, <2>2, FlushSyncVals
    <3>2. /\ cache'[q][k].val = cache[q][k].val
          /\ q # p \/ k \notin CachedWrites(p) => cache'[q][k] = cache[q][k]
      BY <2>1, FlushCacheVals DEF IInv
    <3> QED
      BY <2>1, <3>1, <3>2
  <2> QED
    BY <2>3
<1>3. ASSUME NEW p \in Peers, GameStep(p) PROVE Coherence'
  <2>1. ASSUME EnterLoadLevel(p) PROVE Coherence'
    <3>1. DropCache(p) /\ UNCHANGED <<proto, store>> /\ phase' = [phase EXCEPT ![p] = "LoadLevel"]
      BY <2>1 DEF EnterLoadLevel
    <3> HIDE DEF Coherence, NeverCached, CoherentAt, Has
    <3> QED
      BY <3>1, DropCacheCoherent DEF IInv, BaseInv
  <2>2. ASSUME EnterRunning(p) PROVE Coherence'
    BY <2>2 DEF EnterRunning, local, IInv, BaseInv
  <2>3. ASSUME ObjectAppears(p) PROVE Coherence'
    BY <2>3 DEF ObjectAppears, local
  <2>4. ASSUME NewSession(p) PROVE Coherence'
    <3>1. /\ DropCache(p) /\ proto' = proto
          /\ phase' = [phase EXCEPT ![p] = "LoadSession"]
          /\ store' = [store EXCEPT ![p] = NoVars]
      BY <2>4 DEF NewSession
    <3> HIDE DEF Coherence, NeverCached, CoherentAt, Has
    <3> QED
      BY <3>1, DropCacheCoherent DEF IInv, BaseInv, StoreInv
  <2>5. ASSUME LuaReset(p) PROVE Coherence'
    <3>1. DropCache(p) /\ UNCHANGED <<proto, phase, store>>
      BY <2>5 DEF LuaReset
    <3> HIDE DEF Coherence, NeverCached, CoherentAt, Has
    <3> QED
      BY <3>1, DropCacheCoherent
  <2> QED
    BY <1>3, <2>1, <2>2, <2>3, <2>4, <2>5 DEF GameStep
<1>4. ASSUME NEW p \in Peers, NEW K \in Managers, SyncVariables(p, K) PROVE Coherence'
  <2>1. FlushSync(p, {}, K) /\ UNCHANGED <<proto, phase, cache>> /\ K \in SUBSET Keys
    BY <1>4, UserVarsAssumption DEF SyncVariables, Managers
  <2>2. \A q \in Peers : \A k \in Keys : store'[q][k].val = store[q][k].val
    <3> DEFINE F == {}
    <3>1. FlushSync(p, F, K) /\ F \in SUBSET Keys /\ \A k : k \notin F
      BY <2>1
    <3> HIDE DEF F, Coherence, NeverCached, CoherentAt, Has
    <3> QED
      BY <2>1, <3>1, FlushSyncVals
  <2> QED
    BY <2>1, <2>2
<1>5. ASSUME NEW c \in Clients, NetStep(c) PROVE Coherence'
  <2>1. ASSUME OnAcceptMessage(c) PROVE Coherence'
    BY <2>1 DEF OnAcceptMessage, local
  <2>2. ASSUME ReceiveHello(c) PROVE Coherence'
    BY <2>2 DEF ReceiveHello, local
  <2>3. ASSUME ReceiveFromServer(c) PROVE Coherence'
    <3>1. c \in Peers /\ NetworkSync(c, Head(down[c]).vars) /\ UNCHANGED <<proto, phase>>
      BY <2>3 DEF ReceiveFromServer, Peers
    <3> HIDE DEF Coherence, NeverCached, CoherentAt, Has
    <3> QED
      BY <3>1, NetworkSyncCoherent
  <2>4. ASSUME ReceiveFromClient(c) PROVE Coherence'
    <3>1. Server \in Peers /\ NetworkSync(Server, Head(up[c]).vars) /\ UNCHANGED <<proto, phase>>
      BY <2>4 DEF ReceiveFromClient, Peers
    <3> HIDE DEF Coherence, NeverCached, CoherentAt, Has
    <3> QED
      BY <3>1, NetworkSyncCoherent
  <2> QED
    BY <1>5, <2>1, <2>2, <2>3, <2>4 DEF NetStep
<1>6. ASSUME SaveGame PROVE Coherence'
  <2> DEFINE F == CachedWrites(Server)
             f == [k \in Keys |-> cache[Server][k].val]
  <2>1. /\ FlushCache(Server) /\ SetDirty(Server, F, f)
        /\ UNCHANGED <<proto, phase>> /\ Server \in Peers
    BY <1>6 DEF SaveGame, Peers
  <2>2. F \in SUBSET Keys
    BY <2>1, CachedWritesType DEF IInv
  <2>3. \A k \in F : cache[Server][k].val # Absent
    BY <2>1, <2>2 DEF CachedWrites, IInv, CacheInv
  <2>4. ASSUME NEW q \in Peers, NEW k \in Keys
        PROVE  \/ cache'[q][k] = cache[q][k] /\ (q = Server /\ k \in F => cache[q][k].val = Absent)
               \/ q = Server /\ k \in F /\ ~Has(k, "DontCache") /\ cache'[q][k].val = f[k]
    <3>1. /\ cache'[q][k].val = cache[q][k].val
          /\ q # Server \/ k \notin F => cache'[q][k] = cache[q][k]
      BY <2>1, FlushCacheVals DEF IInv
    <3>2. k \in F => ~Has(k, "DontCache")
      BY <2>1, <2>3
    <3> QED
      BY <3>1, <3>2
  <2> HIDE DEF F, f, Coherence, NeverCached, CoherentAt, Has
  <2> QED
    BY <2>1, <2>2, <2>4, SetDirtyCoherent
<1>7. ASSUME LoadGame PROVE Coherence'
  <2>1. /\ phase[Server] = "LoadSession" /\ UNCHANGED <<proto, phase, cache>>
        /\ \A q \in Peers : q # Server => store'[q] = store[q]
    BY <1>7 DEF LoadGame, IInv, StoreInv
  <2> QED
    BY <2>1
<1>8. ASSUME UNCHANGED vars PROVE Coherence'
  BY <1>8 DEF vars, local
<1> QED
  BY <1>1, <1>2, <1>3, <1>4, <1>5, <1>6, <1>7, <1>8 DEF Next

\* From the moment a level is entered, a clean cached value is the stored one, on every
\* peer, through network updates, flushes, saves, Lua resets and level swaps.
THEOREM CachesNeverLie == Spec => []CacheCoherent
<1>1. Init => Coherence
  BY DEF Init, Coherence, NeverCached, CoherentAt, NoVars, NoEntry
<1>2. Coherence => CacheCoherent
  BY DEF Coherence, CoherentAt, CacheCoherent
<1> QED
  BY <1>1, <1>2, Invariance, StepCoherent, PTL DEF Spec

-----------------------------------------------------------------------------
(* Every value gets where it should.  The argument is about one client and *)
(* one variable; q is what is on its way from one to the other.            *)

NoneOf(q, k) == \A i \in DOMAIN q : k \notin VarsIn(q[i])

LastIs(q, k, v) ==
  \E i \in DOMAIN q : /\ k \in VarsIn(q[i]) /\ q[i].vars[k] = v
                      /\ \A j \in DOMAIN q : k \in VarsIn(q[j]) => j <= i

\* The next flush of p sends the variable.
Waiting(p, k) == store[p][k].dirty /\ k \in Queued(p)

\* The server's value is what c will end up with, or the server has it yet to send; or it
\* is a value of c that counts, and it has yet to reach the server, which sends it back.
Reaches(c, k) ==
  \/ Waiting(Server, k)
  \/ LastIs(down[c], k, store[Server][k].val)
  \/ /\ NoneOf(down[c], k)
     /\ Agrees(c, k) \/ Waiting(c, k) \/ ~NoneOf(up[c], k)

\* The variables this holds for: a host alone with its own client does not send anything
\* back (NeedsRebroadcast).
Synced(k) == ServerOwned(k) \/ (Shared(k) /\ Cardinality(Clients) > 1)

\* What only the server writes is never dirty in a client's cache, and never on its way from
\* there.
Untouched ==
  \A c \in Clients : \A k \in Keys : ServerOwned(k) =>
    ~cache[c][k].dirty /\ k \notin Queued(c) /\ NoneOf(up[c], k)

\* Only what was registered is dirty: a savegame queues a dirty variable again.
DirtyRegistered ==
  \A p \in Peers : \A k \in Keys :
    store[p][k].dirty \/ cache[p][k].dirty => k \in registered[p]

Arriving ==
  \A c \in Clients : \A k \in Keys : Synced(k) /\ <<c, k>> \notin stale => Reaches(c, k)

\* r has of k what q has, if anything.
Keeps(q, r, k) == /\ NoneOf(q, k) => NoneOf(r, k)
                  /\ \A v : LastIs(q, k, v) => LastIs(r, k, v)

\* p writes, and sends S: what it changes and does not send waits.
Writes(p, f, S) ==
  /\ S \in SUBSET Keys /\ Send(p, S, f)
  /\ \A k \in S : f[k] = store'[p][k].val /\ f[k] \in Values
  /\ \A q \in Peers \ {p} : store'[q] = store[q] /\ Queued(q)' = Queued(q)
  /\ \A k \in Keys : k \notin S =>
       /\ Waiting(p, k) => Waiting(p, k)'
       /\ store'[p][k].val = store[p][k].val \/ Waiting(p, k)' \/ ~NeedsSyncFor(k, p)
  /\ \A k \in Keys : ~NeedsSyncFor(k, p) /\ k \notin Queued(p) =>
       k \notin S /\ k \notin Queued(p)'

-----------------------------------------------------------------------------
(* What a channel has of a variable.                                       *)

\* A message is added.
LEMMA Appending ==
  ASSUME NEW S, NEW q \in Seq(S), NEW m \in S, NEW k
  PROVE  /\ k \in VarsIn(m) => LastIs(Append(q, m), k, m.vars[k])
         /\ k \notin VarsIn(m) => Keeps(q, Append(q, m), k)
         /\ NoneOf(Append(q, m), k) <=> NoneOf(q, k) /\ k \notin VarsIn(m)
<1> DEFINE r == Append(q, m)
           n == Len(q)
<1>1. /\ n \in Nat /\ DOMAIN q = 1 .. n /\ DOMAIN r = 1 .. n + 1 /\ r[n + 1] = m
      /\ \A i \in 1 .. n : r[i] = q[i]
  OBVIOUS
<1> HIDE DEF r, n
<1>2. k \in VarsIn(m) => LastIs(r, k, m.vars[k])
  BY <1>1 DEF LastIs
<1>3. k \notin VarsIn(m) => Keeps(q, r, k)
  BY <1>1 DEF LastIs, NoneOf, Keeps
<1>4. NoneOf(r, k) <=> NoneOf(q, k) /\ k \notin VarsIn(m)
  BY <1>1 DEF NoneOf
<1> QED
  BY <1>2, <1>3, <1>4 DEF r

\* A message is taken.
LEMMA Taking ==
  ASSUME NEW S, NEW q \in Seq(S), q # <<>>, NEW k
  PROVE  /\ k \notin VarsIn(Head(q)) => Keeps(q, Tail(q), k)
         /\ NoneOf(q, k) <=> NoneOf(Tail(q), k) /\ k \notin VarsIn(Head(q))
         /\ \A v : LastIs(q, k, v) => \/ LastIs(Tail(q), k, v)
                                      \/ NoneOf(Tail(q), k) /\ Head(q).vars[k] = v
<1> DEFINE r == Tail(q)
           n == Len(q)
<1>1. /\ n \in Nat /\ n >= 1 /\ DOMAIN q = 1 .. n /\ DOMAIN r = 1 .. n - 1 /\ Head(q) = q[1]
      /\ \A i \in 1 .. n - 1 : r[i] = q[i + 1]
  OBVIOUS
<1> HIDE DEF r, n
<1>2. NoneOf(q, k) <=> NoneOf(r, k) /\ k \notin VarsIn(Head(q))
  <2>1. \A i \in 1 .. n : i = 1 \/ (i - 1 \in 1 .. n - 1 /\ q[i] = r[i - 1])
    BY <1>1
  <2>2. NoneOf(q, k) => NoneOf(r, k) /\ k \notin VarsIn(Head(q))
    BY <1>1 DEF NoneOf
  <2>3. ASSUME NoneOf(r, k), k \notin VarsIn(Head(q)), NEW i \in 1 .. n
        PROVE  k \notin VarsIn(q[i])
    BY <1>1, <2>1, <2>3 DEF NoneOf
  <2> QED
    BY <1>1, <2>2, <2>3 DEF NoneOf
<1>3. ASSUME NEW v, LastIs(q, k, v)
      PROVE  LastIs(r, k, v) \/ (NoneOf(r, k) /\ Head(q).vars[k] = v)
  <2>1. PICK i \in 1 .. n : /\ k \in VarsIn(q[i]) /\ q[i].vars[k] = v
                            /\ \A j \in 1 .. n : k \in VarsIn(q[j]) => j <= i
    BY <1>1, <1>3 DEF LastIs
  <2>2. CASE i = 1
    BY <1>1, <2>1, <2>2 DEF NoneOf
  <2>3. CASE i # 1
    <3>1. i - 1 \in 1 .. n - 1 /\ r[i - 1] = q[i]
      BY <1>1, <2>3
    <3>2. \A j \in 1 .. n - 1 : k \in VarsIn(r[j]) => j <= i - 1
      BY <1>1, <2>1
    <3> QED
      BY <1>1, <2>1, <3>1, <3>2 DEF LastIs
  <2> QED
    BY <2>2, <2>3
<1>4. k \notin VarsIn(Head(q)) => Keeps(q, r, k)
  <2>1. ASSUME NEW v, LastIs(q, k, v), k \notin VarsIn(Head(q))
        PROVE  LastIs(r, k, v)
    BY <1>1, <1>2, <1>3, <2>1 DEF LastIs, NoneOf
  <2> QED
    BY <1>2, <2>1 DEF Keeps
<1> QED
  BY <1>2, <1>3, <1>4 DEF r

\* The value at the end of a channel is what LastFor says.
LEMMA Last ==
  ASSUME NEW c \in Clients, NEW k \in Keys, down[c] \in Seq(SyncMsg)
  PROVE  /\ NoneOf(down[c], k) => LastFor(c, k) = store[c][k].val
         /\ \A v : LastIs(down[c], k, v) => LastFor(c, k) = v
<1> DEFINE I == {i \in 1 .. Len(down[c]) : k \in VarsIn(down[c][i])}
<1>1. DOMAIN down[c] = 1 .. Len(down[c])
  OBVIOUS
<1>2. NoneOf(down[c], k) => LastFor(c, k) = store[c][k].val
  BY <1>1 DEF NoneOf, LastFor
<1>3. ASSUME NEW v, LastIs(down[c], k, v)
      PROVE  LastFor(c, k) = v
  <2>1. PICK i \in I : down[c][i].vars[k] = v /\ \A j \in I : j <= i
    BY <1>1, <1>3 DEF LastIs
  <2>2. (CHOOSE x \in I : \A j \in I : j <= x) = i
    <3>1. \A x \in I : (\A j \in I : j <= x) => x = i
      BY <2>1
    <3> QED
      BY <2>1, <3>1
  <2> QED
    BY <2>1, <2>2 DEF LastFor
<1> QED
  BY <1>2, <1>3

\* What the server sends gets to the peers that said hello.
LEMMA BroadcastTo ==
  ASSUME NetInv, NEW K \in SUBSET Keys, NEW f, \A k \in K : f[k] \in Values,
         Broadcast([k \in K |-> f[k]]), NEW c \in Clients, NEW k \in Keys
  PROVE  /\ k \in K /\ c \in hello => LastIs(down[c]', k, f[k])
         /\ k \notin K \/ c \notin hello => Keeps(down[c], down[c]', k)
<1>1. CASE K = {} \/ c \notin hello
  <2>1. down'[c] = down[c]
    BY <1>1 DEF Broadcast, NetInv
  <2> QED
    BY <1>1, <2>1 DEF Keeps
<1>2. CASE K # {} /\ c \in hello
  <2> DEFINE m == VarsMsg([x \in K |-> f[x]])
  <2>1. m \in SyncMsg /\ VarsIn(m) = K /\ \A x \in K : m.vars[x] = f[x]
    <3>1. m \in SyncMsg
      BY <1>2, BundleType
    <3> QED
      BY <3>1 DEF VarsMsg, VarsIn
  <2>2. down'[c] = Append(down[c], m) /\ down[c] \in Seq(SyncMsg)
    BY <1>2 DEF Broadcast, NetInv
  <2> HIDE DEF m
  <2> QED
    BY <1>2, <2>1, <2>2, Appending
<1> QED
  BY <1>1, <1>2

\* What a client sends gets to the server.
LEMMA SendUp ==
  ASSUME NetInv, NEW d \in Clients, NEW K \in SUBSET Keys, NEW f, \A k \in K : f[k] \in Values,
         SendFromClient(d, K, f), NEW c \in Clients, NEW k \in Keys
  PROVE  /\ c # d \/ k \notin K => (<<c, k>> \in stale' <=> <<c, k>> \in stale)
         /\ c # d \/ k \notin K => (NoneOf(up[c]', k) <=> NoneOf(up[c], k))
         /\ c = d /\ k \in K => <<c, k>> \in stale' \/ ~NoneOf(up[c]', k)
         /\ <<c, k>> \in stale => <<c, k>> \in stale'
<1> DEFINE sent == IF MakeSyncMessage(d) THEN Deliverable(d, K) ELSE {}
           m == VarsMsg([x \in sent |-> f[x]])
<1>1. sent \in SUBSET K /\ stale' = stale \cup ({d} \X (K \ sent))
  BY DEF SendFromClient, Deliverable
<1>2. up' = IF sent = {} THEN up ELSE [up EXCEPT ![d] = Append(@, m)]
  BY DEF SendFromClient
<1>3. sent # {} => m \in Msg /\ VarsIn(m) = sent
  <2> HIDE DEF sent
  <2>1. sent # {} => m \in Msg
    BY <1>1, BundleType DEF Msg
  <2> QED
    BY <2>1 DEF VarsMsg, VarsIn
<1>4. up[c] \in Seq(Msg) /\ up \in [Clients -> Seq(Msg)]
  BY DEF NetInv
<1> HIDE DEF sent, m
<1>5. CASE c # d \/ sent = {}
  BY <1>1, <1>2, <1>4, <1>5
<1>6. CASE c = d /\ sent # {}
  <2>1. up'[c] = Append(up[c], m)
    BY <1>2, <1>4, <1>6
  <2>2. NoneOf(up'[c], k) <=> NoneOf(up[c], k) /\ k \notin sent
    BY <1>3, <1>4, <1>6, <2>1, Appending
  <2> QED
    BY <1>1, <1>6, <2>2
<1> QED
  BY <1>5, <1>6

-----------------------------------------------------------------------------
(* What a write does, at the write itself or by a flush.                   *)

\* Setting values dirty: what is not sent waits.
LEMMA SetDirtyWrites ==
  ASSUME IInv, NEW p \in Peers, NEW K \in SUBSET Keys, NEW f, \A k \in K : f[k] \in Values,
         SetDirty(p, K, f), UNCHANGED proto
  PROVE  Writes(p, f, {k \in K : SyncsNow(p, k)})
<1> DEFINE S == {k \in K : SyncsNow(p, k)}
<1>1. store' = [store EXCEPT ![p] =
         [k \in Keys |-> IF k \in K THEN [val |-> f[k], dirty |-> TRUE] ELSE store[p][k]]]
  BY DEF SetDirty
<1>2. /\ deferred' = [deferred EXCEPT ![p] = @ \cup {k \in K : SyncsDeferred(p, k)}]
      /\ nextTick' = [nextTick EXCEPT ![p] = @ \cup {k \in K : SyncsNextTick(p, k)}]
      /\ Send(p, S, f)
  BY DEF SetDirty, Requeue
<1>3. \A q \in Peers \ {p} : store'[q] = store[q] /\ Queued(q)' = Queued(q)
  BY <1>1, <1>2 DEF IInv, StoreInv, Queued
<1>4. Queued(p)' = Queued(p) \cup {k \in K : SyncsDeferred(p, k) \/ SyncsNextTick(p, k)}
  BY <1>2 DEF IInv, StoreInv, Queued
<1>5. \A k \in Keys :
        /\ k \in K => store'[p][k].val = f[k] /\ store'[p][k].dirty = TRUE
        /\ k \notin K => store'[p][k] = store[p][k]
  BY <1>1 DEF IInv, StoreInv
<1>6. \A k \in S : f[k] = store'[p][k].val /\ f[k] \in Values
  BY <1>5
<1>7. ASSUME NEW k \in Keys, k \notin S
      PROVE  /\ Waiting(p, k) => Waiting(p, k)'
             /\ store'[p][k].val = store[p][k].val \/ Waiting(p, k)' \/ ~NeedsSyncFor(k, p)
  <2>1. CASE k \notin K
    BY <1>4, <1>5, <2>1 DEF Waiting
  <2>2. CASE k \in K
    <3>1. store'[p][k].dirty = TRUE
      BY <1>5, <2>2
    <3>2. NeedsSyncFor(k, p) => k \in Queued(p)'
      BY <1>4, <1>7, <2>2 DEF SyncsNow, SyncsDeferred, SyncsNextTick
    <3> QED
      BY <1>4, <3>1, <3>2 DEF Waiting
  <2> QED
    BY <2>1, <2>2
<1>8. \A k \in Keys : ~NeedsSyncFor(k, p) /\ k \notin Queued(p) => k \notin S /\ k \notin Queued(p)'
  BY <1>4 DEF SyncsNow, SyncsDeferred, SyncsNextTick
<1>9. S \in SUBSET Keys
  OBVIOUS
<1> HIDE DEF S
<1>10. Writes(p, f, S)
  BY <1>2, <1>3, <1>6, <1>7, <1>8, <1>9 DEF Writes
<1> QED
  BY <1>10 DEF S

\* A flush: what it turns away still waits.
LEMMA FlushWrites ==
  ASSUME IInv, NEW p \in Peers, NEW F \in SUBSET Keys, NEW K \in SUBSET Keys,
         \A k \in F : cache[p][k].val \in Values, FlushSync(p, F, K), UNCHANGED proto
  PROVE  \E f, S : Writes(p, f, S)
<1> DEFINE merged  == [k \in Keys |-> IF k \in F THEN [val |-> cache[p][k].val, dirty |-> TRUE]
                                                 ELSE store[p][k]]
           open    == MaySync(p) /\ MakeSyncMessage(p)
           slow    == deferred[p] \cup {k \in F : SyncsDeferred(p, k)}
           quick   == nextTick[p] \cup {k \in F : SyncsNextTick(p, k)}
           queued  == K \cap Drained(slow, quick)
           flushed == IF open THEN {k \in queued : merged[k].dirty} ELSE {}
           f       == [k \in Keys |-> merged[k].val]
           S       == flushed \cup {k \in F : SyncsNow(p, k)}
           row     == [k \in Keys |-> [val |-> merged[k].val,
                                       dirty |-> merged[k].dirty /\ k \notin flushed]]
<1>1. /\ store' = [store EXCEPT ![p] = row]
      /\ deferred' = [deferred EXCEPT ![p] = Remaining(open, slow, K)]
      /\ nextTick' = [nextTick EXCEPT ![p] = Remaining(open, quick, K)]
      /\ Send(p, S, f)
  BY DEF FlushSync
<1>2. \A k \in Keys :
        /\ k \in F => merged[k].val = cache[p][k].val /\ merged[k].dirty = TRUE
        /\ k \notin F => merged[k] = store[p][k]
  OBVIOUS
<1>3. \A k \in Keys : merged[k].dirty \in BOOLEAN /\ (merged[k].dirty => merged[k].val \in Values)
  BY <1>2 DEF IInv, StoreInv, Entry
<1>4. slow \in SUBSET Keys /\ quick \in SUBSET Keys
  BY DEF IInv, StoreInv
<1>5. slow \cup quick = Queued(p) \cup {k \in F : SyncsDeferred(p, k) \/ SyncsNextTick(p, k)}
  BY DEF Queued
<1> HIDE DEF merged, open, slow, quick
<1>6. \A q \in Peers \ {p} : store'[q] = store[q] /\ Queued(q)' = Queued(q)
  BY <1>1 DEF IInv, StoreInv, Queued
<1>7. Queued(p)' = IF open THEN (slow \cup quick) \ K ELSE slow \cup quick
  BY <1>1 DEF IInv, StoreInv, Queued, Remaining
<1>8. \A k \in Keys : /\ store'[p][k].val = merged[k].val
                       /\ store'[p][k].dirty = (merged[k].dirty /\ k \notin flushed)
  BY <1>1 DEF IInv, StoreInv
<1>9. S \in SUBSET Keys /\ \A k \in S : f[k] = store'[p][k].val /\ f[k] \in Values
  BY <1>2, <1>3, <1>4, <1>8
<1>10. ASSUME NEW k \in Keys, k \notin S
       PROVE  /\ Waiting(p, k) => Waiting(p, k)'
              /\ store'[p][k].val = store[p][k].val \/ Waiting(p, k)' \/ ~NeedsSyncFor(k, p)
  <2>1. ASSUME merged[k].dirty, k \in slow \cup quick
        PROVE  Waiting(p, k)'
    <3>1. k \in Queued(p)'
      BY <1>7, <1>10, <2>1 DEF Drained
    <3>2. store'[p][k].dirty
      BY <1>8, <1>10, <2>1
    <3> QED
      BY <3>1, <3>2 DEF Waiting
  <2>2. Waiting(p, k) => merged[k].dirty /\ k \in slow \cup quick
    BY <1>2, <1>5 DEF Waiting
  <2>3. k \notin F => store'[p][k].val = store[p][k].val
    BY <1>2, <1>8
  <2>4. k \in F /\ NeedsSyncFor(k, p) => merged[k].dirty /\ k \in slow \cup quick
    BY <1>2, <1>5, <1>10 DEF SyncsNow, SyncsDeferred, SyncsNextTick
  <2> QED
    BY <2>1, <2>2, <2>3, <2>4
<1>11. \A k \in Keys :
         ~NeedsSyncFor(k, p) /\ k \notin Queued(p) => k \notin S /\ k \notin Queued(p)'
  BY <1>5, <1>7 DEF SyncsNow, SyncsDeferred, SyncsNextTick, Drained
<1> HIDE DEF S, f
<1> QED
  BY <1>1, <1>6, <1>9, <1>10, <1>11 DEF Writes

\* A write of the server reaches every client, or waits, or is discarded.
LEMMA ServerWrites ==
  ASSUME IInv, Arriving, NEW f, NEW S, Writes(Server, f, S), UNCHANGED <<proto, hello, known>>
  PROVE  Arriving'
<1> DEFINE sent == Deliverable(Server, S)
<1>1. /\ Broadcast([k \in sent |-> f[k]]) /\ up' = up
      /\ stale' = (stale \ (hello \X sent)) \cup (Clients \X (S \ sent))
                    \cup ((Clients \ hello) \X S)
  BY DEF Writes, Send, SendFromServer
<1>2. /\ sent \in SUBSET S /\ sent \in SUBSET Keys /\ NetInv
      /\ \A k \in sent : f[k] \in Values
  BY DEF Writes, Deliverable, IInv
<1> HIDE DEF sent
<1>3. ASSUME NEW c \in Clients, NEW k \in Keys, Synced(k)', <<c, k>> \notin stale'
      PROVE  Reaches(c, k)'
  <2>1. Synced(k) /\ NeedsSyncFor(k, Server)
    BY <1>3 DEF Synced, ServerOwned, Shared, NeedsSyncFor, Has
  <2>2. store'[c] = store[c] /\ Queued(c)' = Queued(c)
    BY UserVarsAssumption DEF Writes, Peers
  <2>3. CASE k \in S
    <3>1. k \in sent /\ c \in hello
      BY <1>1, <1>3, <2>3
    <3>2. LastIs(down[c]', k, f[k])
      BY <1>1, <1>2, <3>1, BroadcastTo
    <3>3. f[k] = store'[Server][k].val
      BY <2>3 DEF Writes
    <3> QED
      BY <3>2, <3>3 DEF Reaches
  <2>4. CASE k \notin S
    <3>1. /\ Waiting(Server, k) => Waiting(Server, k)'
          /\ store'[Server][k].val = store[Server][k].val \/ Waiting(Server, k)'
      BY <2>1, <2>4 DEF Writes
    <3>2. Keeps(down[c], down[c]', k)
      BY <1>1, <1>2, <2>4, BroadcastTo
    <3>3. <<c, k>> \notin stale
      BY <1>1, <1>2, <1>3, <2>4
    <3>4. Reaches(c, k)
      BY <2>1, <3>3 DEF Arriving
    <3> QED
      BY <1>1, <2>2, <3>1, <3>2, <3>4 DEF Reaches, Keeps, Agrees, Waiting
  <2> QED
    BY <2>3, <2>4
<1> QED
  BY <1>3 DEF Arriving

\* A write of a client is on its way to the server, or waits, or is discarded.
LEMMA ClientWrites ==
  ASSUME IInv, Arriving, NEW d \in Clients, NEW f, NEW S, Writes(d, f, S), UNCHANGED proto,
         \A k \in Keys : ServerOwned(k) => store'[d][k].val = store[d][k].val
  PROVE  Arriving'
<1>1. d \in Peers /\ Server \in Peers /\ d # Server
  BY UserVarsAssumption DEF Peers
<1>2. /\ down' = down /\ SendFromClient(d, S, f) /\ S \in SUBSET Keys /\ NetInv
      /\ \A k \in S : f[k] \in Values
  BY <1>1 DEF Writes, Send, IInv
<1>3. store'[Server] = store[Server] /\ Queued(Server)' = Queued(Server)
  BY <1>1 DEF Writes
<1>4. ASSUME NEW c \in Clients, NEW k \in Keys, Synced(k)', <<c, k>> \notin stale'
      PROVE  Reaches(c, k)'
  <2>1. /\ <<c, k>> \in stale => <<c, k>> \in stale'
        /\ c # d \/ k \notin S => (NoneOf(up[c]', k) <=> NoneOf(up[c], k))
        /\ c = d /\ k \in S => <<c, k>> \in stale' \/ ~NoneOf(up[c]', k)
    BY <1>2, SendUp
  <2>2. Synced(k)
    BY <1>4 DEF Synced, ServerOwned, Shared, Has
  <2>3. Reaches(c, k)
    BY <1>4, <2>1, <2>2 DEF Arriving
  <2>4. Waiting(Server, k) => Waiting(Server, k)'
    BY <1>3 DEF Waiting
  <2>5. CASE c # d
    <3>1. store'[c] = store[c] /\ Queued(c)' = Queued(c)
      BY <2>5 DEF Writes, Peers
    <3> QED
      BY <1>2, <1>3, <2>1, <2>3, <2>4, <2>5, <3>1 DEF Reaches, Agrees, Waiting
  <2>6. CASE c = d /\ k \in S
    BY <1>2, <1>3, <1>4, <2>1, <2>3, <2>4, <2>6 DEF Reaches
  <2>7. CASE c = d /\ k \notin S
    <3>1. /\ Waiting(c, k) => Waiting(c, k)'
          /\ store'[c][k].val = store[c][k].val \/ Waiting(c, k)' \/ ~NeedsSyncFor(k, c)
      BY <2>7 DEF Writes
    <3>2. ServerOwned(k) \/ NeedsSyncFor(k, c)
      BY <1>1, <2>2, <2>7 DEF Synced, Shared, NeedsSyncFor, Has
    <3>3. store'[c][k].val = store[c][k].val \/ Waiting(c, k)'
      BY <2>7, <3>1, <3>2
    <3> QED
      BY <1>2, <1>3, <2>1, <2>3, <2>4, <2>7, <3>1, <3>3 DEF Reaches, Agrees
  <2> QED
    BY <2>5, <2>6, <2>7
<1> QED
  BY <1>4 DEF Arriving

\* Nothing happens to the variables, and no message is lost.
LEMMA IdleArriving ==
  ASSUME Arriving, UNCHANGED <<proto, store, deferred, nextTick, down, stale>>,
         \A c \in Clients : \A k \in Keys : NoneOf(up'[c], k) => NoneOf(up[c], k)
  PROVE  Arriving'
<1>1. ASSUME NEW c \in Clients, NEW k \in Keys, Synced(k)', <<c, k>> \notin stale'
      PROVE  Reaches(c, k)'
  <2>1. Reaches(c, k)
    BY <1>1 DEF Arriving, Synced, ServerOwned, Shared, Has
  <2> QED
    BY <2>1 DEF Reaches, Waiting, Queued, Agrees
<1> QED
  BY <1>1 DEF Arriving

-----------------------------------------------------------------------------
(* The actions. *)

\* Nothing but a script's write makes a cached value dirty.
LEMMA Cleaner ==
  ASSUME IInv, NEW p \in Peers, FlushCache(p) \/ DropCache(p) \/ (\E f : NetworkSync(p, f))
  PROVE  \A q \in Peers : \A k \in Keys : cache'[q][k].dirty => cache[q][k].dirty
<1>1. CASE FlushCache(p)
  <2> DEFINE row == [x \in Keys |->
                       IF x \in CachedWrites(p) THEN [cache[p][x] EXCEPT !.dirty = FALSE]
                                                ELSE cache[p][x]]
  <2>1. cache' = [cache EXCEPT ![p] = row]
    BY <1>1 DEF FlushCache, IInv, CacheInv
  <2>2. \A k \in Keys : row[k].dirty => cache[p][k].dirty
    BY DEF CachedWrites, IInv, CacheInv, Entry
  <2> HIDE DEF row
  <2> QED
    BY <2>1, <2>2 DEF IInv, CacheInv
<1>2. CASE DropCache(p)
  BY <1>2 DEF DropCache, NoVars, NoEntry, IInv, CacheInv
<1>3. CASE \E f : NetworkSync(p, f)
  BY <1>3 DEF NetworkSync, Invalidate, NoEntry, IInv, CacheInv
<1> QED
  BY <1>1, <1>2, <1>3

\* Only what was registered becomes dirty.
LEMMA StepRegistered == IInv /\ DirtyRegistered /\ [Next]_vars => DirtyRegistered'
<1> SUFFICES ASSUME IInv, DirtyRegistered, [Next]_vars PROVE DirtyRegistered'
  OBVIOUS
<1>1. ASSUME NEW p \in Peers, NEW K \in SUBSET Keys, NEW f, SetDirty(p, K, f),
             UNCHANGED registered, K \subseteq registered[p],
             \A q \in Peers : \A k \in Keys : cache'[q][k].dirty => k \in registered[q]
      PROVE  DirtyRegistered'
  <2>1. \A q \in Peers : \A k \in Keys :
          store'[q][k] = store[q][k] \/ (q = p /\ k \in K)
    BY <1>1 DEF SetDirty, IInv, StoreInv
  <2> QED
    BY <1>1, <2>1 DEF DirtyRegistered
<1>2. ASSUME NEW p \in Peers, NEW F \in SUBSET Keys, NEW K, FlushSync(p, F, K),
             UNCHANGED registered, F \subseteq registered[p],
             \A q \in Peers : \A k \in Keys : cache'[q][k].dirty => k \in registered[q]
      PROVE  DirtyRegistered'
  <2> DEFINE merged == [k \in Keys |-> IF k \in F THEN [val |-> cache[p][k].val, dirty |-> TRUE]
                                                  ELSE store[p][k]]
  <2>1. PICK G : store' = [store EXCEPT ![p] =
           [k \in Keys |-> [val |-> merged[k].val, dirty |-> merged[k].dirty /\ k \notin G]]]
    BY <1>2 DEF FlushSync
  <2>2. \A k \in Keys : k \notin F => merged[k].dirty = store[p][k].dirty
    OBVIOUS
  <2> HIDE DEF merged
  <2>3. \A q \in Peers : \A k \in Keys :
          store'[q][k].dirty => store[q][k].dirty \/ (q = p /\ k \in F)
    BY <2>1, <2>2 DEF IInv, StoreInv
  <2> QED
    BY <1>2, <2>3 DEF DirtyRegistered
<1>3. ASSUME NEW p \in Peers, DropCache(p), NEW q \in Peers, NEW k \in Keys, cache'[q][k].dirty
      PROVE  q # p /\ cache[q][k].dirty
  BY <1>3 DEF DropCache, NoVars, NoEntry, IInv, CacheInv
<1>4. ASSUME NEW p \in Peers, FlushCache(p), NEW q \in Peers, NEW k \in Keys, cache'[q][k].dirty
      PROVE  cache[q][k].dirty
  BY <1>4, Cleaner
<1>5. \A p \in Peers : CachedWrites(p) \in SUBSET Keys /\ CachedWrites(p) \subseteq registered[p]
  BY DEF CachedWrites, DirtyRegistered, IInv, CacheInv
<1>6. ASSUME NEW p \in Peers, NEW f, NetworkSync(p, f), UNCHANGED registered
      PROVE  DirtyRegistered'
  <2> DEFINE A == Accepted(p, f)
  <2>1. A \subseteq registered[p]
    BY DEF Accepted
  <2> HIDE DEF A
  <2>2. \A q \in Peers : \A k \in Keys :
          store'[q][k] = store[q][k] \/ (q = p /\ k \in A)
    BY <1>6 DEF NetworkSync, IInv, StoreInv, A
  <2>3. \A q \in Peers : \A k \in Keys : cache'[q][k].dirty => cache[q][k].dirty
    BY <1>6 DEF NetworkSync, Invalidate, NoEntry, IInv, CacheInv
  <2> QED
    BY <1>6, <2>1, <2>2, <2>3 DEF DirtyRegistered
<1>7. ASSUME NEW p \in Peers, ScriptStep(p) PROVE DirtyRegistered'
  <2>1. ASSUME NEW k \in Keys, RegisterPrototype(p, k) PROVE DirtyRegistered'
    BY <2>1 DEF RegisterPrototype, local, DirtyRegistered, IInv, BaseInv
  <2>2. ASSUME NEW k \in Keys, Push(p, k) PROVE DirtyRegistered'
    BY <2>2 DEF Push, DirtyRegistered, IInv, CacheInv
  <2>3. ASSUME NEW k \in Keys, MarkDirty(p, k) PROVE DirtyRegistered'
    <3>1. PICK f : SetDirty(p, {k}, f)
      BY <2>3 DEF MarkDirty
    <3>2. {k} \in SUBSET Keys /\ {k} \subseteq registered[p] /\ UNCHANGED <<registered, cache>>
      BY <2>3 DEF MarkDirty
    <3> QED
      BY <1>1, <3>1, <3>2 DEF DirtyRegistered
  <2>4. ASSUME NEW k \in Keys, NEW v \in Values, Set(p, k, v) PROVE DirtyRegistered'
    <3> DEFINE f == [x \in {k} |-> v]
    <3>1. {k} \in SUBSET Keys /\ {k} \subseteq registered[p] /\ UNCHANGED registered
      BY <2>4 DEF Set
    <3>2. CASE SetUncached(p, k, v)
      <4>1. SetDirty(p, {k}, f) /\ cache' = cache
        BY <3>2 DEF SetUncached
      <4> HIDE DEF f
      <4> QED
        BY <1>1, <3>1, <4>1 DEF DirtyRegistered
    <3>3. CASE SetCached(p, k, v)
      <4>1. PICK e : cache' = [cache EXCEPT ![p][k] = e]
        BY <3>3 DEF SetCached
      <4>2. \A q \in Peers : \A x \in Keys : cache'[q][x].dirty => x \in registered[q]
        BY <3>1, <4>1 DEF DirtyRegistered, IInv, CacheInv
      <4>3. SetDirty(p, {k}, f) \/ store' = store
        BY <3>3 DEF SetCached
      <4> HIDE DEF f
      <4> QED
        BY <1>1, <3>1, <4>2, <4>3 DEF DirtyRegistered
    <3> QED
      BY <2>4, <3>2, <3>3 DEF Set
  <2> QED
    BY <1>7, <2>1, <2>2, <2>3, <2>4 DEF ScriptStep
<1>8. ASSUME NEW p \in Peers, OnUpdate(p) PROVE DirtyRegistered'
  BY <1>2, <1>4, <1>5, <1>8 DEF OnUpdate, DirtyRegistered
<1>9. ASSUME NEW p \in Peers, NEW K \in Managers, SyncVariables(p, K) PROVE DirtyRegistered'
  BY <1>2, <1>9 DEF SyncVariables, DirtyRegistered
<1>10. ASSUME NEW p \in Peers, GameStep(p) PROVE DirtyRegistered'
  <2>1. CASE EnterLoadLevel(p)
    BY <1>3, <2>1 DEF EnterLoadLevel, DirtyRegistered
  <2>2. CASE EnterRunning(p) \/ ObjectAppears(p)
    BY <2>2 DEF EnterRunning, ObjectAppears, local, DirtyRegistered
  <2>3. CASE NewSession(p)
    <3>1. \A q \in Peers : \A k \in Keys :
            q # p => store'[q][k] = store[q][k] /\ registered'[q] = registered[q]
      BY <2>3 DEF NewSession, IInv, StoreInv, BaseInv
    <3>2. \A k \in Keys : ~store'[p][k].dirty
      BY <2>3 DEF NewSession, NoVars, NoEntry, IInv, StoreInv
    <3>3. DropCache(p)
      BY <2>3 DEF NewSession
    <3> QED
      BY <1>3, <3>1, <3>2, <3>3 DEF DirtyRegistered
  <2>4. CASE LuaReset(p)
    BY <1>3, <2>4 DEF LuaReset, DirtyRegistered
  <2> QED
    BY <1>10, <2>1, <2>2, <2>3, <2>4 DEF GameStep
<1>11. ASSUME NEW c \in Clients, NetStep(c) PROVE DirtyRegistered'
  BY <1>6, <1>11 DEF NetStep, OnAcceptMessage, ReceiveHello, ReceiveFromServer, ReceiveFromClient,
                     local, DirtyRegistered, Peers
<1>12. ASSUME SaveGame PROVE DirtyRegistered'
  <2>1. Server \in Peers /\ FlushCache(Server) /\ UNCHANGED registered
    BY <1>12 DEF SaveGame, Peers
  <2>2. PICK f : SetDirty(Server, CachedWrites(Server), f)
    BY <1>12 DEF SaveGame
  <2> QED
    BY <1>1, <1>4, <1>5, <2>1, <2>2 DEF DirtyRegistered
<1>13. ASSUME LoadGame PROVE DirtyRegistered'
  BY <1>13 DEF LoadGame, DirtyRegistered, IInv, StoreInv
<1>14. ASSUME UNCHANGED vars PROVE DirtyRegistered'
  BY <1>14 DEF vars, local, DirtyRegistered
<1> QED
  BY <1>7, <1>8, <1>9, <1>10, <1>11, <1>12, <1>13, <1>14 DEF Next

\* A client's writer never has what only the server writes.
LEMMA UntouchedWrites ==
  ASSUME IInv, Untouched, NEW p \in Peers, NEW f, NEW S, Writes(p, f, S), UNCHANGED proto,
         \A c \in Clients : \A k \in Keys : ServerOwned(k) => ~cache'[c][k].dirty
  PROVE  Untouched'
<1>1. ASSUME NEW c \in Clients, NEW k \in Keys, ServerOwned(k)
      PROVE  k \notin Queued(c)' /\ NoneOf(up[c]', k)
  <2>1. c # Server /\ c \in Peers /\ ~NeedsSyncFor(k, c)
    BY <1>1, UserVarsAssumption DEF Peers, ServerOwned, NeedsSyncFor, Has
  <2>2. k \notin Queued(c) /\ NoneOf(up[c], k)
    BY <1>1 DEF Untouched
  <2>3. CASE p # c
    <3>1. Queued(c)' = Queued(c)
      BY <2>1, <2>3 DEF Writes
    <3>2. up'[c] = up[c]
      BY <2>3 DEF Writes, Send, SendFromClient, IInv, NetInv
    <3> QED
      BY <2>2, <3>1, <3>2
  <2>4. CASE p = c
    <3>1. k \notin S /\ k \notin Queued(c)'
      BY <2>1, <2>2, <2>4 DEF Writes
    <3>2. /\ SendFromClient(c, S, f) /\ S \in SUBSET Keys /\ NetInv
          /\ \A x \in S : f[x] \in Values
      BY <2>1, <2>4 DEF Writes, Send, IInv
    <3>3. NoneOf(up[c]', k) <=> NoneOf(up[c], k)
      BY <3>1, <3>2, SendUp
    <3> QED
      BY <2>2, <3>1, <3>3
  <2> QED
    BY <2>3, <2>4
<1>2. \A k \in Keys : ServerOwned(k)' <=> ServerOwned(k)
  BY DEF ServerOwned, Has
<1> QED
  BY <1>1, <1>2 DEF Untouched

\* Everything else leaves it so.
LEMMA UntouchedKept ==
  ASSUME Untouched, UNCHANGED proto,
         \A c \in Clients : \A k \in Keys : ServerOwned(k) =>
           /\ cache'[c][k].dirty => cache[c][k].dirty
           /\ k \in Queued(c)' => k \in Queued(c)
           /\ NoneOf(up[c], k) => NoneOf(up'[c], k)
  PROVE  Untouched'
<1>1. \A k \in Keys : ServerOwned(k)' <=> ServerOwned(k)
  BY DEF ServerOwned, Has
<1> QED
  BY <1>1 DEF Untouched

\* Every write of a peer, at once or in a flush, is one of the form above.
LEMMA WriteSteps ==
  ASSUME IInv, NEW p \in Peers,
         \/ \E k \in Keys : MarkDirty(p, k)
         \/ OnUpdate(p)
         \/ \E K \in Managers : SyncVariables(p, K)
         \/ p = Server /\ SaveGame
  PROVE  /\ \E f, S : Writes(p, f, S)
         /\ UNCHANGED <<proto, hello, known>>
<1>1. ASSUME NEW k \in Keys, MarkDirty(p, k)
      PROVE  (\E f, S : Writes(p, f, S)) /\ UNCHANGED <<proto, hello, known>>
  <2> DEFINE f == [x \in {k} |-> store[p][k].val]
  <2>1. \A x \in {k} : f[x] \in Values
    BY <1>1 DEF MarkDirty, IInv, StoreInv, Entry
  <2>2. SetDirty(p, {k}, f) /\ {k} \in SUBSET Keys /\ UNCHANGED <<proto, hello, known>>
    BY <1>1 DEF MarkDirty
  <2> HIDE DEF f
  <2> QED
    BY <2>1, <2>2, SetDirtyWrites
<1>2. CASE OnUpdate(p)
  <2>1. CachedWrites(p) \in SUBSET Keys /\ \A k \in CachedWrites(p) : cache[p][k].val \in Values
    BY CachedWritesType DEF IInv
  <2> QED
    BY <1>2, <2>1, FlushWrites DEF OnUpdate
<1>3. ASSUME NEW K \in Managers, SyncVariables(p, K)
      PROVE  (\E f, S : Writes(p, f, S)) /\ UNCHANGED <<proto, hello, known>>
  <2>1. K \in SUBSET Keys
    BY UserVarsAssumption DEF Managers
  <2> DEFINE F == {}
  <2>2. FlushSync(p, F, K) /\ F \in SUBSET Keys /\ \A k \in F : cache[p][k].val \in Values
    BY <1>3 DEF SyncVariables
  <2> HIDE DEF F
  <2> QED
    BY <1>3, <2>1, <2>2, FlushWrites DEF SyncVariables
<1>4. CASE p = Server /\ SaveGame
  <2> DEFINE f == [k \in Keys |-> cache[Server][k].val]
             F == CachedWrites(Server)
  <2>1. F \in SUBSET Keys /\ \A k \in F : f[k] \in Values
    BY <1>4, CachedWritesType DEF IInv
  <2>2. SetDirty(p, F, f) /\ UNCHANGED <<proto, hello, known>>
    BY <1>4 DEF SaveGame
  <2> HIDE DEF f, F
  <2> QED
    BY <2>1, <2>2, SetDirtyWrites
<1> QED
  BY <1>1, <1>2, <1>3, <1>4

\* A script's write is one of that form too, or stays in the cache.
LEMMA SetSteps ==
  ASSUME IInv, NEW p \in Peers, NEW k \in Keys, NEW v \in Values, Set(p, k, v)
  PROVE  /\ UNCHANGED <<proto, hello, known>>
         /\ \/ \E f, S : Writes(p, f, S)
            \/ UNCHANGED <<store, deferred, nextTick, down, up, stale>>
         /\ IsWriteableFor(k, p)
         /\ \A q \in Peers : \A x \in Keys : q # p \/ x # k =>
              cache'[q][x] = cache[q][x] /\ store'[q][x].val = store[q][x].val
<1> DEFINE f == [x \in {k} |-> v]
<1>1. UNCHANGED <<proto, hello, known>> /\ IsWriteableFor(k, p)
  BY DEF Set
<1>2. ASSUME SetDirty(p, {k}, f)
      PROVE  /\ \E g, S : Writes(p, g, S)
             /\ \A q \in Peers : \A x \in Keys : q # p \/ x # k =>
                  store'[q][x].val = store[q][x].val
  <2>1. {k} \in SUBSET Keys /\ \A x \in {k} : f[x] \in Values
    OBVIOUS
  <2> HIDE DEF f
  <2>2. Writes(p, f, {x \in {k} : SyncsNow(p, x)})
    BY <1>1, <1>2, <2>1, SetDirtyWrites
  <2>3. \A q \in Peers : \A x \in Keys : q # p \/ x # k => store'[q][x].val = store[q][x].val
    BY <1>2 DEF SetDirty, IInv, StoreInv
  <2> QED
    BY <2>2, <2>3
<1>3. CASE SetUncached(p, k, v)
  BY <1>1, <1>2, <1>3 DEF SetUncached
<1>4. CASE SetCached(p, k, v)
  <2>1. PICK e : cache' = [cache EXCEPT ![p][k] = e]
    BY <1>4 DEF SetCached
  <2>2. \/ SetDirty(p, {k}, f)
        \/ UNCHANGED <<store, deferred, nextTick, down, up, stale>>
    BY <1>4 DEF SetCached
  <2>3. \A q \in Peers : \A x \in Keys : q # p \/ x # k => cache'[q][x] = cache[q][x]
    BY <2>1 DEF IInv, CacheInv
  <2> HIDE DEF f
  <2> QED
    BY <1>1, <1>2, <2>2, <2>3
<1> QED
  BY <1>3, <1>4 DEF Set

\* No step makes a client's writer have what only the server writes.
LEMMA StepUntouched == IInv /\ Untouched /\ [Next]_vars => Untouched'
<1> SUFFICES ASSUME IInv, Untouched, [Next]_vars PROVE Untouched'
  OBVIOUS
<1>1. ASSUME NEW p \in Peers, \E f, S : Writes(p, f, S), UNCHANGED proto,
             \A q \in Peers : \A k \in Keys : cache'[q][k].dirty => cache[q][k].dirty
      PROVE  Untouched'
  <2>1. \A c \in Clients : \A k \in Keys : ServerOwned(k) => ~cache'[c][k].dirty
    BY <1>1 DEF Untouched, Peers
  <2> QED
    BY <1>1, <2>1, UntouchedWrites
<1>2. ASSUME NEW p \in Peers, ScriptStep(p) PROVE Untouched'
  <2>1. ASSUME NEW k \in Keys, RegisterPrototype(p, k) \/ Push(p, k) PROVE Untouched'
    <3>1. UNCHANGED <<proto, store, deferred, nextTick, up>>
      BY <2>1 DEF RegisterPrototype, Push, local, net
    <3>2. \A c \in Clients : \A x \in Keys : cache'[c][x].dirty => cache[c][x].dirty
      BY <2>1 DEF RegisterPrototype, Push, local, IInv, CacheInv, Peers
    <3> QED
      BY <3>1, <3>2, UntouchedKept DEF Queued
  <2>2. ASSUME NEW k \in Keys, MarkDirty(p, k) PROVE Untouched'
    <3>1. (\E f, S : Writes(p, f, S)) /\ UNCHANGED proto
      BY <2>2, WriteSteps
    <3> QED
      BY <1>1, <2>2, <3>1 DEF MarkDirty
  <2>3. ASSUME NEW k \in Keys, NEW v \in Values, Set(p, k, v) PROVE Untouched'
    <3>1. /\ UNCHANGED proto /\ IsWriteableFor(k, p)
          /\ \/ \E f, S : Writes(p, f, S)
             \/ UNCHANGED <<store, deferred, nextTick, down, up, stale>>
          /\ \A q \in Peers : \A x \in Keys : q # p \/ x # k => cache'[q][x] = cache[q][x]
      BY <2>3, SetSteps
    <3>2. \A c \in Clients : \A x \in Keys : ServerOwned(x) => cache'[c][x] = cache[c][x]
      <4>1. ASSUME NEW c \in Clients, ServerOwned(k) PROVE c # p
        BY <3>1, <4>1, UserVarsAssumption DEF IsWriteableFor, ServerOwned, Has
      <4> QED
        BY <3>1, <4>1 DEF Peers
    <3>3. CASE \E f, S : Writes(p, f, S)
      <4>1. \A c \in Clients : \A x \in Keys : ServerOwned(x) => ~cache'[c][x].dirty
        BY <3>2 DEF Untouched
      <4> QED
        BY <3>1, <3>3, <4>1, UntouchedWrites
    <3>4. CASE UNCHANGED <<store, deferred, nextTick, down, up, stale>>
      BY <3>1, <3>2, <3>4, UntouchedKept DEF Queued
    <3> QED
      BY <3>1, <3>3, <3>4
  <2> QED
    BY <1>2, <2>1, <2>2, <2>3 DEF ScriptStep
<1>3. ASSUME NEW p \in Peers, OnUpdate(p) PROVE Untouched'
  <2>1. (\E f, S : Writes(p, f, S)) /\ UNCHANGED proto
    BY <1>3, WriteSteps
  <2>2. \A q \in Peers : \A k \in Keys : cache'[q][k].dirty => cache[q][k].dirty
    BY <1>3, Cleaner DEF OnUpdate
  <2> QED
    BY <1>1, <2>1, <2>2
<1>4. ASSUME NEW p \in Peers, NEW K \in Managers, SyncVariables(p, K) PROVE Untouched'
  <2>1. (\E f, S : Writes(p, f, S)) /\ UNCHANGED proto
    BY <1>4, WriteSteps
  <2> QED
    BY <1>1, <1>4, <2>1 DEF SyncVariables
<1>5. ASSUME NEW p \in Peers, GameStep(p) PROVE Untouched'
  <2>1. UNCHANGED <<proto, up>>
    BY <1>5 DEF GameStep, EnterLoadLevel, EnterRunning, ObjectAppears, NewSession, LuaReset, local,
                net
  <2>2. \A c \in Clients : \A k \in Keys : k \in Queued(c)' => k \in Queued(c)
    BY <1>5 DEF GameStep, EnterLoadLevel, EnterRunning, ObjectAppears, NewSession, LuaReset, local,
                Queued, IInv, StoreInv, Peers
  <2>3. DropCache(p) \/ cache' = cache
    BY <1>5 DEF GameStep, EnterLoadLevel, EnterRunning, ObjectAppears, NewSession, LuaReset, local
  <2>4. \A q \in Peers : \A k \in Keys : cache'[q][k].dirty => cache[q][k].dirty
    BY <2>3, Cleaner
  <2> QED
    BY <2>1, <2>2, <2>4, UntouchedKept DEF Peers
<1>6. ASSUME NEW c \in Clients, NetStep(c) PROVE Untouched'
  <2>1. Server \in Peers /\ c \in Peers /\ c # Server /\ up \in [Clients -> Seq(Msg)]
    BY UserVarsAssumption DEF Peers, IInv, NetInv
  <2>2. CASE OnAcceptMessage(c)
    <3>1. HelloMsg \in Msg /\ VarsIn(HelloMsg) = {}
      BY DEF HelloMsg, Msg, VarsIn
    <3>2. \A k : NoneOf(Append(up[c], HelloMsg), k) <=> NoneOf(up[c], k)
      BY <2>1, <3>1, Appending
    <3> QED
      BY <2>1, <2>2, <3>2, UntouchedKept DEF OnAcceptMessage, local, Queued
  <2>3. ASSUME up[c] # <<>>, NEW d \in Clients, NEW k, up' = [up EXCEPT ![c] = Tail(@)]
        PROVE  NoneOf(up[d], k) => NoneOf(up'[d], k)
    <3>1. NoneOf(up[c], k) => NoneOf(Tail(up[c]), k)
      <4>1. up[c] \in Seq(Msg)
        BY <2>1
      <4> QED
        BY <2>3, <4>1, Taking
    <3> QED
      BY <2>1, <2>3, <3>1
  <2>4. CASE ReceiveHello(c)
    BY <2>3, <2>4, UntouchedKept DEF ReceiveHello, local, Queued
  <2>5. CASE ReceiveFromServer(c)
    <3> DEFINE f == Head(down[c]).vars
    <3>1. NetworkSync(c, f) /\ UNCHANGED <<proto, up>>
      BY <2>5 DEF ReceiveFromServer
    <3> HIDE DEF f
    <3>2. \A d \in Clients : Queued(d)' = Queued(d)
      BY <2>1, <3>1 DEF NetworkSync, Requeue, NeedsRebroadcast, Queued, IInv, StoreInv
    <3>3. \A q \in Peers : \A k \in Keys : cache'[q][k].dirty => cache[q][k].dirty
      BY <2>1, <3>1, Cleaner
    <3> QED
      BY <3>1, <3>2, <3>3, UntouchedKept DEF Peers
  <2>6. CASE ReceiveFromClient(c)
    <3> DEFINE f == Head(up[c]).vars
    <3>1. /\ NetworkSync(Server, f) /\ UNCHANGED proto
          /\ up[c] # <<>> /\ up' = [up EXCEPT ![c] = Tail(@)]
      BY <2>6 DEF ReceiveFromClient
    <3> HIDE DEF f
    <3>2. \A d \in Clients : Queued(d)' = Queued(d)
      BY <3>1, UserVarsAssumption DEF NetworkSync, Requeue, Queued, IInv, StoreInv
    <3>3. \A q \in Peers : \A k \in Keys : cache'[q][k].dirty => cache[q][k].dirty
      BY <2>1, <3>1, Cleaner
    <3> QED
      BY <2>3, <3>1, <3>2, <3>3, UntouchedKept DEF Peers
  <2> QED
    BY <1>6, <2>2, <2>4, <2>5, <2>6 DEF NetStep
<1>7. ASSUME SaveGame PROVE Untouched'
  <2>1. Server \in Peers
    BY DEF Peers
  <2>2. (\E f, S : Writes(Server, f, S)) /\ UNCHANGED proto
    BY <1>7, <2>1, WriteSteps
  <2>3. \A q \in Peers : \A k \in Keys : cache'[q][k].dirty => cache[q][k].dirty
    BY <1>7, <2>1, Cleaner DEF SaveGame
  <2> QED
    BY <1>1, <2>1, <2>2, <2>3
<1>8. ASSUME LoadGame PROVE Untouched'
  <2>1. UNCHANGED <<proto, cache, up>>
    BY <1>8 DEF LoadGame, net
  <2>2. \A c \in Clients : Queued(c)' = Queued(c)
    BY <1>8, UserVarsAssumption DEF LoadGame, Queued, IInv, StoreInv
  <2> QED
    BY <2>1, <2>2, UntouchedKept
<1>9. CASE UNCHANGED vars
  BY <1>9, UntouchedKept DEF vars, local, net, Queued
<1> QED
  BY <1>2, <1>3, <1>4, <1>5, <1>6, <1>7, <1>8, <1>9 DEF Next

\* The server's message is taken over, or discarded for good.
LEMMA FromServerArriving ==
  ASSUME IInv, Arriving, NEW d \in Clients, ReceiveFromServer(d)
  PROVE  Arriving'
<1> DEFINE m == Head(down[d])
           f == m.vars
           A == Accepted(d, f)
           row == [k \in Keys |-> IF k \in A THEN [val |-> f[k], dirty |-> NeedsRebroadcast(k, d)]
                                             ELSE store[d][k]]
<1>1. /\ d \in Peers /\ Server \in Peers /\ d # Server
      /\ down[d] \in Seq(SyncMsg) /\ down[d] # <<>> /\ m \in SyncMsg
  BY UserVarsAssumption, ChannelType DEF Peers, IInv, NetInv, ReceiveFromServer
<1>2. /\ store' = [store EXCEPT ![d] = row]
      /\ stale' = stale \cup ({d} \X (DOMAIN f \ A))
      /\ down' = [down EXCEPT ![d] = Tail(@)] /\ UNCHANGED <<proto, up>>
  BY DEF ReceiveFromServer, NetworkSync
<1>3. \A q \in Peers : Queued(q)' = Queued(q)
  BY <1>1 DEF ReceiveFromServer, NetworkSync, Requeue, NeedsRebroadcast, Queued, IInv, StoreInv
<1>4. VarsIn(m) = DOMAIN f /\ A \subseteq DOMAIN f
  BY <1>1 DEF VarsIn, SyncMsg, Accepted
<1>5. down[d]' = Tail(down[d]) /\ \A c \in Clients \ {d} : down[c]' = down[c]
  BY <1>1, <1>2 DEF IInv, NetInv
<1>6. \A c \in Clients \ {d} : store'[c] = store[c]
  BY <1>1, <1>2 DEF IInv, StoreInv, Peers
<1>7. store'[Server] = store[Server]
  BY <1>1, <1>2 DEF IInv, StoreInv
<1>8. \A k \in Keys : /\ k \in A => store'[d][k].val = f[k]
                      /\ k \notin A => store'[d][k] = store[d][k]
  BY <1>1, <1>2 DEF IInv, StoreInv
<1> HIDE DEF m, A, row
<1>9. ASSUME NEW c \in Clients, NEW k \in Keys, Synced(k)', <<c, k>> \notin stale'
      PROVE  Reaches(c, k)'
  <2>1. Reaches(c, k)
    BY <1>2, <1>9 DEF Arriving, Synced, ServerOwned, Shared, Has
  <2>2. Waiting(Server, k)' <=> Waiting(Server, k)
    BY <1>1, <1>3, <1>7 DEF Waiting
  <2>3. CASE c # d
    <3>1. Waiting(c, k)' <=> Waiting(c, k)
      BY <1>3, <1>6, <2>3 DEF Waiting, Peers
    <3> QED
      BY <1>2, <1>5, <1>6, <1>7, <2>1, <2>2, <2>3, <3>1 DEF Reaches, Agrees
  <2>4. CASE c = d /\ k \notin VarsIn(m)
    <3>1. Keeps(down[c], down[c]', k)
      BY <1>1, <1>5, <2>4, Taking DEF m
    <3>2. store'[c][k] = store[c][k]
      BY <1>4, <1>8, <2>4
    <3>3. Waiting(c, k)' <=> Waiting(c, k)
      BY <1>1, <1>3, <2>4, <3>2 DEF Waiting
    <3> QED
      BY <1>2, <1>7, <2>1, <2>2, <3>1, <3>2, <3>3 DEF Reaches, Agrees, Keeps
  <2>5. CASE c = d /\ k \in VarsIn(m)
    <3>1. k \in A
      BY <1>2, <1>4, <1>9, <2>5
    <3>2. store'[c][k].val = f[k]
      BY <1>8, <2>5, <3>1
    <3>3. ~NoneOf(down[c], k)
      BY <1>1, <2>5, Taking DEF m
    <3>4. \A v : LastIs(down[c], k, v) =>
            LastIs(down[c]', k, v) \/ (NoneOf(down[c]', k) /\ f[k] = v)
      BY <1>1, <1>5, <2>5, Taking DEF m
    <3> QED
      BY <1>7, <2>1, <2>2, <3>2, <3>3, <3>4 DEF Reaches, Agrees
  <2> QED
    BY <2>3, <2>4, <2>5
<1> QED
  BY <1>9 DEF Arriving

\* What a client wrote is sent back to all, or will be, or is discarded for good.
LEMMA FromClientArriving ==
  ASSUME IInv, Arriving, NEW d \in Clients, ReceiveFromClient(d)
  PROVE  Arriving'
<1> DEFINE m == Head(up[d])
           f == m.vars
           A == Accepted(Server, f)
           echo == {k \in A : NeedsRebroadcast(k, Server) /\ SyncsNow(Server, k)}
           out == Deliverable(Server, echo)
           again == {k \in A : NeedsRebroadcast(k, Server)}
           row == [k \in Keys |->
                     IF k \in A THEN [val |-> f[k], dirty |-> NeedsRebroadcast(k, Server)]
                                ELSE store[Server][k]]
<1>1. /\ Server \in Peers /\ Server \notin Clients /\ m.kind = "vars"
      /\ up[d] \in Seq(Msg) /\ up[d] # <<>> /\ m \in Msg
  BY UserVarsAssumption, ChannelType DEF Peers, IInv, NetInv, ReceiveFromClient
<1>2. /\ store' = [store EXCEPT ![Server] = row]
      /\ Broadcast([k \in out |-> f[k]])
      /\ stale' = (stale \ (hello \X out)) \cup ((Clients \ hello) \X echo)
                    \cup (Clients \X (echo \ out)) \cup ({d} \X (DOMAIN f \ A))
      /\ up' = [up EXCEPT ![d] = Tail(@)] /\ UNCHANGED proto
  BY DEF ReceiveFromClient, NetworkSync
<1>3. /\ deferred' = [deferred EXCEPT ![Server] = @ \cup {k \in again : SyncsDeferred(Server, k)}]
      /\ nextTick' = [nextTick EXCEPT ![Server] = @ \cup {k \in again : SyncsNextTick(Server, k)}]
  BY DEF ReceiveFromClient, NetworkSync, Requeue
<1>4. VarsIn(m) = DOMAIN f /\ A \subseteq DOMAIN f /\ echo \subseteq A /\ out \subseteq echo
  BY <1>1 DEF VarsIn, Accepted, Deliverable
<1>5. A \in SUBSET Keys /\ out \in SUBSET Keys /\ \A k \in A : f[k] \in Values
  BY <1>1, <1>4, VarsType
<1>6. \A c \in Clients : store'[c] = store[c] /\ Queued(c)' = Queued(c)
  BY <1>1, <1>2, <1>3 DEF IInv, StoreInv, Peers, Queued
<1>7. Queued(Server)' =
        Queued(Server) \cup {k \in again : SyncsDeferred(Server, k) \/ SyncsNextTick(Server, k)}
  BY <1>1, <1>3 DEF IInv, StoreInv, Queued
<1>8. \A k \in Keys :
        /\ k \in A => /\ store'[Server][k].val = f[k]
                      /\ store'[Server][k].dirty = NeedsRebroadcast(k, Server)
        /\ k \notin A => store'[Server][k] = store[Server][k]
  BY <1>1, <1>2 DEF IInv, StoreInv
<1>9. up[d]' = Tail(up[d]) /\ \A c \in Clients \ {d} : up[c]' = up[c]
  BY <1>2 DEF IInv, NetInv
<1> HIDE DEF m, A, echo, out, row
<1>10. \A c \in Clients : \A k \in Keys : k \in out /\ c \in hello => LastIs(down[c]', k, f[k])
  BY <1>2, <1>4, <1>5, BroadcastTo DEF IInv
<1>11. \A c \in Clients : \A k \in Keys : k \notin out => Keeps(down[c], down[c]', k)
  BY <1>2, <1>4, <1>5, BroadcastTo DEF IInv
<1>12. ASSUME NEW c \in Clients, NEW k \in Keys, Synced(k)', <<c, k>> \notin stale'
       PROVE  Reaches(c, k)'
  <2>1. Synced(k)
    BY <1>2, <1>12 DEF Synced, ServerOwned, Shared, Has
  <2>2. CASE k \in A
    <3>1. Has(k, "SyncClientToServer")
      BY <2>2 DEF A, Accepted
    <3>2. Shared(k) /\ Cardinality(Clients) > 1
      BY <2>1, <3>1 DEF Synced, ServerOwned
    <3>3. Has(k, "SyncServerToClient") /\ Has(k, "IsOnClient")
      <4>1. proto[k] \in LegalFlags
        BY UserVarsAssumption DEF IInv, BaseInv
      <4> QED
        BY <3>2, <4>1 DEF Shared, Has, LegalFlags
    <3>4. NeedsRebroadcast(k, Server) /\ NeedsSyncFor(k, Server)
      BY <3>2, <3>3 DEF NeedsRebroadcast, NeedsSyncFor
    <3>5. store'[Server][k].val = f[k] /\ store'[Server][k].dirty
      BY <1>8, <2>2, <3>4
    <3>6. CASE SyncsNow(Server, k)
      <4>1. k \in echo
        BY <2>2, <3>4, <3>6 DEF echo
      <4>2. k \in out /\ c \in hello
        BY <1>2, <1>12, <4>1
      <4> QED
        BY <1>10, <3>5, <4>2 DEF Reaches
    <3>7. CASE ~SyncsNow(Server, k)
      <4>1. k \in Queued(Server)'
        BY <1>7, <2>2, <3>4, <3>7 DEF SyncsNow, SyncsDeferred, SyncsNextTick
      <4> QED
        BY <3>5, <4>1 DEF Reaches, Waiting
    <3> QED
      BY <3>6, <3>7
  <2>3. CASE k \notin A
    <3>1. k \notin out /\ k \notin echo
      BY <1>4, <2>3
    <3>2. <<c, k>> \notin stale
      BY <1>2, <1>12, <3>1
    <3>3. Reaches(c, k)
      BY <2>1, <3>2 DEF Arriving
    <3>4. Keeps(down[c], down[c]', k)
      BY <1>11, <3>1
    <3>5. ~NoneOf(up[c], k) => ~NoneOf(up[c]', k)
      <4>1. CASE c # d
        BY <1>9, <4>1
      <4>2. CASE c = d
        <5>1. k \notin VarsIn(m)
          BY <1>2, <1>4, <1>12, <2>3, <4>2
        <5> QED
          BY <1>1, <1>9, <4>2, <5>1, Taking DEF m
      <4> QED
        BY <4>1, <4>2
    <3>6. store'[Server][k] = store[Server][k] /\ (Waiting(Server, k) => Waiting(Server, k)')
      BY <1>7, <1>8, <2>3 DEF Waiting
    <3>7. Waiting(c, k)' <=> Waiting(c, k)
      BY <1>6 DEF Waiting
    <3> QED
      BY <1>6, <3>3, <3>4, <3>5, <3>6, <3>7 DEF Reaches, Agrees, Keeps
  <2> QED
    BY <2>2, <2>3
<1> QED
  BY <1>12 DEF Arriving

\* A restored savegame: what is not queued again and differs is discarded for good.
LEMMA LoadGameArriving ==
  ASSUME IInv, DirtyRegistered, Arriving, LoadGame
  PROVE  Arriving'
<1> DEFINE requeued == {k \in registered[Server] : saved[k] # Absent /\ NeedsSyncFor(k, Server)}
           silent == {k \in Keys \ requeued : store[Server][k].val # saved[k]}
           row == [k \in Keys |-> [val |-> saved[k], dirty |-> k \in requeued]]
<1>1. /\ store' = [store EXCEPT ![Server] = row]
      /\ deferred' = [deferred EXCEPT ![Server] = @ \cup requeued]
      /\ stale' = stale \cup (Clients \X silent) /\ UNCHANGED <<proto, nextTick, down, up>>
  BY DEF LoadGame, net
<1>2. Server \in Peers /\ Server \notin Clients
  BY UserVarsAssumption DEF Peers
<1>3. \A c \in Clients : store'[c] = store[c] /\ Queued(c)' = Queued(c)
  BY <1>1, <1>2 DEF IInv, StoreInv, Peers, Queued
<1>4. Queued(Server)' = Queued(Server) \cup requeued
  BY <1>1, <1>2 DEF IInv, StoreInv, Queued
<1>5. \A k \in Keys : store'[Server][k].val = saved[k] /\ store'[Server][k].dirty = (k \in requeued)
  BY <1>1, <1>2 DEF IInv, StoreInv
<1> HIDE DEF row
<1>6. ASSUME NEW c \in Clients, NEW k \in Keys, Synced(k)', <<c, k>> \notin stale'
      PROVE  Reaches(c, k)'
  <2>1. Synced(k) /\ NeedsSyncFor(k, Server)
    BY <1>1, <1>6 DEF Synced, ServerOwned, Shared, NeedsSyncFor, Has
  <2>2. Reaches(c, k)
    BY <1>1, <1>6, <2>1 DEF Arriving
  <2>3. CASE k \in requeued
    BY <1>4, <1>5, <2>3 DEF Reaches, Waiting
  <2>4. CASE k \notin requeued
    <3>1. store[Server][k].val = saved[k]
      BY <1>1, <1>6, <2>4
    <3>2. ~store[Server][k].dirty
      <4>1. SUFFICES ASSUME store[Server][k].dirty PROVE FALSE
        OBVIOUS
      <4>2. k \in registered[Server] /\ store[Server][k].val # Absent
        BY <1>2, <4>1 DEF DirtyRegistered, IInv, StoreInv
      <4> QED
        BY <2>1, <2>4, <3>1, <4>2
    <3>3. store'[Server][k].val = store[Server][k].val
      BY <1>5, <3>1
    <3>4. Waiting(c, k)' <=> Waiting(c, k)
      BY <1>3 DEF Waiting
    <3> QED
      BY <1>1, <1>3, <2>2, <3>2, <3>3, <3>4 DEF Reaches, Waiting, Agrees
  <2> QED
    BY <2>3, <2>4
<1> QED
  BY <1>6 DEF Arriving

\* No value is lost on its way.
LEMMA StepArriving ==
  IInv /\ DirtyRegistered /\ Untouched /\ Arriving /\ [Next]_vars => Arriving'
<1> SUFFICES ASSUME IInv, DirtyRegistered, Untouched, Arriving, [Next]_vars PROVE Arriving'
  OBVIOUS
<1>1. ASSUME NEW p \in Peers, NEW f, NEW S, Writes(p, f, S), UNCHANGED <<proto, hello, known>>,
             p # Server => \A k \in Keys : ServerOwned(k) => store'[p][k].val = store[p][k].val
      PROVE  Arriving'
  <2>1. CASE p = Server
    BY <1>1, <2>1, ServerWrites
  <2>2. CASE p # Server
    BY <1>1, <2>2, ClientWrites DEF Peers
  <2> QED
    BY <2>1, <2>2
<1>2. ASSUME NEW p \in Peers, ScriptStep(p) PROVE Arriving'
  <2>1. ASSUME NEW k \in Keys, RegisterPrototype(p, k) \/ Push(p, k) PROVE Arriving'
    BY <2>1, IdleArriving DEF RegisterPrototype, Push, local, net
  <2>2. ASSUME NEW k \in Keys, MarkDirty(p, k) PROVE Arriving'
    <3>1. PICK f, S : Writes(p, f, S)
      BY <2>2, WriteSteps
    <3>2. UNCHANGED <<proto, hello, known>>
      BY <2>2 DEF MarkDirty
    <3>3. \A x \in Keys : store'[p][x].val = store[p][x].val
      BY <2>2 DEF MarkDirty, SetDirty, IInv, StoreInv
    <3> QED
      BY <1>1, <3>1, <3>2, <3>3
  <2>3. ASSUME NEW k \in Keys, NEW v \in Values, Set(p, k, v) PROVE Arriving'
    <3>1. /\ UNCHANGED <<proto, hello, known>>
          /\ \/ \E f, S : Writes(p, f, S)
             \/ UNCHANGED <<store, deferred, nextTick, down, up, stale>>
          /\ IsWriteableFor(k, p)
          /\ \A x \in Keys : x # k => store'[p][x].val = store[p][x].val
      BY <2>3, SetSteps
    <3>2. p # Server => \A x \in Keys : ServerOwned(x) => store'[p][x].val = store[p][x].val
      BY <3>1 DEF IsWriteableFor, ServerOwned, Has
    <3>3. CASE \E f, S : Writes(p, f, S)
      BY <1>1, <3>1, <3>2, <3>3
    <3>4. CASE UNCHANGED <<store, deferred, nextTick, down, up, stale>>
      BY <3>1, <3>4, IdleArriving
    <3> QED
      BY <3>1, <3>3, <3>4
  <2> QED
    BY <1>2, <2>1, <2>2, <2>3 DEF ScriptStep
<1>3. ASSUME NEW p \in Peers, OnUpdate(p) PROVE Arriving'
  <2>1. PICK f, S : Writes(p, f, S)
    BY <1>3, WriteSteps
  <2>2. UNCHANGED <<proto, hello, known>> /\ FlushSync(p, CachedWrites(p), Keys)
    BY <1>3 DEF OnUpdate
  <2>3. CachedWrites(p) \in SUBSET Keys /\ Keys \in SUBSET Keys
    BY CachedWritesType DEF IInv
  <2>4. \A k \in Keys : k \notin CachedWrites(p) => store'[p][k].val = store[p][k].val
    BY <2>2, <2>3, FlushSyncVals
  <2>5. p # Server => \A k \in Keys : ServerOwned(k) => k \notin CachedWrites(p)
    BY DEF Untouched, CachedWrites, Peers
  <2> QED
    BY <1>1, <2>1, <2>2, <2>4, <2>5
<1>4. ASSUME NEW p \in Peers, NEW K \in Managers, SyncVariables(p, K) PROVE Arriving'
  <2>1. PICK f, S : Writes(p, f, S)
    BY <1>4, WriteSteps
  <2>2. UNCHANGED <<proto, hello, known>> /\ K \in SUBSET Keys
    BY <1>4, UserVarsAssumption DEF SyncVariables, Managers
  <2> DEFINE F == {}
  <2>3. FlushSync(p, F, K) /\ F \in SUBSET Keys /\ \A k : k \notin F
    BY <1>4 DEF SyncVariables
  <2> HIDE DEF F
  <2>4. \A k \in Keys : store'[p][k].val = store[p][k].val
    BY <2>2, <2>3, FlushSyncVals
  <2> QED
    BY <1>1, <2>1, <2>2, <2>4
<1>5. ASSUME NEW p \in Peers, GameStep(p) PROVE Arriving'
  <2>1. CASE EnterLoadLevel(p) \/ EnterRunning(p) \/ ObjectAppears(p) \/ LuaReset(p)
    BY <2>1, IdleArriving DEF EnterLoadLevel, EnterRunning, ObjectAppears, LuaReset, local, net
  <2>2. CASE NewSession(p)
    <3>1. ASSUME NEW c \in Clients, NEW k \in Keys, Synced(k)', <<c, k>> \notin stale'
          PROVE  Reaches(c, k)'
      <4>1. p # Server /\ p # c /\ <<c, k>> \notin stale /\ UNCHANGED <<proto, down, up>>
        BY <2>2, <3>1 DEF NewSession, net
      <4>2. Reaches(c, k)
        BY <3>1, <4>1 DEF Arriving, Synced, ServerOwned, Shared, Has
      <4>3. \A q \in {Server, c} : store'[q] = store[q] /\ Queued(q)' = Queued(q)
        BY <2>2, <4>1 DEF NewSession, Queued, IInv, StoreInv, Peers
      <4> QED
        BY <4>1, <4>2, <4>3 DEF Reaches, Waiting, Agrees
    <3> QED
      BY <3>1 DEF Arriving
  <2> QED
    BY <1>5, <2>1, <2>2 DEF GameStep
<1>6. ASSUME NEW c \in Clients, NetStep(c) PROVE Arriving'
  <2>1. up \in [Clients -> Seq(Msg)]
    BY DEF IInv, NetInv
  <2>2. CASE OnAcceptMessage(c)
    <3>1. HelloMsg \in Msg /\ up[c] \in Seq(Msg)
      BY <2>1 DEF HelloMsg, Msg
    <3>2. \A k : NoneOf(Append(up[c], HelloMsg), k) => NoneOf(up[c], k)
      BY <3>1, Appending
    <3> QED
      BY <2>1, <2>2, <3>2, IdleArriving DEF OnAcceptMessage, local
  <2>3. CASE ReceiveHello(c)
    <3>1. up[c] \in Seq(Msg) /\ up[c] # <<>> /\ VarsIn(Head(up[c])) = {}
      BY <2>1, <2>3 DEF ReceiveHello, VarsIn
    <3>2. \A k : NoneOf(Tail(up[c]), k) => NoneOf(up[c], k)
      BY <3>1, Taking
    <3> QED
      BY <2>1, <2>3, <3>2, IdleArriving DEF ReceiveHello, local
  <2> QED
    BY <1>6, <2>2, <2>3, FromServerArriving, FromClientArriving DEF NetStep
<1>7. ASSUME SaveGame PROVE Arriving'
  <2>1. Server \in Peers
    BY DEF Peers
  <2>2. PICK f, S : Writes(Server, f, S)
    BY <1>7, <2>1, WriteSteps
  <2>3. UNCHANGED <<proto, hello, known>>
    BY <1>7 DEF SaveGame
  <2> QED
    BY <1>1, <2>1, <2>2, <2>3
<1>8. CASE LoadGame
  BY <1>8, LoadGameArriving
<1>9. CASE UNCHANGED vars
  BY <1>9, IdleArriving DEF vars, local, net
<1> QED
  BY <1>2, <1>3, <1>4, <1>5, <1>6, <1>7, <1>8, <1>9 DEF Next

\* Nothing is on its way in the beginning.
LEMMA InitArriving == Init => DirtyRegistered /\ Untouched /\ Arriving
<1> SUFFICES ASSUME Init PROVE DirtyRegistered /\ Untouched /\ Arriving
  OBVIOUS
<1>1. \A p \in Peers : \A k \in Keys :
        /\ store[p][k].val = Absent /\ store[p][k].dirty = FALSE /\ cache[p][k].dirty = FALSE
        /\ k \notin Queued(p)
  BY DEF Init, NoVars, NoEntry, Queued
<1>2. \A c \in Clients : down[c] = <<>> /\ up[c] = <<>>
  BY DEF Init
<1>3. \A k : NoneOf(<<>>, k)
  BY DEF NoneOf
<1> QED
  BY <1>1, <1>2, <1>3 DEF DirtyRegistered, Untouched, Arriving, Reaches, Agrees, Peers

LEMMA AlwaysArriving == Spec => [](IInv /\ DirtyRegistered /\ Untouched /\ Arriving)
BY InitInv, InitArriving, StepInv, StepRegistered, StepUntouched, StepArriving, PTL DEF Spec

\* A variable that only the server writes is never lost on its way to a client: what a client
\* has or will have handled is the server's value, unless that waits in the writer's queues
\* or met one of the early returns that discard an update (UserVariables.inl:223-325, 465-494).
THEOREM Delivery == Spec => []Delivered
<1>1. ASSUME IInv, Untouched, Arriving PROVE Delivered
  <2>1. ASSUME NEW c \in Clients, NEW k \in Keys, ServerOwned(k), <<c, k>> \notin stale,
               ~Waiting(Server, k)
        PROVE  LastFor(c, k) = store[Server][k].val
    <3>1. Reaches(c, k)
      BY <1>1, <2>1 DEF Arriving, Synced
    <3>2. ~Waiting(c, k) /\ NoneOf(up[c], k) /\ down[c] \in Seq(SyncMsg)
      BY <1>1, <2>1 DEF Untouched, Waiting, IInv, NetInv
    <3> QED
      BY <2>1, <3>1, <3>2, Last DEF Reaches, Agrees
  <2> QED
    BY <2>1 DEF Delivered, Waiting
<1> QED
  BY <1>1, AlwaysArriving, PTL

\* A variable that both sides write and sync, in a game of several clients: once nothing of
\* it is cached, queued or on its way, every client has the server's value, in whatever order
\* the writes crossed (NeedsRebroadcast, UserVariables.inl:134-153).
THEOREM Agreeing ==
  ASSUME Cardinality(Clients) > 1
  PROVE  Spec => []Agreement
<1>1. ASSUME IInv, Arriving PROVE Agreement
  <2>1. ASSUME NEW c \in Clients, NEW k \in Keys, Shared(k), <<c, k>> \notin stale, ~Unsettled(k)
        PROVE  Agrees(c, k)
    <3>1. Reaches(c, k)
      BY <1>1, <2>1 DEF Arriving, Synced
    <3>2. ~Waiting(Server, k) /\ ~Waiting(c, k) /\ NoneOf(down[c], k) /\ NoneOf(up[c], k)
      BY <2>1 DEF Unsettled, Waiting, NoneOf, Peers
    <3>3. \A v : ~LastIs(down[c], k, v)
      BY <3>2 DEF NoneOf, LastIs
    <3> QED
      BY <3>1, <3>2, <3>3 DEF Reaches
  <2> QED
    BY <2>1 DEF Agreement
<1> QED
  BY <1>1, AlwaysArriving, PTL

-----------------------------------------------------------------------------
(* What becomes of cached writes, step by step.                            *)

\* A dirty cached value is flushed with its value, or replaced; nothing else cleans it.
LEMMA StepWrites ==
  ASSUME IInv, [Next]_vars, NEW p \in Peers, NEW k \in Keys, cache[p][k].dirty, ~cache'[p][k].dirty
  PROVE  \/ store'[p][k].val = cache[p][k].val
         \/ \E v \in Values : Set(p, k, v)
         \/ LuaReset(p) \/ EnterLoadLevel(p) \/ NewSession(p)
         \/ \E c \in Clients : ReceiveFromServer(c) \/ ReceiveFromClient(c)
<1>1. cache[p][k].val # Absent /\ k \in CachedWrites(p)
  BY DEF CachedWrites, IInv, CacheInv
<1>2. ASSUME NEW q \in Peers, ScriptStep(q) PROVE \E v \in Values : Set(p, k, v)
  <2>1. ASSUME NEW x \in Keys PROVE ~RegisterPrototype(q, x) /\ ~MarkDirty(q, x)
    BY DEF RegisterPrototype, MarkDirty, local
  <2>2. ASSUME NEW x \in Keys, Push(q, x) PROVE FALSE
    BY <1>1, <2>2 DEF Push, IInv, CacheInv
  <2>3. ASSUME NEW x \in Keys, NEW v \in Values, Set(q, x, v) PROVE q = p /\ x = k
    BY <2>3, SetSteps
  <2> QED
    BY <1>2, <2>1, <2>2, <2>3 DEF ScriptStep
<1>3. ASSUME NEW q \in Peers, OnUpdate(q) PROVE store'[p][k].val = cache[p][k].val
  <2>1. FlushCache(q) /\ FlushSync(q, CachedWrites(q), Keys)
    BY <1>3 DEF OnUpdate
  <2>2. q = p
    BY <2>1, FlushCacheVals DEF IInv
  <2>3. CachedWrites(p) \in SUBSET Keys /\ Keys \in SUBSET Keys
    BY CachedWritesType DEF IInv
  <2> QED
    BY <1>1, <2>1, <2>2, <2>3, FlushSyncVals
<1>4. ASSUME NEW q \in Peers, GameStep(q) PROVE LuaReset(p) \/ EnterLoadLevel(p) \/ NewSession(p)
  <2>1. DropCache(q) => q = p
    BY DEF DropCache, IInv, CacheInv
  <2>2. ~EnterRunning(q) /\ ~ObjectAppears(q)
    BY DEF EnterRunning, ObjectAppears, local
  <2> QED
    BY <1>4, <2>1, <2>2 DEF GameStep, LuaReset, EnterLoadLevel, NewSession
<1>5. ASSUME NEW q \in Peers, NEW K \in Managers PROVE ~SyncVariables(q, K)
  BY DEF SyncVariables
<1>6. ASSUME NEW c \in Clients, NetStep(c) PROVE ReceiveFromServer(c) \/ ReceiveFromClient(c)
  BY <1>6 DEF NetStep, OnAcceptMessage, ReceiveHello, local
<1>7. ASSUME SaveGame PROVE store'[p][k].val = cache[p][k].val
  <2>1. Server \in Peers /\ FlushCache(Server)
    BY <1>7 DEF SaveGame, Peers
  <2>2. p = Server
    BY <2>1, FlushCacheVals DEF IInv
  <2> DEFINE f == [x \in Keys |-> cache[Server][x].val]
  <2>3. SetDirty(Server, CachedWrites(Server), f)
    BY <1>7 DEF SaveGame
  <2>4. f[k] = cache[p][k].val
    BY <2>2
  <2> HIDE DEF f
  <2>5. store'[p][k].val = f[k]
    BY <1>1, <2>2, <2>3 DEF SetDirty, IInv, StoreInv
  <2> QED
    BY <2>4, <2>5
<1>8. ~LoadGame /\ ~UNCHANGED vars
  BY DEF LoadGame, vars, local
<1> QED
  BY <1>2, <1>3, <1>4, <1>5, <1>6, <1>7, <1>8 DEF Next

\* A cached write goes nowhere but into the store, whatever else goes on: it is dropped only
\* with the cache (a Lua reset, a level, a session), or for an update of the other side
\* (CachedUserVariableManager, UserVariables.inl:1226-1295).
THEOREM WritesReach == Spec => WritesReachStore
<1>1. ASSUME IInv, [Next]_vars
      PROVE  [\A p \in Peers : \A k \in Keys :
                cache[p][k].dirty /\ ~cache'[p][k].dirty =>
                  \/ store'[p][k].val = cache[p][k].val
                  \/ \E v \in Values : Set(p, k, v)
                  \/ LuaReset(p) \/ EnterLoadLevel(p) \/ NewSession(p)
                  \/ \E c \in Clients : ReceiveFromServer(c) \/ ReceiveFromClient(c)]_vars
  BY <1>1, StepWrites
<1> QED
  BY <1>1, Invariance, PTL DEF Spec, WritesReachStore

\* What a savegame gets of a variable is what a script would have read.
LEMMA StepSaves ==
  ASSUME IInv, Coherence, [Next]_vars, saved' # saved,
         NEW k \in registered[Server], Has(k, "Persistent")
  PROVE  saved'[k] = Visible(k)
<1>1. SaveGame
  BY DEF Next, ScriptStep, GameStep, NetStep, RegisterPrototype, Push, MarkDirty, Set, OnUpdate,
         SyncVariables, EnterLoadLevel, EnterRunning, ObjectAppears, NewSession, LuaReset,
         OnAcceptMessage, ReceiveFromServer, ReceiveHello, ReceiveFromClient, LoadGame, vars
<1>2. Server \in Peers /\ k \in Keys
  BY DEF Peers, IInv, BaseInv
<1> DEFINE f == [x \in Keys |-> cache[Server][x].val]
           F == CachedWrites(Server)
<1>3. /\ SetDirty(Server, F, f) /\ phase[Server] = "Running"
      /\ saved' = [x \in Keys |-> IF x \in registered[Server] /\ Has(x, "Persistent")
                                  THEN store'[Server][x].val ELSE Absent]
  BY <1>1 DEF SaveGame
<1>4. saved'[k] = store'[Server][k].val
  BY <1>2, <1>3
<1>5. f[k] = cache[Server][k].val
  BY <1>2
<1> HIDE DEF f
<1>6. store'[Server][k].val = IF k \in F THEN f[k] ELSE store[Server][k].val
  BY <1>2, <1>3 DEF SetDirty, IInv, StoreInv
<1>7. CASE k \in F
  <2>1. cache[Server][k].val # Absent
    BY <1>2, <1>7 DEF CachedWrites, IInv, CacheInv
  <2> QED
    BY <1>4, <1>5, <1>6, <1>7, <2>1 DEF Visible
<1>8. CASE k \notin F
  <2>1. ~cache[Server][k].dirty
    BY <1>2, <1>8 DEF CachedWrites, IInv, CacheInv
  <2>2. cache[Server][k].val # Absent => cache[Server][k].val = store[Server][k].val
    BY <1>2, <1>3, <2>1 DEF Coherence, CoherentAt
  <2> QED
    BY <1>4, <1>6, <1>8, <2>2 DEF Visible
<1> QED
  BY <1>7, <1>8

\* A savegame has what scripts see, cached or not, whenever it is made (SavegameVisit,
\* UserVariables.inl:392-463).
THEOREM SavesAreCurrent == Spec => SaveIsCurrent
<1>1. ASSUME IInv, Coherence, [Next]_vars
      PROVE  [saved' # saved =>
                \A k \in registered[Server] : Has(k, "Persistent") => saved'[k] = Visible(k)]_vars
  BY <1>1, StepSaves
<1>2. Init => Coherence
  BY DEF Init, Coherence, NeverCached, CoherentAt, NoVars, NoEntry
<1> QED
  BY <1>1, <1>2, Invariance, StepCoherent, PTL DEF Spec, SaveIsCurrent
===============================================================================
