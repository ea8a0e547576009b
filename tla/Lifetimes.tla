------------------------------- MODULE Lifetimes ------------------------------
(***************************************************************************)
(* The lifetimes of a Lua state (Lua/Shared/LuaLifetime.h).  C++ objects    *)
(* that Lua sees through proxies live shorter than the proxies: a proxy     *)
(* carries the handle of a lifetime, and is only followed while that handle *)
(* resolves.  Lifetimes come from a pool of slots with three levels of      *)
(* bitmaps; a slot is reused as soon as it is free, and a salt tells its    *)
(* uses apart.                                                              *)
(*                                                                         *)
(* A bitmap word is the set of its one-bits (a one: something free below).  *)
(* A lifetime is written [index, salt, n]; the first two are its handle, n  *)
(* is history: it is the n-th use of that slot.                             *)
(***************************************************************************)
EXTENDS Integers, Sequences, FiniteSets, Functions

CONSTANTS
  PageBits,    \* bits of a bitmap word (64)
  RootWords,   \* words of the top bitmap (1)
  Salts,       \* different salts (2^30)
  MaxUses,     \* bound on the uses of a slot
  MaxAllocations, \* bound on the allocations from one pool
  MaxDepth,    \* bound on nested calls
  MaxOwners,   \* bound on the objects Lua owns at a time
  MaxRefs      \* bound on the other proxies it holds at a time

ASSUME LifetimesAssumption ==
  /\ PageBits \in Nat \ {0, 1}
  /\ RootWords \in Nat \ {0}
  /\ Salts \in Nat \ {0, 1}
  /\ MaxUses \in Nat \ {0}
  /\ MaxAllocations \in Nat
  /\ MaxDepth \in Nat
  /\ MaxOwners \in Nat
  /\ MaxRefs \in Nat

Bits   == 0 .. PageBits - 1
Words1 == 0 .. RootWords - 1
Words2 == 0 .. RootWords * PageBits - 1
Words3 == 0 .. RootWords * PageBits * PageBits - 1
Slots  == 0 .. RootWords * PageBits * PageBits * PageBits - 1

VARIABLES
  l1, l2, l3,  \* l1_, l2_, l3_: the one-bits of each word
  alive,       \* isAlive_ of each slot
  salt,        \* salt_ of each slot
  uses,        \* history: how often each slot was acquired
  phase,       \* of the Lua state: open, closing (in ~State), gone
  global,      \* globalLifetime_
  frames,      \* lifetimeStack_, and whether leaving the frame kills the lifetime
  owners,      \* the lifetimes of LifetimeOwnerPins
  refs         \* the lifetimes that the other proxies held by Lua name

pool == <<l1, l2, l3, alive, salt, uses>>
vars == <<pool, phase, global, frames, owners, refs>>

Null == [index |-> 0, salt |-> 0, n |-> 0]

Lifetime == [index : Slots, salt : 0 .. Salts - 1, n : 0 .. MaxUses]

TypeOK ==
  /\ l1 \in [Words1 -> SUBSET Bits]
  /\ l2 \in [Words2 -> SUBSET Bits]
  /\ l3 \in [Words3 -> SUBSET Bits]
  /\ alive \in [Slots -> BOOLEAN]
  /\ salt \in [Slots -> 0 .. Salts - 1]
  /\ uses \in [Slots -> 0 .. MaxUses]
  /\ phase \in {"open", "closing", "gone"}
  /\ global \in Lifetime
  /\ frames \in Seq([lifetime : Lifetime, kills : BOOLEAN])
  /\ owners \in SUBSET Lifetime
  /\ refs \in SUBSET Lifetime

-----------------------------------------------------------------------------
(* The pool.                                                                *)

Lowest(S) == CHOOSE x \in S : \A y \in S : x <= y

IsNull(h) == h.index = 0 /\ h.salt = 0

(* LifetimePool::Get finds the lifetime.                                    *)
Resolves(h) ==
  /\ ~IsNull(h)
  /\ salt[h.index] = h.salt
  /\ alive[h.index]

(* HierarchicalPoolAllocator::Allocate: the words and bits its scans find.  *)
HasFree == \E w \in Words1 : l1[w] # {}
W1 == Lowest({w \in Words1 : l1[w] # {}})
B1 == Lowest(l1[W1])
W2 == W1 * PageBits + B1
B2 == Lowest(l2[W2])
W3 == W2 * PageBits + B2
B3 == Lowest(l3[W3])
FreeSlot == W3 * PageBits + B3

AcquireUnmasked(s) ==
  /\ alive' = [alive EXCEPT ![s] = TRUE]
  /\ salt' = [salt EXCEPT ![s] = @ + 1]
  /\ uses' = [uses EXCEPT ![s] = @ + 1]

AcquireSameSalt(s) ==
  /\ alive' = [alive EXCEPT ![s] = TRUE]
  /\ uses' = [uses EXCEPT ![s] = @ + 1]
  /\ UNCHANGED salt

(* Lifetime::Acquire *)
Acquire(s) ==
  /\ alive' = [alive EXCEPT ![s] = TRUE]
  /\ salt' = [salt EXCEPT ![s] = (@ + 1) % Salts]
  /\ uses' = [uses EXCEPT ![s] = @ + 1]

(* No proxy is kept while its slot is used as often again as there are      *)
(* salts: the handle could not tell the uses apart.                         *)
Distinct(s) == \A r \in refs : r.index = s => uses[s] + 1 - r.n < Salts

Bounded(s) == uses[s] < MaxUses /\ FoldFunction(+, 0, uses) < MaxAllocations

Allocate ==
  /\ Bounded(FreeSlot)
  /\ Distinct(FreeSlot)
  /\ l3' = [l3 EXCEPT ![W3] = @ \ {B3}]
  /\ l2' = IF l3[W3] = {B3} THEN [l2 EXCEPT ![W2] = @ \ {B2}] ELSE l2
  /\ l1' = IF l3[W3] = {B3} /\ l2[W2] = {B2}
           THEN [l1 EXCEPT ![W1] = @ \ {B1}] ELSE l1
  /\ Acquire(FreeSlot)

(* The lifetime that Allocate returns, its salt already counted up.         *)
Allocated ==
  [index |-> FreeSlot, salt |-> (salt[FreeSlot] + 1) % Salts, n |-> uses[FreeSlot] + 1]

FreeL1Kept(s) ==
  LET w3 == s \div PageBits
      w2 == w3 \div PageBits
  IN  /\ l3' = [l3 EXCEPT ![w3] = @ \cup {s % PageBits}]
      /\ l2' = IF l3[w3] = {} THEN [l2 EXCEPT ![w2] = @ \cup {w3 % PageBits}] ELSE l2
      /\ alive' = [alive EXCEPT ![s] = FALSE]
      /\ UNCHANGED <<l1, salt, uses>>

(* HierarchicalPoolAllocator::Free *)
Free(s) ==
  LET w3 == s \div PageBits
      w2 == w3 \div PageBits
      w1 == w2 \div PageBits
  IN  /\ l3' = [l3 EXCEPT ![w3] = @ \cup {s % PageBits}]
      /\ l2' = IF l3[w3] = {} THEN [l2 EXCEPT ![w2] = @ \cup {w3 % PageBits}] ELSE l2
      /\ l1' = IF l3[w3] = {} /\ l2[w2] = {}
               THEN [l1 EXCEPT ![w1] = @ \cup {w2 % PageBits}] ELSE l1
      /\ alive' = [alive EXCEPT ![s] = FALSE]
      /\ UNCHANGED <<salt, uses>>

(* LifetimePool::Release *)
Release(h) ==
  \/ Resolves(h) /\ Free(h.index)
  \/ ~Resolves(h) /\ UNCHANGED pool

-----------------------------------------------------------------------------
(* The lifetime stack and the pins.                                         *)

Top == frames[Len(frames)].lifetime

(* State::GetCurrentLifetime: with nothing on the stack, a null handle.     *)
Current == IF frames = <<>> THEN Null ELSE Top

(* ~LifetimeStackPin pops what its constructor pushed: C++ scopes nest.     *)
Pop == SubSeq(frames, 1, Len(frames) - 1)

Push(l, kills) == frames' = Append(frames, [lifetime |-> l, kills |-> kills])

(* LifetimeStackPin::LifetimeStackPin; a full pool gives the null handle.   *)
EnterCall ==
  /\ phase = "open"
  /\ Len(frames) < MaxDepth
  /\ \/ HasFree /\ Allocate /\ Push(Allocated, TRUE)
     \/ ~HasFree /\ Push(Null, TRUE) /\ UNCHANGED pool
  /\ UNCHANGED <<phase, global, owners, refs>>

EnterCommandKills ==
  /\ phase = "open"
  /\ Len(frames) < MaxDepth
  /\ Push(global, TRUE)
  /\ UNCHANGED <<pool, phase, global, owners, refs>>

(* The StaticLifetimeStackPin of a console command, on the global lifetime. *)
EnterCommand ==
  /\ phase = "open"
  /\ Len(frames) < MaxDepth
  /\ Push(global, FALSE)
  /\ UNCHANGED <<pool, phase, global, owners, refs>>

(* ~LifetimeStackPin (PopAndKill) and ~StaticLifetimeStackPin (Pop).        *)
LeaveNoKill ==
  /\ frames # <<>>
  /\ frames' = Pop
  /\ UNCHANGED <<pool, phase, global, owners, refs>>

Leave ==
  /\ frames # <<>>
  /\ frames' = Pop
  /\ IF frames[Len(frames)].kills THEN Release(Top) ELSE UNCHANGED pool
  /\ UNCHANGED <<phase, global, owners, refs>>

(* A proxy that owns its object gets a lifetime of its own.  (From a full   *)
(* pool it gets the null handle, and with it nothing to release.)           *)
NewOwner ==
  /\ phase = "open"
  /\ Cardinality(owners) < MaxOwners
  /\ HasFree
  /\ Allocate
  /\ owners' = owners \cup {Allocated}
  /\ UNCHANGED <<phase, global, frames, refs>>

(* ~LifetimeOwnerPin, in the finalizer of the proxy.                        *)
DropOwner(o) ==
  /\ Release(o)
  /\ owners' = owners \ {o}
  /\ UNCHANGED <<phase, global, frames, refs>>

(* A proxy to an object of the current call, the state or an owned object.  *)
MakeRef(l) ==
  /\ phase = "open"
  /\ Cardinality(refs) < MaxRefs
  /\ l \in {Current, global} \cup owners
  /\ refs' = refs \cup {l}
  /\ UNCHANGED <<pool, phase, global, frames, owners>>

(* Lua collects it.                                                         *)
DropRef(r) ==
  /\ refs' = refs \ {r}
  /\ UNCHANGED <<pool, phase, global, frames, owners>>

-----------------------------------------------------------------------------
(* State::State and ~State.                                                 *)

(* An empty pool from which the global lifetime was allocated: it is slot 0,*)
(* which is why no other lifetime ever has the null handle.                 *)
Global == [index |-> 0, salt |-> 1, n |-> 1]
Fresh1 == [w \in Words1 |-> Bits]
Fresh2 == [w \in Words2 |-> Bits]
Fresh3 == [w \in Words3 |-> IF w = 0 THEN Bits \ {0} ELSE Bits]
FreshAlive == [s \in Slots |-> s = Global.index]
FreshUses == [s \in Slots |-> IF s = Global.index THEN 1 ELSE 0]

Init ==
  /\ l1 = Fresh1 /\ l2 = Fresh2 /\ l3 = Fresh3
  /\ alive = FreshAlive
  /\ salt = FreshUses
  /\ uses = FreshUses
  /\ phase = "open"
  /\ global = Global
  /\ frames = <<>>
  /\ owners = {}
  /\ refs = {}

(* ~State releases the global lifetime and closes the VM, which collects    *)
(* every proxy that is left.                                                *)
Close ==
  /\ phase = "open"
  /\ frames = <<>>
  /\ Release(global)
  /\ phase' = "closing"
  /\ UNCHANGED <<global, frames, owners, refs>>

(* ... and the pool goes with the state.                                    *)
Closed ==
  /\ phase = "closing"
  /\ owners = {}
  /\ refs = {}
  /\ phase' = "gone"
  /\ UNCHANGED <<pool, global, frames, owners, refs>>

(* The next state of the session, with a pool of its own.                   *)
Reset ==
  /\ phase = "gone"
  /\ l1' = Fresh1 /\ l2' = Fresh2 /\ l3' = Fresh3
  /\ alive' = FreshAlive
  /\ salt' = FreshUses
  /\ uses' = FreshUses
  /\ phase' = "open"
  /\ global' = Global
  /\ UNCHANGED <<frames, owners, refs>>

Next ==
  \/ EnterCall
  \/ EnterCommand
  \/ Leave
  \/ NewOwner
  \/ \E o \in owners : DropOwner(o)
  \/ \E l \in {Current, global} \cup owners : MakeRef(l)
  \/ \E r \in refs : DropRef(r)
  \/ Close
  \/ Closed
  \/ Reset

Spec == Init /\ [][Next]_vars

-----------------------------------------------------------------------------
(* Properties.                                                              *)

(* The lifetimes that someone will release: the state's own, those of the   *)
(* calls that pinned one, and those of the objects Lua owns.                *)
Held ==
  ((IF phase = "open" THEN {global} ELSE {}) \cup owners
    \cup {frames[i].lifetime : i \in {j \in DOMAIN frames : frames[j].kills}}) \ {Null}

(* The bitmaps say exactly which slots are free, so the scans of Allocate   *)
(* never come upon a word with nothing in it (its asserts), never hand out  *)
(* a slot in use, and only give up when every slot is in use.               *)
SummariesExact ==
  /\ \A s \in Slots : (s % PageBits) \in l3[s \div PageBits] <=> ~alive[s]
  /\ \A w \in Words3 : (w % PageBits) \in l2[w \div PageBits] <=> l3[w] # {}
  /\ \A w \in Words2 : (w % PageBits) \in l1[w \div PageBits] <=> l2[w] # {}

(* Every slot in use has one holder that will release it and whose handle   *)
(* still resolves: nothing leaks, and ~Lifetime's assert holds at the end.  *)
NothingLeaks ==
  \A s \in Slots : alive[s] => \E l \in Held : l.index = s /\ Resolves(l)

(* A proxy can be followed exactly while the very lifetime it was made in   *)
(* is held: not after its call has returned, although the slot and the      *)
(* stack position are used again, and not cut short by an inner call.       *)
RefsScoped == \A r \in refs : Resolves(r) <=> r \in Held

(* The pool implements the scopes of LifetimeScopes.                        *)
Scope(l) == <<l.index, l.n>>

Abstract == INSTANCE LifetimeScopes WITH
  Scopes <- Slots \X (1 .. MaxUses),
  NoScope <- Scope(Null),
  Capacity <- Cardinality(Slots),
  root <- IF phase = "open" THEN Scope(global) ELSE Scope(Null),
  stack <- [i \in DOMAIN frames |-> Scope(frames[i].lifetime)],
  owned <- {Scope(o) : o \in owners},
  values <- {Scope(r) : r \in refs},
  usable <- {Scope(r) : r \in {q \in refs : Resolves(q)}}

ImplementsScopes == Abstract!Spec
=============================================================================
