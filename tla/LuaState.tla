------------------------------- MODULE LuaState -------------------------------
(***************************************************************************)
(* The life of the Lua VM of one extension state                           *)
(* (Extender/Shared/ExtensionState.h/.cpp): threads pin the VM while they  *)
(* run scripts in it, and anything may ask for a reset at any time; the    *)
(* reset is done by whoever finds the VM unpinned.                         *)
(*                                                                         *)
(* Each thread has a call stack of the frames that matter here.  luaMutex_ *)
(* is recursive and needs no variable of its own: a thread holds it while  *)
(* it has a frame past the point where it locks.  LuaReset does not lock.  *)
(***************************************************************************)
EXTENDS Naturals, Sequences, SequencesExt, FiniteSets

CONSTANTS
  Threads,      \* the threads that work with this state
  IsServer,     \* the server pins the new VM while it initialises it
  MaxDepth,     \* bound on the call stacks from which scripts pin or ask again
  MaxRequests   \* bound on the resets that are asked for

ASSUME LuaStateAssumption ==
  /\ IsServer \in BOOLEAN
  /\ MaxDepth \in Nat
  /\ MaxRequests \in Nat
  /\ IsFiniteSet(Threads)

VARIABLES
  stack,           \* the call stack of each thread, innermost frame last
  refs,            \* luaRefs_
  pendingDelete,   \* LuaPendingDelete
  pendingStartup,  \* LuaPendingStartup
  callbacks,       \* luaPostResetCallbacks_: those there before the loop over them
                   \* starts, and those pushed while it runs
  vm,              \* Lua: no VM, or one whose bootstrap scripts (have not) been started
  requests,        \* LuaReset calls so far
  users            \* history: the threads that have used this state so far

vars == <<stack, refs, pendingDelete, pendingStartup, callbacks, vm, requests, users>>

-----------------------------------------------------------------------------
(* Frames.                                                                  *)
(*   body       scripts under a pin                                         *)
(*   rest       the same, after a nested pin: one leaves no more trace than  *)
(*              many, so a body takes one                                    *)
(*   init       State::Initialize under the pin of DoLuaReset               *)
(*   dec        DecLuaRefs, after luaRefs_--                                *)
(*   unlock     the end of DecLuaRefs, and of LuaResetInternal              *)
(*   reset      LuaReset, before it sets LuaPendingDelete                   *)
(*   delete     ... before it sets LuaPendingStartup                        *)
(*   asked      ... before it looks at luaRefs_                             *)
(*   enter      LuaResetInternal, waiting for luaMutex_                     *)
(*   locked     ... at its assertions                                       *)
(*   create     ... in DoLuaReset, the old VM is gone                       *)
(*   inc        ... before IncLuaRefs                                       *)
(*   startup    ... before it looks at LuaPendingStartup                    *)
(*   callbacks  ... in the loop over the post-reset callbacks               *)
(*   weird      ... before the last look at LuaPendingDelete                *)

Resetting == {"locked", "create", "inc", "startup", "callbacks", "weird"}
Scripts   == {"body", "rest"}
Counted   == Scripts \cup {"init", "startup", "callbacks", "weird"}
Asking    == {"reset", "delete", "asked"}
Waiting   == Asking \cup {"enter"}
Frames    == Resetting \cup Counted \cup Waiting \cup {"dec", "unlock"}

At(t, label) == stack[t] # <<>> /\ Last(stack[t]) = label

Within(labels) == \E t \in Threads : \E i \in DOMAIN stack[t] : stack[t][i] \in labels

Goto(t, label) == stack' = [stack EXCEPT ![t] = Append(Front(@), label)]
Call(t, label) == stack' = [stack EXCEPT ![t] = Append(@, label)]
GotoAndCall(t, next, label) ==
  stack' = [stack EXCEPT ![t] = Append(Append(Front(@), next), label)]
Return(t) == stack' = [stack EXCEPT ![t] = Front(@)]

Holds(t)   == \E i \in DOMAIN stack[t] : stack[t][i] \notin Waiting
CanLock(t) == \A u \in Threads \ {t} : ~Holds(u)

\* Scripts run: nowhere, or under a pin.
MayAct(t) == (stack[t] = <<>> \/ \E s \in Scripts : At(t, s)) /\ Len(stack[t]) < MaxDepth

\* LuaVirtualPin and LuaStatePin as conditions.
Usable == ~pendingDelete /\ vm # "none"

-----------------------------------------------------------------------------
(* Pins. *)

\* IncLuaRefs, by the constructor of a pin.
IncLuaRefs(t) ==
  /\ MayAct(t) /\ CanLock(t)
  /\ IF stack[t] = <<>> THEN Call(t, "body")
                        ELSE At(t, "body") /\ GotoAndCall(t, "rest", "body")
  /\ refs' = refs + 1
  /\ users' = users \cup {t}
  /\ UNCHANGED <<pendingDelete, pendingStartup, callbacks, vm, requests>>

\* The end of a pin's scope.
DecLuaRefs(t) ==
  /\ \E s \in Scripts \cup {"init"} : At(t, s)
  /\ Goto(t, "dec")
  /\ refs' = refs - 1
  /\ UNCHANGED <<pendingDelete, pendingStartup, callbacks, vm, requests, users>>

\* Variant of the next: leaves the pending reset to somebody else.
CheckPendingNever(t) ==
  /\ At(t, "dec")
  /\ Return(t)
  /\ UNCHANGED <<refs, pendingDelete, pendingStartup, callbacks, vm, requests, users>>

\* ... which resets the VM on behalf of whoever asked, if this was the last pin.
CheckPending(t) ==
  /\ At(t, "dec")
  /\ IF refs = 0 /\ pendingDelete THEN GotoAndCall(t, "unlock", "enter") ELSE Return(t)
  /\ UNCHANGED <<refs, pendingDelete, pendingStartup, callbacks, vm, requests, users>>

Unlock(t) ==
  /\ At(t, "unlock")
  /\ Return(t)
  /\ UNCHANGED <<refs, pendingDelete, pendingStartup, callbacks, vm, requests, users>>

-----------------------------------------------------------------------------
(* Asking for a reset. *)

\* Some thread is in the loop over the callbacks.
Iterating == Within({"callbacks"})

\* LoadExtensionState asks for a reset; ResetLuaState and a client that gets
\* S2CResetLua register a callback before they do.
LuaReset(t) ==
  /\ MayAct(t) /\ requests < MaxRequests
  /\ callbacks' \in {callbacks, callbacks \cup {IF Iterating THEN "late" ELSE "early"}}
  /\ Call(t, "reset")
  /\ requests' = requests + 1
  /\ users' = users \cup {t}
  /\ UNCHANGED <<refs, pendingDelete, pendingStartup, vm>>

RequestDelete(t) ==
  /\ At(t, "reset")
  /\ pendingDelete' = TRUE
  /\ Goto(t, "delete")
  /\ UNCHANGED <<refs, pendingStartup, callbacks, vm, requests, users>>

RequestStartup(t) ==
  /\ At(t, "delete")
  /\ pendingStartup' = TRUE
  /\ Goto(t, "asked")
  /\ UNCHANGED <<refs, pendingDelete, callbacks, vm, requests, users>>

\* Variant of the next: does not ask whether the VM is in use.
CheckRefsNever(t) ==
  /\ At(t, "asked")
  /\ Goto(t, "enter")
  /\ UNCHANGED <<refs, pendingDelete, pendingStartup, callbacks, vm, requests, users>>

\* Nobody has the VM pinned: reset it now. Otherwise the last pin will.
CheckRefs(t) ==
  /\ At(t, "asked")
  /\ IF refs = 0 THEN Goto(t, "enter") ELSE Return(t)
  /\ UNCHANGED <<refs, pendingDelete, pendingStartup, callbacks, vm, requests, users>>

-----------------------------------------------------------------------------
(* LuaResetInternal. *)

Lock(t) ==
  /\ At(t, "enter") /\ CanLock(t)
  /\ Goto(t, "locked")
  /\ UNCHANGED <<refs, pendingDelete, pendingStartup, callbacks, vm, requests, users>>

\* LuaPendingDelete is cleared and the old VM destroyed.
Destroy(t) ==
  /\ At(t, "locked")
  /\ Goto(t, "create")
  /\ pendingDelete' = FALSE
  /\ vm' = "none"
  /\ UNCHANGED <<refs, pendingStartup, callbacks, requests, users>>

Create(t) ==
  /\ At(t, "create")
  /\ vm' = "fresh"
  /\ IF IsServer THEN GotoAndCall(t, "inc", "init") /\ refs' = refs + 1
                 ELSE Goto(t, "inc") /\ refs' = refs
  /\ UNCHANGED <<pendingDelete, pendingStartup, callbacks, requests, users>>

\* Variant of the next: the new VM is not protected during startup.
ProtectNever(t) ==
  /\ At(t, "inc")
  /\ Goto(t, "startup")
  /\ UNCHANGED <<refs, pendingDelete, pendingStartup, callbacks, vm, requests, users>>

\* "Make sure that we won't get destroyed during startup."
Protect(t) ==
  /\ At(t, "inc")
  /\ Goto(t, "startup")
  /\ refs' = refs + 1
  /\ UNCHANGED <<pendingDelete, pendingStartup, callbacks, vm, requests, users>>

\* Variant of the next: only a VM that is going away anyway is started.
LuaStartupUnprotected(t) ==
  /\ At(t, "startup")
  /\ pendingStartup' = FALSE
  /\ IF pendingStartup /\ pendingDelete
     THEN /\ GotoAndCall(t, "callbacks", "body")
          /\ refs' = refs + 1
          /\ vm' = "booted"
     ELSE Goto(t, "callbacks") /\ UNCHANGED <<refs, vm>>
  /\ UNCHANGED <<pendingDelete, callbacks, requests, users>>

\* The bootstrap scripts run under a pin, if that pin may use the VM.
LuaStartup(t) ==
  /\ At(t, "startup")
  /\ pendingStartup' = FALSE
  /\ IF pendingStartup
     THEN /\ GotoAndCall(t, "callbacks", "body")
          /\ refs' = refs + 1
          /\ vm' = IF Usable THEN "booted" ELSE vm
     ELSE Goto(t, "callbacks") /\ UNCHANGED <<refs, vm>>
  /\ UNCHANGED <<pendingDelete, callbacks, requests, users>>

\* Post-reset callbacks, which pin the VM. Pushing to the vector while it is iterated
\* may or may not make the loop see the new callback.
RunCallback(t) ==
  /\ At(t, "callbacks")
  /\ \E cb \in callbacks :
       /\ cb = "early" \/ "early" \notin callbacks
       /\ callbacks' = callbacks \ {cb}
  /\ Call(t, "body")
  /\ refs' = refs + 1
  /\ UNCHANGED <<pendingDelete, pendingStartup, vm, requests, users>>

\* Variant of the next: forgets to clear the list.
EndCallbacksUncleared(t) ==
  /\ At(t, "callbacks") /\ "early" \notin callbacks
  /\ Goto(t, "weird")
  /\ UNCHANGED <<refs, pendingDelete, pendingStartup, callbacks, vm, requests, users>>

EndCallbacks(t) ==
  /\ At(t, "callbacks") /\ "early" \notin callbacks
  /\ callbacks' = {}
  /\ Goto(t, "weird")
  /\ UNCHANGED <<refs, pendingDelete, pendingStartup, vm, requests, users>>

\* "Lua state deletion requested during startup? Weird": it is dropped; then DecLuaRefs.
Weird(t) ==
  /\ At(t, "weird")
  /\ pendingDelete' = FALSE
  /\ refs' = refs - 1
  /\ Goto(t, "dec")
  /\ UNCHANGED <<pendingStartup, callbacks, vm, requests, users>>

-----------------------------------------------------------------------------
Init ==
  /\ stack = [t \in Threads |-> <<>>]
  /\ refs = 0
  /\ pendingDelete = FALSE
  /\ pendingStartup = FALSE
  /\ callbacks = {}
  /\ vm = "none"
  /\ requests = 0
  /\ users = {}

LuaResetInternal(t) ==
  \/ Lock(t)
  \/ Destroy(t)
  \/ Create(t)
  \/ Protect(t)
  \/ LuaStartup(t)
  \/ RunCallback(t)
  \/ EndCallbacks(t)
  \/ Weird(t)

\* What a thread does without a choice once it is under way.
Continue(t) ==
  \/ CheckPending(t)
  \/ Unlock(t)
  \/ RequestDelete(t)
  \/ RequestStartup(t)
  \/ CheckRefs(t)
  \/ LuaResetInternal(t)

Next == \E t \in Threads : IncLuaRefs(t) \/ DecLuaRefs(t) \/ LuaReset(t) \/ Continue(t)

Spec == Init /\ [][Next]_vars

\* Threads run, and what runs under a pin ends.
Fairness ==
  \A t \in Threads :
    /\ WF_vars(Continue(t))
    /\ WF_vars(DecLuaRefs(t))

FairSpec == Spec /\ Fairness
-----------------------------------------------------------------------------
(* Properties. *)

\* The shape of the state; luaRefs_ is never decremented below zero (the assertion of
\* DecLuaRefs).
TypeOK ==
  /\ stack \in [Threads -> Seq(Frames)]
  /\ refs \in Nat
  /\ pendingDelete \in BOOLEAN /\ pendingStartup \in BOOLEAN
  /\ callbacks \subseteq {"early", "late"}
  /\ vm \in {"none", "fresh", "booted"}
  /\ requests \in 0..MaxRequests
  /\ users \subseteq Threads

PinFrames ==
  UNION {{t} \X {i \in DOMAIN stack[t] : stack[t][i] \in Counted} : t \in Threads}

\* luaRefs_, which one thread may read while another counts, is the number of pins.
RefsArePins == refs = Cardinality(PinFrames)

\* assert(luaRefs_ == 0) of LuaResetInternal: although LuaReset looks at luaRefs_
\* without the mutex, nobody has the VM pinned once the reset has it.
AssertNoRefs == \A t \in Threads : At(t, "locked") => refs = 0

\* A VM is not destroyed while any thread runs scripts in it or starts it up.
PinnedVMStays == [][vm # "none" /\ vm' = "none" => PinFrames = {}]_vars

\* assert(LuaPendingDelete) of LuaResetInternal (ExtensionState.cpp:526).
AssertPendingDelete == \A t \in Threads : At(t, "locked") => pendingDelete

\* As long as one thread uses the state: whatever resets its scripts, bootstraps and
\* callbacks ask for, the VM it is left with has had its bootstrap scripts started.
BootstrapsRun == Cardinality(users) <= 1 /\ ~Within(Resetting) => vm # "fresh"

\* As long as one thread uses the state: a callback that is still registered has a reset
\* to come, so it will not run after somebody else's.
CallbacksAwaitReset ==
  Cardinality(users) <= 1 /\ callbacks # {} => pendingDelete \/ Within(Asking \cup Resetting)

\* A reset that was asked for is done or refused, whoever has the VM pinned.
PendingSettles == pendingDelete ~> ~pendingDelete
===============================================================================
