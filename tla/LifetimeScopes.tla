---------------------------- MODULE LifetimeScopes ----------------------------
(***************************************************************************)
(* What the lifetime pool of a Lua state promises to the values that Lua    *)
(* holds: scopes open and close, a value is made in a scope, and it can be  *)
(* used exactly as long as its scope is open.  Nothing is said of slots,    *)
(* salts or bitmaps.                                                        *)
(***************************************************************************)
EXTENDS Naturals, Sequences, FiniteSets

CONSTANTS
  Scopes,    \* names of scopes
  NoScope,   \* the scope of values that can never be used
  Capacity   \* how many scopes may be open at a time

VARIABLES
  root,      \* the scope of the Lua state itself, NoScope if there is none
  stack,     \* the scopes of the running calls, innermost last
  owned,     \* the scopes of objects that Lua owns
  values,    \* the scopes of the values that Lua still holds
  usable     \* those whose values can be used

vars == <<root, stack, owned, values, usable>>

Open == ({root} \cup owned \cup {stack[i] : i \in DOMAIN stack}) \ {NoScope}

Fresh == Scopes \ (Open \cup values \cup {NoScope})

Full == Cardinality(Open) = Capacity

Pop(s) == SubSeq(s, 1, Len(s) - 1)

Init ==
  /\ root \in Scopes \ {NoScope}
  /\ stack = <<>>
  /\ owned = {}
  /\ values = {}
  /\ usable = {}

Enter ==
  /\ \/ \E s \in Fresh : stack' = Append(stack, s)
     \/ Full /\ stack' = Append(stack, NoScope)
     \/ stack' = Append(stack, root)
  /\ UNCHANGED <<root, owned, values>>

Leave ==
  /\ stack # <<>>
  /\ stack' = Pop(stack)
  /\ UNCHANGED <<root, owned, values>>

Own ==
  /\ \E s \in Fresh : owned' = owned \cup {s}
  /\ UNCHANGED <<root, stack, values>>

Disown ==
  /\ \E s \in owned : owned' = owned \ {s}
  /\ UNCHANGED <<root, stack, values>>

Hold ==
  /\ \E s \in Open \cup {NoScope} : values' = values \cup {s}
  /\ UNCHANGED <<root, stack, owned>>

Forget ==
  /\ \E s \in values : values' = values \ {s}
  /\ UNCHANGED <<root, stack, owned>>

Close ==
  /\ stack = <<>>
  /\ root' = NoScope
  /\ UNCHANGED <<stack, owned, values>>

Reopen ==
  /\ root = NoScope
  /\ owned = {}
  /\ root' \in Scopes \ {NoScope}
  /\ values' = {}
  /\ UNCHANGED <<stack, owned>>

Next ==
  /\ Enter \/ Leave \/ Own \/ Disown \/ Hold \/ Forget \/ Close \/ Reopen
  /\ usable' = values' \cap Open'

Spec == Init /\ [][Next]_vars
=============================================================================
