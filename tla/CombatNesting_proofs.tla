------------------------ MODULE CombatNesting_proofs ------------------------
(***************************************************************************)
(* Proofs of Combat's properties about nested hooks: that a prevention is  *)
(* that of its own status, that the helpers of hits that are being         *)
(* prepared exist, and that nothing is left of hooks that have returned,   *)
(* for any depth of nesting.                                               *)
(***************************************************************************)
EXTENDS Combat_proofs

-----------------------------------------------------------------------------
(* The flag PreventStatusApply of the machine, and the values of it that   *)
(* frames of OnApplyStatus keep to restore it.                             *)

\* A frame in whose handlers of BeforeStatusApply scripts run, ...
Deciding(f) == f.op = "apply" /\ f.stage = "lua"

\* ... and one that has kept the flag.  D is the domain of pendingStatuses.
Kept(f, D) == f.op = "apply" /\ f.stage # "osiris" /\ f.s \in D

\* No frame of q between i and j has.
Clear(q, i, j, D) == \A k \in 1 .. Len(q) : i < k /\ k < j => ~Kept(q[k], D)

\* The flag is that of the bottom (FALSE), or of a frame that decides, exactly while no
\* frame above it has kept the flag; otherwise the lowest of those has the value.
Bases(q) == {0} \cup {i \in 1 .. Len(q) : Deciding(q[i])}

Flag(q, i, ask) == i # 0 /\ q[i].s \in ask

Chain(q, D, flag, ask) ==
  \A i \in Bases(q) :
    /\ \A j \in 1 .. Len(q) : i < j /\ Kept(q[j], D) /\ Clear(q, i, j, D)
                                => (q[j].prev = TRUE <=> Flag(q, i, ask))
    /\ Clear(q, i, Len(q) + 1, D) => (flag = TRUE <=> Flag(q, i, ask))

\* A frame that keeps no flag comes on top.
LEMMA ChainPush ==
  ASSUME NEW q, NEW r, NEW D, NEW flag, NEW ask,
         Len(q) \in Nat, Len(r) = Len(q) + 1,
         \A i \in 1 .. Len(q) : r[i] = q[i],
         ~Kept(r[Len(r)], D), ~Deciding(r[Len(r)]),
         Chain(q, D, flag, ask)
  PROVE  Chain(r, D, flag, ask)
<1> SUFFICES ASSUME NEW i \in Bases(r)
             PROVE  /\ \A j \in 1 .. Len(r) : i < j /\ Kept(r[j], D) /\ Clear(r, i, j, D)
                                => (r[j].prev = TRUE <=> Flag(r, i, ask))
                    /\ Clear(r, i, Len(r) + 1, D) => (flag = TRUE <=> Flag(r, i, ask))
  BY DEF Chain
<1>1. i \in Bases(q) /\ (Flag(r, i, ask) <=> Flag(q, i, ask)) /\ i \in Nat /\ i <= Len(q)
  BY DEF Bases, Flag
<1>2. ASSUME NEW j \in 1 .. Len(r), i < j, Kept(r[j], D), Clear(r, i, j, D)
      PROVE  r[j].prev = TRUE <=> Flag(r, i, ask)
  <2>1. j \in 1 .. Len(q) /\ Kept(q[j], D) /\ r[j] = q[j]
    BY <1>2
  <2>2. Clear(q, i, j, D)
    BY <1>2, <2>1 DEF Clear
  <2> QED
    BY <1>1, <1>2, <2>1, <2>2 DEF Chain
<1>3. ASSUME Clear(r, i, Len(r) + 1, D)
      PROVE  flag = TRUE <=> Flag(r, i, ask)
  <2>1. Clear(q, i, Len(q) + 1, D)
    BY <1>3 DEF Clear
  <2> QED
    BY <1>1, <2>1 DEF Chain
<1> QED
  BY <1>2, <1>3

\* A frame that kept no flag returns.
LEMMA ChainPop ==
  ASSUME NEW q, NEW r, NEW D, NEW flag, NEW ask,
         Len(q) \in Nat, Len(r) \in Nat, Len(q) = Len(r) + 1,
         \A i \in 1 .. Len(r) : r[i] = q[i],
         ~Kept(q[Len(q)], D), ~Deciding(q[Len(q)]),
         Chain(q, D, flag, ask)
  PROVE  Chain(r, D, flag, ask)
<1> SUFFICES ASSUME NEW i \in Bases(r)
             PROVE  /\ \A j \in 1 .. Len(r) : i < j /\ Kept(r[j], D) /\ Clear(r, i, j, D)
                                => (r[j].prev = TRUE <=> Flag(r, i, ask))
                    /\ Clear(r, i, Len(r) + 1, D) => (flag = TRUE <=> Flag(r, i, ask))
  BY DEF Chain
<1>1. i \in Bases(q) /\ (Flag(r, i, ask) <=> Flag(q, i, ask)) /\ i \in Nat /\ i <= Len(r)
  BY DEF Bases, Flag
<1>2. ASSUME NEW j \in 1 .. Len(r), i < j, Kept(r[j], D), Clear(r, i, j, D)
      PROVE  r[j].prev = TRUE <=> Flag(r, i, ask)
  <2>1. j \in 1 .. Len(q) /\ Kept(q[j], D) /\ r[j] = q[j]
    BY <1>2
  <2>2. Clear(q, i, j, D)
    BY <1>2, <2>1 DEF Clear
  <2> QED
    BY <1>1, <1>2, <2>1, <2>2 DEF Chain
<1>3. ASSUME Clear(r, i, Len(r) + 1, D)
      PROVE  flag = TRUE <=> Flag(r, i, ask)
  <2>1. Clear(q, i, Len(q) + 1, D)
    BY <1>3 DEF Clear
  <2> QED
    BY <1>1, <2>1 DEF Chain
<1> QED
  BY <1>2, <1>3

\* Frames, domain and flag stay as far as the chain is concerned.
LEMMA ChainSame ==
  ASSUME NEW q, NEW r, NEW D, NEW E, NEW flag, NEW ask, NEW asked2,
         Len(q) \in Nat, Len(r) = Len(q),
         \A i \in 1 .. Len(q) : Kept(r[i], E) <=> Kept(q[i], D),
         \A i \in 1 .. Len(q) : Kept(r[i], E) => r[i].prev = q[i].prev,
         \A i \in 1 .. Len(q) : Deciding(r[i]) => Deciding(q[i]) /\ r[i].s = q[i].s,
         \A i \in 1 .. Len(q) : Deciding(q[i]) => (q[i].s \in asked2 <=> q[i].s \in ask),
         Chain(q, D, flag, ask)
  PROVE  Chain(r, E, flag, asked2)
<1> SUFFICES ASSUME NEW i \in Bases(r)
             PROVE  /\ \A j \in 1 .. Len(r) : i < j /\ Kept(r[j], E) /\ Clear(r, i, j, E)
                                => (r[j].prev = TRUE <=> Flag(r, i, asked2))
                    /\ Clear(r, i, Len(r) + 1, E) => (flag = TRUE <=> Flag(r, i, asked2))
  BY DEF Chain
<1>1. i \in Bases(q) /\ (Flag(r, i, asked2) <=> Flag(q, i, ask))
  BY DEF Bases, Flag
<1>2. ASSUME NEW j \in 1 .. Len(r), i < j, Kept(r[j], E), Clear(r, i, j, E)
      PROVE  r[j].prev = TRUE <=> Flag(r, i, asked2)
  <2>1. j \in 1 .. Len(q) /\ Kept(q[j], D) /\ r[j].prev = q[j].prev
    BY <1>2
  <2>2. Clear(q, i, j, D)
    BY <1>2, <2>1 DEF Clear
  <2> QED
    BY <1>1, <1>2, <2>1, <2>2 DEF Chain
<1>3. ASSUME Clear(r, i, Len(r) + 1, E)
      PROVE  flag = TRUE <=> Flag(r, i, asked2)
  <2>1. Clear(q, i, Len(q) + 1, D)
    BY <1>3 DEF Clear
  <2> QED
    BY <1>1, <2>1 DEF Chain
<1> QED
  BY <1>2, <1>3

\* The top frame keeps the flag and sets it for its own status.
LEMMA ChainKeep ==
  ASSUME NEW q, NEW r, NEW D, NEW flag, NEW flag2, NEW ask,
         Len(q) \in Nat \ {0}, Len(r) = Len(q),
         \A i \in 1 .. Len(q) - 1 : r[i] = q[i],
         ~Kept(q[Len(q)], D), ~Deciding(q[Len(q)]),
         Kept(r[Len(q)], D), Deciding(r[Len(q)]), r[Len(q)].prev = flag,
         flag2 = TRUE <=> r[Len(q)].s \in ask,
         Chain(q, D, flag, ask)
  PROVE  Chain(r, D, flag2, ask)
<1> DEFINE n == Len(q)
<1> SUFFICES ASSUME NEW i \in Bases(r)
             PROVE  /\ \A j \in 1 .. Len(r) : i < j /\ Kept(r[j], D) /\ Clear(r, i, j, D)
                                => (r[j].prev = TRUE <=> Flag(r, i, ask))
                    /\ Clear(r, i, Len(r) + 1, D) => (flag2 = TRUE <=> Flag(r, i, ask))
  BY DEF Chain
<1>1. i \in Nat /\ i <= n
  BY DEF Bases
<1>2. CASE i = n
  <2>1. Flag(r, i, ask) <=> r[n].s \in ask
    BY <1>2 DEF Flag
  <2> QED
    BY <1>2, <2>1
<1>3. CASE i < n
  <2>1. i \in Bases(q) /\ (Flag(r, i, ask) <=> Flag(q, i, ask))
    BY <1>1, <1>3 DEF Bases, Flag
  <2>2. ~Clear(r, i, Len(r) + 1, D)
    BY <1>1, <1>3 DEF Clear
  <2>3. ASSUME NEW j \in 1 .. Len(r), i < j, Kept(r[j], D), Clear(r, i, j, D)
        PROVE  r[j].prev = TRUE <=> Flag(r, i, ask)
    <3>1. CASE j = n
      <4>1. Clear(q, i, n + 1, D)
        BY <2>3, <3>1, <1>1 DEF Clear
      <4> QED
        BY <4>1, <3>1, <2>1 DEF Chain
    <3>2. CASE j < n
      <4>1. j \in 1 .. n /\ Kept(q[j], D) /\ r[j] = q[j]
        BY <3>2, <2>3
      <4>2. Clear(q, i, j, D)
        BY <2>3, <3>2, <4>1 DEF Clear
      <4> QED
        BY <4>1, <4>2, <2>1, <2>3 DEF Chain
    <3>3. j = n \/ j < n
      OBVIOUS
    <3> QED
      BY <3>1, <3>2, <3>3
  <2> QED
    BY <2>2, <2>3
<1>4. i = n \/ i < n
  BY <1>1
<1> HIDE DEF n
<1> QED
  BY <1>2, <1>3, <1>4

\* The top frame has decided; the flag may be set by that.
LEMMA ChainDecide ==
  ASSUME NEW q, NEW r, NEW D, NEW flag, NEW flag2, NEW ask, NEW asked2,
         Len(q) \in Nat \ {0}, Len(r) = Len(q),
         \A i \in 1 .. Len(q) - 1 : r[i] = q[i],
         Kept(q[Len(q)], D), Kept(r[Len(q)], D), ~Deciding(r[Len(q)]),
         r[Len(q)].prev = q[Len(q)].prev,
         \A i \in 1 .. Len(q) - 1 : Deciding(q[i]) => (q[i].s \in asked2 <=> q[i].s \in ask),
         Chain(q, D, flag, ask)
  PROVE  Chain(r, D, flag2, asked2)
<1> DEFINE n == Len(q)
<1> SUFFICES ASSUME NEW i \in Bases(r)
             PROVE  /\ \A j \in 1 .. Len(r) : i < j /\ Kept(r[j], D) /\ Clear(r, i, j, D)
                                => (r[j].prev = TRUE <=> Flag(r, i, asked2))
                    /\ Clear(r, i, Len(r) + 1, D) => (flag2 = TRUE <=> Flag(r, i, asked2))
  BY DEF Chain
<1>1. i \in Nat /\ i < n /\ i \in Bases(q) /\ (Flag(r, i, asked2) <=> Flag(q, i, ask))
  BY DEF Bases, Flag
<1>2. ~Clear(r, i, Len(r) + 1, D)
  BY <1>1 DEF Clear
<1>3. ASSUME NEW j \in 1 .. Len(r), i < j, Kept(r[j], D), Clear(r, i, j, D)
      PROVE  r[j].prev = TRUE <=> Flag(r, i, asked2)
  <2>1. j \in 1 .. n /\ Kept(q[j], D) /\ r[j].prev = q[j].prev
    BY <1>3
  <2>2. Clear(q, i, j, D)
    BY <1>3, <2>1 DEF Clear
  <2> QED
    BY <1>1, <1>3, <2>1, <2>2 DEF Chain
<1> QED
  BY <1>2, <1>3

\* The top frame returns and restores the flag it kept.
LEMMA ChainRestore ==
  ASSUME NEW q, NEW r, NEW D, NEW E, NEW flag, NEW ask,
         Len(q) \in Nat \ {0}, Len(r) = Len(q) - 1,
         \A i \in 1 .. Len(q) - 1 : r[i] = q[i],
         \A i \in 1 .. Len(q) - 1 : Kept(q[i], E) <=> Kept(q[i], D),
         Kept(q[Len(q)], D),
         Chain(q, D, flag, ask)
  PROVE  Chain(r, E, q[Len(q)].prev, ask)
<1> DEFINE n == Len(q)
<1> SUFFICES ASSUME NEW i \in Bases(r)
             PROVE  /\ \A j \in 1 .. Len(r) : i < j /\ Kept(r[j], E) /\ Clear(r, i, j, E)
                                => (r[j].prev = TRUE <=> Flag(r, i, ask))
                    /\ Clear(r, i, Len(r) + 1, E) => (q[n].prev = TRUE <=> Flag(r, i, ask))
  BY DEF Chain
<1>1. i \in Nat /\ i < n /\ i \in Bases(q) /\ (Flag(r, i, ask) <=> Flag(q, i, ask))
  BY DEF Bases, Flag
<1>2. ASSUME NEW j \in 1 .. Len(r), i < j, Kept(r[j], E), Clear(r, i, j, E)
      PROVE  r[j].prev = TRUE <=> Flag(r, i, ask)
  <2>1. j \in 1 .. n /\ Kept(q[j], D) /\ r[j] = q[j]
    BY <1>2
  <2>2. Clear(q, i, j, D)
    BY <1>2, <2>1 DEF Clear
  <2> QED
    BY <1>1, <1>2, <2>1, <2>2 DEF Chain
<1>3. ASSUME Clear(r, i, Len(r) + 1, E)
      PROVE  q[n].prev = TRUE <=> Flag(r, i, ask)
  <2>1. Clear(q, i, n, D)
    BY <1>3 DEF Clear
  <2> QED
    BY <1>1, <2>1 DEF Chain
<1> QED
  BY <1>2, <1>3
-----------------------------------------------------------------------------
(* The inductive invariant. *)

\* The places of an operation's frames on a stack.
At(q, op) == {i \in 1 .. Len(q) : q[i].op = op}

Typed ==
  /\ stack \in Seq(Frames)
  /\ prevent \in BOOLEAN
  /\ pendingStatuses \in [DOMAIN pendingStatuses -> BOOLEAN]
  /\ pendingApply \in [DOMAIN pendingApply -> BOOLEAN]

\* The helper of a hit that is being prepared is that hit's alone.
HeldBy(q, map, next) ==
  /\ next \in Nat
  /\ \A h \in DOMAIN map : h \in Nat /\ h < next
  /\ \A i \in At(q, "hit") : q[i].h \in DOMAIN map /\ map[q[i].h] = "prepare"
  /\ \A i, j \in At(q, "hit") : i # j => q[i].h # q[j].h
  /\ \A i \in At(q, "execute") :
       q[i].h < next /\ (q[i].h \in DOMAIN map => map[q[i].h] = "custom")
  /\ \A h \in DOMAIN map : map[h] = "custom" \/ \E i \in At(q, "hit") : q[i].h = h

\* A status is applied once at a time, ...
Once(q) ==
  /\ \A i, j \in At(q, "apply") : i # j => q[i].s # q[j].s
  /\ \A i, j \in At(q, "execute") : i # j => q[i].s # q[j].s
  /\ \A i \in At(q, "execute"), j \in At(q, "apply") : q[i].stage # "end" => q[i].s # q[j].s

\* ... what is pending of it is what its handlers asked for, until they are done, ...
Staged(q, map, ask) ==
  \A i \in At(q, "apply") :
    /\ q[i].stage \in {"osiris", "lua"} => q[i].s \in DOMAIN map
    /\ q[i].stage = "osiris" => (map[q[i].s] = TRUE <=> q[i].s \in ask)
    /\ q[i].stage = "skipped" => q[i].s \in ask
    /\ q[i].stage \in {"direct", "entered"} /\ q[i].s \in DOMAIN map => q[i].s \notin ask

\* ... and it is known as long as it has a frame.
Known(q, op, map) == \A s \in DOMAIN map : \E i \in At(q, op) : q[i].s = s

Nested ==
  /\ Typed
  /\ HeldBy(stack, helpers, nextHelperId)
  /\ Once(stack)
  /\ Staged(stack, pendingStatuses, asked)
  /\ Known(stack, "apply", pendingStatuses)
  /\ Known(stack, "enter", pendingApply)
  /\ Chain(stack, DOMAIN pendingStatuses, prevent, asked)

-----------------------------------------------------------------------------
(* Calls and returns, on the stack. *)

LEMMA Pushed ==
  ASSUME NEW q \in Seq(Frames), NEW f \in Frames
  PROVE  /\ Append(q, f) \in Seq(Frames) /\ Len(q) \in Nat
         /\ Len(Append(q, f)) = Len(q) + 1
         /\ \A i \in 1 .. Len(q) : Append(q, f)[i] = q[i]
         /\ Append(q, f)[Len(q) + 1] = f
OBVIOUS

LEMMA Popped ==
  ASSUME NEW q \in Seq(Frames), q # <<>>
  PROVE  /\ Front(q) \in Seq(Frames) /\ Len(q) \in Nat \ {0}
         /\ Len(Front(q)) = Len(q) - 1
         /\ \A i \in 1 .. Len(q) - 1 : Front(q)[i] = q[i]
         /\ Last(q) = q[Len(q)] /\ Last(q) \in Frames
<1>1. Len(q) \in Nat \ {0} /\ q \in [1 .. Len(q) -> Frames]
  OBVIOUS
<1>2. Len(q) - 1 \in Nat /\ Len(q) - 1 <= Len(q) /\ 1 .. (Len(q) - 1) \subseteq 1 .. Len(q)
  BY <1>1
<1>3. Front(q) \in Seq(Frames)
  BY <1>1, <1>2 DEF Front
<1>4. Len(Front(q)) = Len(q) - 1
  BY <1>1, <1>2 DEF Front
<1>5. ASSUME NEW i \in 1 .. Len(q) - 1 PROVE Front(q)[i] = q[i]
  BY <1>1, <1>2 DEF Front
<1>6. Last(q) = q[Len(q)] /\ Last(q) \in Frames
  BY <1>1 DEF Last
<1> QED
  BY <1>1, <1>3, <1>4, <1>5, <1>6

LEMMA Replaced ==
  ASSUME NEW q \in Seq(Frames), q # <<>>, NEW f \in Frames
  PROVE  LET r == Append(Front(q), f)
         IN  /\ r \in Seq(Frames) /\ Len(q) \in Nat \ {0}
             /\ Len(r) = Len(q)
             /\ \A i \in 1 .. Len(q) - 1 : r[i] = q[i]
             /\ r[Len(q)] = f
             /\ Last(q) = q[Len(q)] /\ Last(q) \in Frames
<1>1. /\ Front(q) \in Seq(Frames) /\ Len(q) \in Nat \ {0}
      /\ Len(Front(q)) = Len(q) - 1
      /\ \A i \in 1 .. Len(q) - 1 : Front(q)[i] = q[i]
      /\ Last(q) = q[Len(q)] /\ Last(q) \in Frames
  BY Popped
<1> HIDE DEF Front
<1>2. /\ Append(Front(q), f) \in Seq(Frames)
      /\ Len(Append(Front(q), f)) = Len(Front(q)) + 1
      /\ \A i \in 1 .. Len(Front(q)) : Append(Front(q), f)[i] = Front(q)[i]
      /\ Append(Front(q), f)[Len(Front(q)) + 1] = f
  BY <1>1, Pushed
<1> QED
  BY <1>1, <1>2

\* What the guards that look through the stack say of its places.
LEMMA InStack ==
  ASSUME NEW q \in Seq(Frames)
  PROVE  ToSet(q) = {q[i] : i \in 1 .. Len(q)}
BY DEF ToSet

\* The top frame f comes on q; the top frame of q returns; it becomes f.
Grown(q, r, f) ==
  /\ Len(q) \in Nat /\ Len(r) = Len(q) + 1
  /\ \A i \in 1 .. Len(q) : r[i] = q[i]
  /\ r[Len(q) + 1] = f

Shrunk(q, r) ==
  /\ Len(q) \in Nat \ {0} /\ Len(r) = Len(q) - 1
  /\ \A i \in 1 .. Len(q) - 1 : r[i] = q[i]

Changed(q, r, f) ==
  /\ Len(q) \in Nat \ {0} /\ Len(r) = Len(q)
  /\ \A i \in 1 .. Len(q) - 1 : r[i] = q[i]
  /\ r[Len(q)] = f

LEMMA Pushes ==
  ASSUME NEW q \in Seq(Frames), NEW f \in Frames
  PROVE  Append(q, f) \in Seq(Frames) /\ Grown(q, Append(q, f), f)
BY Pushed DEF Grown

LEMMA Pops ==
  ASSUME NEW q \in Seq(Frames), q # <<>>
  PROVE  /\ Front(q) \in Seq(Frames) /\ Shrunk(q, Front(q))
         /\ Last(q) = q[Len(q)] /\ Last(q) \in Frames /\ Len(q) \in 1 .. Len(q)
BY Popped DEF Shrunk

LEMMA Replaces ==
  ASSUME NEW q \in Seq(Frames), q # <<>>, NEW f \in Frames
  PROVE  Append(Front(q), f) \in Seq(Frames) /\ Changed(q, Append(Front(q), f), f)
BY Replaced DEF Changed

-----------------------------------------------------------------------------
(* What a change of the stack keeps of the parts. *)

LEMMA HeldGrown ==
  ASSUME NEW q, NEW r, NEW f, NEW map, NEW next, Grown(q, r, f), f.op \notin {"hit", "execute"},
         HeldBy(q, map, next)
  PROVE  HeldBy(r, map, next)
<1>1. At(r, "hit") = At(q, "hit") /\ At(r, "execute") = At(q, "execute")
  BY DEF Grown, At
<1>2. \A i \in At(q, "hit") \cup At(q, "execute") : r[i] = q[i]
  BY DEF Grown, At
<1> QED
  BY <1>1, <1>2 DEF HeldBy

LEMMA HeldShrunk ==
  ASSUME NEW q, NEW r, NEW map, NEW next, Shrunk(q, r), q[Len(q)].op # "hit",
         HeldBy(q, map, next)
  PROVE  HeldBy(r, map, next)
<1>1. At(r, "hit") = At(q, "hit") /\ At(r, "execute") \subseteq At(q, "execute")
  BY DEF Shrunk, At
<1>2. \A i \in At(r, "hit") \cup At(r, "execute") : r[i] = q[i]
  BY DEF Shrunk, At
<1> QED
  BY <1>1, <1>2 DEF HeldBy

LEMMA HeldChanged ==
  ASSUME NEW q, NEW r, NEW f, NEW map, NEW next, Changed(q, r, f),
         f.op = q[Len(q)].op, f.op # "hit", f.op = "execute" => f.h = q[Len(q)].h,
         HeldBy(q, map, next)
  PROVE  HeldBy(r, map, next)
<1>1. At(r, "hit") = At(q, "hit") /\ At(r, "execute") = At(q, "execute")
  BY DEF Changed, At
<1>2. /\ \A i \in At(q, "hit") : r[i] = q[i]
      /\ \A i \in At(q, "execute") : r[i].h = q[i].h
  BY DEF Changed, At
<1> QED
  BY <1>1, <1>2 DEF HeldBy

LEMMA OnceGrown ==
  ASSUME NEW q, NEW r, NEW f, Grown(q, r, f), f.op \notin {"apply", "execute"}, Once(q)
  PROVE  Once(r)
<1>1. At(r, "apply") = At(q, "apply") /\ At(r, "execute") = At(q, "execute")
  BY DEF Grown, At
<1>2. \A i \in At(q, "apply") \cup At(q, "execute") : r[i] = q[i]
  BY DEF Grown, At
<1> QED
  BY <1>1, <1>2 DEF Once

LEMMA OnceShrunk ==
  ASSUME NEW q, NEW r, Shrunk(q, r), Once(q)
  PROVE  Once(r)
<1>1. At(r, "apply") \subseteq At(q, "apply") /\ At(r, "execute") \subseteq At(q, "execute")
  BY DEF Shrunk, At
<1>2. \A i \in At(r, "apply") \cup At(r, "execute") : r[i] = q[i]
  BY DEF Shrunk, At
<1> QED
  BY <1>1, <1>2 DEF Once

LEMMA OnceChanged ==
  ASSUME NEW q, NEW r, NEW f, Changed(q, r, f), f.op = q[Len(q)].op, f.s = q[Len(q)].s,
         f.op = "execute" /\ f.stage # "end" => q[Len(q)].stage # "end", Once(q)
  PROVE  Once(r)
<1>1. At(r, "apply") = At(q, "apply") /\ At(r, "execute") = At(q, "execute")
  BY DEF Changed, At
<1>2. /\ \A i \in At(q, "apply") \cup At(q, "execute") : r[i].s = q[i].s
      /\ \A i \in At(q, "execute") : r[i].stage # "end" => q[i].stage # "end"
  BY DEF Changed, At
<1> QED
  BY <1>1, <1>2 DEF Once

LEMMA StagedGrown ==
  ASSUME NEW q, NEW r, NEW f, NEW map, NEW ask, Grown(q, r, f), f.op # "apply",
         Staged(q, map, ask)
  PROVE  Staged(r, map, ask)
<1>1. At(r, "apply") = At(q, "apply") /\ \A i \in At(q, "apply") : r[i] = q[i]
  BY DEF Grown, At
<1> QED
  BY <1>1 DEF Staged

LEMMA StagedShrunk ==
  ASSUME NEW q, NEW r, NEW map, NEW ask, Shrunk(q, r), Staged(q, map, ask)
  PROVE  Staged(r, map, ask)
<1>1. At(r, "apply") \subseteq At(q, "apply") /\ \A i \in At(r, "apply") : r[i] = q[i]
  BY DEF Shrunk, At
<1> QED
  BY <1>1 DEF Staged

LEMMA StagedChanged ==
  ASSUME NEW q, NEW r, NEW f, NEW map, NEW ask, Changed(q, r, f), f.op = q[Len(q)].op,
         f.op # "apply", Staged(q, map, ask)
  PROVE  Staged(r, map, ask)
<1>1. At(r, "apply") = At(q, "apply") /\ \A i \in At(q, "apply") : r[i] = q[i]
  BY DEF Changed, At
<1> QED
  BY <1>1 DEF Staged

LEMMA KnownGrown ==
  ASSUME NEW q, NEW r, NEW f, NEW op, NEW map, Grown(q, r, f), Known(q, op, map)
  PROVE  Known(r, op, map)
<1>1. At(q, op) \subseteq At(r, op) /\ \A i \in At(q, op) : r[i] = q[i]
  BY DEF Grown, At
<1> QED
  BY <1>1 DEF Known

LEMMA KnownShrunk ==
  ASSUME NEW q, NEW r, NEW op, NEW map, Shrunk(q, r), q[Len(q)].op # op, Known(q, op, map)
  PROVE  Known(r, op, map)
<1>1. At(q, op) \subseteq At(r, op) /\ \A i \in At(q, op) : r[i] = q[i]
  BY DEF Shrunk, At
<1> QED
  BY <1>1 DEF Known

LEMMA KnownChanged ==
  ASSUME NEW q, NEW r, NEW f, NEW op, NEW map, Changed(q, r, f), f.op = q[Len(q)].op,
         f.s = q[Len(q)].s, Known(q, op, map)
  PROVE  Known(r, op, map)
<1>1. At(q, op) \subseteq At(r, op) /\ \A i \in At(q, op) : r[i].s = q[i].s
  BY DEF Changed, At
<1> QED
  BY <1>1 DEF Known

\* The frame of s returns, and s is forgotten.
LEMMA KnownForgot ==
  ASSUME NEW q, NEW r, NEW op, NEW map, Shrunk(q, r), q[Len(q)].op = op,
         Known(q, op, map)
  PROVE  Known(r, op, Without(map, q[Len(q)].s))
<1> DEFINE s == q[Len(q)].s
<1>1. DOMAIN Without(map, s) = DOMAIN map \ {s}
  BY DEF Without, Restrict
<1>2. ASSUME NEW t \in DOMAIN map \ {s}
      PROVE  \E i \in At(r, op) : r[i].s = t
  <2>1. PICK i \in At(q, op) : q[i].s = t
    BY DEF Known
  <2>2. i \in At(r, op) /\ r[i] = q[i]
    BY <2>1 DEF Shrunk, At
  <2> QED
    BY <2>1, <2>2
<1> QED
  BY <1>1, <1>2 DEF Known

LEMMA ChainGrown ==
  ASSUME NEW q, NEW r, NEW f, NEW D, NEW flag, NEW ask, Grown(q, r, f),
         ~Kept(f, D), ~Deciding(f), Chain(q, D, flag, ask)
  PROVE  Chain(r, D, flag, ask)
BY ChainPush DEF Grown

LEMMA ChainShrunk ==
  ASSUME NEW q, NEW r, NEW D, NEW flag, NEW ask, Shrunk(q, r),
         ~Kept(q[Len(q)], D), ~Deciding(q[Len(q)]), Chain(q, D, flag, ask)
  PROVE  Chain(r, D, flag, ask)
BY ChainPop DEF Shrunk

LEMMA ChainChanged ==
  ASSUME NEW q, NEW r, NEW f, NEW D, NEW flag, NEW ask, Changed(q, r, f),
         Kept(f, D) <=> Kept(q[Len(q)], D), Kept(f, D) => f.prev = q[Len(q)].prev,
         ~Deciding(f), Chain(q, D, flag, ask)
  PROVE  Chain(r, D, flag, ask)
<1>1. \A i \in 1 .. Len(q) : i = Len(q) \/ r[i] = q[i]
  BY DEF Changed
<1>2. \A i \in 1 .. Len(q) : /\ Kept(r[i], D) <=> Kept(q[i], D)
                             /\ Kept(r[i], D) => r[i].prev = q[i].prev
                             /\ Deciding(r[i]) => Deciding(q[i]) /\ r[i].s = q[i].s
  BY <1>1 DEF Changed
<1> QED
  BY <1>2, ChainSame DEF Changed

-----------------------------------------------------------------------------
(* Helpers come and go. *)

LEMMA HeldHit ==
  ASSUME NEW q, NEW r, NEW f, NEW map, NEW next, Grown(q, r, f), f.op = "hit", f.h = next,
         \A i \in At(q, "execute") : q[i].h \in Nat, HeldBy(q, map, next)
  PROVE  HeldBy(r, Assign(map, next, "prepare"), next + 1)
<1> DEFINE m == Assign(map, next, "prepare")
           n == Len(q) + 1
<1>1. /\ DOMAIN m = DOMAIN map \cup {next} /\ m[next] = "prepare"
      /\ \A h \in DOMAIN map : h # next => m[h] = map[h]
  BY DEF Assign
<1>2. /\ At(r, "hit") = At(q, "hit") \cup {n} /\ At(r, "execute") = At(q, "execute")
      /\ \A i \in At(q, "hit") \cup At(q, "execute") : r[i] = q[i]
      /\ r[n] = f /\ n \notin At(q, "hit")
  BY DEF Grown, At
<1>3. /\ next \in Nat /\ next + 1 \in Nat
      /\ \A h \in DOMAIN map : h \in Nat /\ h < next /\ h # next
  BY DEF HeldBy
<1>4. \A h \in DOMAIN m : h \in Nat /\ h < next + 1
  BY <1>1, <1>3
<1> HIDE DEF m, n
<1>5. \A i \in At(r, "hit") : r[i].h \in DOMAIN m /\ m[r[i].h] = "prepare"
  BY <1>1, <1>2, <1>3 DEF HeldBy
<1>6. \A i, j \in At(r, "hit") : i # j => r[i].h # r[j].h
  BY <1>2, <1>3 DEF HeldBy
<1>7. ASSUME NEW i \in At(r, "execute")
      PROVE  r[i].h < next + 1 /\ (r[i].h \in DOMAIN m => m[r[i].h] = "custom")
  <2>1. r[i].h \in Nat /\ r[i].h < next /\ (r[i].h \in DOMAIN map => map[r[i].h] = "custom")
    BY <1>2 DEF HeldBy
  <2>2. r[i].h # next
    BY <2>1, <1>3
  <2>3. r[i].h < next + 1
    BY <2>1, <1>3
  <2> QED
    BY <2>1, <2>2, <2>3, <1>1
<1>8. \A h \in DOMAIN m : m[h] = "custom" \/ \E i \in At(r, "hit") : r[i].h = h
  BY <1>1, <1>2 DEF HeldBy
<1> QED
  BY <1>3, <1>4, <1>5, <1>6, <1>7, <1>8 DEF HeldBy, m

LEMMA HeldHitReturns ==
  ASSUME NEW q, NEW r, NEW map, NEW next, Shrunk(q, r), q[Len(q)].op = "hit",
         HeldBy(q, map, next)
  PROVE  HeldBy(r, Without(map, q[Len(q)].h), next)
<1> DEFINE n == Len(q)
           m == Without(map, q[n].h)
<1>1. /\ DOMAIN m = DOMAIN map \ {q[n].h}
      /\ \A h \in DOMAIN m : m[h] = map[h]
  BY DEF Without, Restrict
<1>2. /\ At(r, "hit") = At(q, "hit") \ {n} /\ n \in At(q, "hit")
      /\ At(r, "execute") = At(q, "execute")
      /\ \A i \in At(r, "hit") \cup At(r, "execute") : r[i] = q[i]
  BY DEF Shrunk, At
<1> HIDE DEF m, n
<1>3. \A i \in At(r, "hit") : r[i].h \in DOMAIN m /\ m[r[i].h] = "prepare"
  BY <1>1, <1>2 DEF HeldBy
<1>4. \A i, j \in At(r, "hit") : i # j => r[i].h # r[j].h
  BY <1>2 DEF HeldBy
<1>5. \A i \in At(r, "execute") :
        r[i].h < next /\ (r[i].h \in DOMAIN m => m[r[i].h] = "custom")
  BY <1>1, <1>2 DEF HeldBy
<1>6. \A h \in DOMAIN m : m[h] = "custom" \/ \E i \in At(r, "hit") : r[i].h = h
  BY <1>1, <1>2 DEF HeldBy
<1> QED
  BY <1>1, <1>3, <1>4, <1>5, <1>6 DEF HeldBy, m, n

LEMMA HeldCustom ==
  ASSUME NEW q, NEW map, NEW next, HeldBy(q, map, next),
         \A i \in At(q, "execute") : q[i].h \in Nat
  PROVE  HeldBy(q, Assign(map, next, "custom"), next + 1)
<1> DEFINE m == Assign(map, next, "custom")
<1>1. /\ DOMAIN m = DOMAIN map \cup {next} /\ m[next] = "custom"
      /\ \A h \in DOMAIN map : h # next => m[h] = map[h]
  BY DEF Assign
<1>2. /\ next \in Nat /\ next + 1 \in Nat
      /\ \A h \in DOMAIN map : h \in Nat /\ h < next /\ h # next
  BY DEF HeldBy
<1> HIDE DEF m
<1>3. \A h \in DOMAIN m : h \in Nat /\ h < next + 1
  BY <1>1, <1>2
<1>4. \A i \in At(q, "hit") : q[i].h \in DOMAIN m /\ m[q[i].h] = "prepare"
  BY <1>1, <1>2 DEF HeldBy
<1>5. ASSUME NEW i \in At(q, "execute")
      PROVE  q[i].h < next + 1 /\ (q[i].h \in DOMAIN m => m[q[i].h] = "custom")
  <2>1. q[i].h \in Nat /\ q[i].h < next
    BY DEF HeldBy
  <2>2. q[i].h < next + 1
    BY <2>1, <1>2
  <2> QED
    BY <2>2, <1>1 DEF HeldBy
<1>6. \A h \in DOMAIN m : m[h] = "custom" \/ \E i \in At(q, "hit") : q[i].h = h
  BY <1>1 DEF HeldBy
<1> QED
  BY <1>2, <1>3, <1>4, <1>5, <1>6 DEF HeldBy, m

\* Scripts destroy the helpers of custom hits, which are no hit's that is being prepared.
LEMMA HeldDestroyed ==
  ASSUME NEW q, NEW map, NEW next, NEW h, h \in DOMAIN map => map[h] = "custom",
         HeldBy(q, map, next)
  PROVE  HeldBy(q, Without(map, h), next)
<1>1. /\ DOMAIN Without(map, h) = DOMAIN map \ {h}
      /\ \A x \in DOMAIN map \ {h} : Without(map, h)[x] = map[x]
  BY DEF Without, Restrict
<1>2. \A i \in At(q, "hit") : q[i].h # h
  BY DEF HeldBy
<1> QED
  BY <1>1, <1>2 DEF HeldBy

LEMMA HeldExecute ==
  ASSUME NEW q, NEW r, NEW f, NEW map, NEW next, Grown(q, r, f), f.op = "execute",
         f.h \in DOMAIN map, map[f.h] = "custom", HeldBy(q, map, next)
  PROVE  HeldBy(r, map, next)
<1>1. /\ At(r, "hit") = At(q, "hit") /\ At(r, "execute") = At(q, "execute") \cup {Len(q) + 1}
      /\ \A i \in At(q, "hit") \cup At(q, "execute") : r[i] = q[i]
      /\ r[Len(q) + 1] = f
  BY DEF Grown, At
<1> QED
  BY <1>1 DEF HeldBy

-----------------------------------------------------------------------------
(* Statuses: the frame of an apply. *)

\* A status in the hands of no hook that still applies it is applied.
OnceFree(q, s) ==
  /\ \A i \in At(q, "apply") : q[i].s # s
  /\ \A i \in At(q, "execute") : q[i].stage # "end" => q[i].s # s

LEMMA OnceApply ==
  ASSUME NEW q, NEW r, NEW f, Grown(q, r, f), f.op = "apply", OnceFree(q, f.s), Once(q)
  PROVE  Once(r)
<1>1. /\ At(r, "apply") = At(q, "apply") \cup {Len(q) + 1} /\ At(r, "execute") = At(q, "execute")
      /\ \A i \in At(q, "apply") \cup At(q, "execute") : r[i] = q[i]
      /\ r[Len(q) + 1] = f
  BY DEF Grown, At
<1> QED
  BY <1>1 DEF Once, OnceFree

LEMMA OnceExecute ==
  ASSUME NEW q, NEW r, NEW f, Grown(q, r, f), f.op = "execute",
         \A i \in At(q, "apply") \cup At(q, "execute") : q[i].s # f.s, Once(q)
  PROVE  Once(r)
<1>1. /\ At(r, "apply") = At(q, "apply") /\ At(r, "execute") = At(q, "execute") \cup {Len(q) + 1}
      /\ \A i \in At(q, "apply") \cup At(q, "execute") : r[i] = q[i]
      /\ r[Len(q) + 1] = f
  BY DEF Grown, At
<1> QED
  BY <1>1 DEF Once

\* An active machine: the status is pending, and nobody has asked yet.
LEMMA ApplyPending ==
  ASSUME NEW q, NEW r, NEW s, NEW map, NEW flag, NEW ask,
         NEW f, f.op = "apply", f.stage = "osiris", f.s = s, Grown(q, r, f), OnceFree(q, s),
         Staged(q, map, ask), Known(q, "apply", map), Chain(q, DOMAIN map, flag, ask)
  PROVE  LET m == Assign(map, s, FALSE)
             a == ask \ {s}
         IN  Staged(r, m, a) /\ Known(r, "apply", m) /\ Chain(r, DOMAIN m, flag, a)
<1> DEFINE m == Assign(map, s, FALSE)
           a == ask \ {s}
<1>1. /\ DOMAIN m = DOMAIN map \cup {s} /\ m[s] = FALSE
      /\ \A x \in DOMAIN map : x # s => m[x] = map[x]
  BY DEF Assign
<1> HIDE DEF m
<1>2. /\ At(r, "apply") = At(q, "apply") \cup {Len(q) + 1}
      /\ \A i \in At(q, "apply") : r[i] = q[i]
      /\ r[Len(q) + 1] = f
  BY DEF Grown, At
<1>3. \A i \in At(q, "apply") : q[i].s # s
  BY DEF OnceFree
<1>4. Staged(r, m, a)
  BY <1>1, <1>2, <1>3 DEF Staged
<1>5. Known(r, "apply", m)
  BY <1>1, <1>2 DEF Known
<1>6. Chain(q, DOMAIN m, flag, a)
  <2>1. \A i \in 1 .. Len(q) : q[i].op = "apply" => q[i].s # s
    BY <1>3 DEF At
  <2>2. \A i \in 1 .. Len(q) : Kept(q[i], DOMAIN m) <=> Kept(q[i], DOMAIN map)
    BY <2>1, <1>1 DEF Kept
  <2>3. \A i \in 1 .. Len(q) : Deciding(q[i]) => (q[i].s \in a <=> q[i].s \in ask)
    BY <2>1 DEF Deciding
  <2>4. Len(q) \in Nat
    BY DEF Grown
  <2> HIDE DEF a
  <2> QED
    BY <2>2, <2>3, <2>4, ChainSame
<1>7. Chain(r, DOMAIN m, flag, a)
  BY <1>6, ChainGrown DEF Kept, Deciding
<1> QED
  BY <1>4, <1>5, <1>7 DEF m

\* An inactive one: the status is applied at once.
LEMMA ApplyDirect ==
  ASSUME NEW q, NEW r, NEW s, NEW map, NEW flag, NEW ask,
         NEW f, f.op = "apply", f.stage = "direct", f.s = s, Grown(q, r, f), OnceFree(q, s),
         Staged(q, map, ask), Known(q, "apply", map), Chain(q, DOMAIN map, flag, ask)
  PROVE  Staged(r, map, ask) /\ Known(r, "apply", map) /\ Chain(r, DOMAIN map, flag, ask)
<1>1. s \notin DOMAIN map
  BY DEF Known, OnceFree
<1>2. /\ At(r, "apply") = At(q, "apply") \cup {Len(q) + 1}
      /\ \A i \in At(q, "apply") : r[i] = q[i]
      /\ r[Len(q) + 1] = f
  BY DEF Grown, At
<1>3. Staged(r, map, ask)
  BY <1>1, <1>2 DEF Staged
<1>4. Known(r, "apply", map)
  BY KnownGrown
<1>5. Chain(r, DOMAIN map, flag, ask)
  BY <1>1, ChainGrown DEF Kept, Deciding
<1> QED
  BY <1>3, <1>4, <1>5

\* The frame of a status becomes f, of the same status.
LEMMA StagedInstead ==
  ASSUME NEW q, NEW r, NEW f, NEW map, NEW ask, NEW ask2, Changed(q, r, f), Once(q),
         q[Len(q)].op = "apply", f.op = "apply", f.s = q[Len(q)].s,
         f.stage \in {"osiris", "lua"} => f.s \in DOMAIN map,
         f.stage = "osiris" => (map[f.s] = TRUE <=> f.s \in ask2),
         f.stage = "skipped" => f.s \in ask2,
         f.stage \in {"direct", "entered"} /\ f.s \in DOMAIN map => f.s \notin ask2,
         ask2 \ {f.s} = ask \ {f.s}, Staged(q, map, ask)
  PROVE  Staged(r, map, ask2)
<1> DEFINE n == Len(q)
<1>1. /\ At(r, "apply") = At(q, "apply") /\ n \in At(q, "apply")
      /\ \A i \in At(q, "apply") : i # n => r[i] = q[i]
      /\ r[n] = f
  BY DEF Changed, At
<1> HIDE DEF n
<1>2. \A i \in At(q, "apply") : i # n => q[i].s # f.s
  BY <1>1 DEF Once, n
<1> SUFFICES ASSUME NEW i \in At(r, "apply")
             PROVE  /\ r[i].stage \in {"osiris", "lua"} => r[i].s \in DOMAIN map
                    /\ r[i].stage = "osiris" => (map[r[i].s] = TRUE <=> r[i].s \in ask2)
                    /\ r[i].stage = "skipped" => r[i].s \in ask2
                    /\ r[i].stage \in {"direct", "entered"} /\ r[i].s \in DOMAIN map
                         => r[i].s \notin ask2
  BY DEF Staged
<1>3. CASE i = n
  BY <1>3, <1>1
<1>4. CASE i # n
  <2>1. i \in At(q, "apply") /\ r[i] = q[i] /\ (q[i].s \in ask2 <=> q[i].s \in ask)
    BY <1>1, <1>2, <1>4
  <2> QED
    BY <2>1 DEF Staged
<1> QED
  BY <1>3, <1>4

\* A status is applied by its frame alone, so another frame's flag is no matter of it.
LEMMA OnceOther ==
  ASSUME NEW q, Once(q), Len(q) \in Nat \ {0}, q[Len(q)].op = "apply"
  PROVE  \A i \in 1 .. Len(q) - 1 : q[i].op = "apply" => q[i].s # q[Len(q)].s
BY DEF Once, At

\* The frame of s returns, and s is no longer pending.
LEMMA ApplyForgot ==
  ASSUME NEW q, NEW r, NEW map, NEW flag, NEW ask, Shrunk(q, r), Once(q),
         q[Len(q)].op = "apply", q[Len(q)].stage \in {"skipped", "entered"},
         Staged(q, map, ask), Chain(q, DOMAIN map, flag, ask)
  PROVE  LET s == q[Len(q)].s
             m == Without(map, s)
         IN  /\ Staged(r, m, ask)
             /\ Chain(r, DOMAIN m, IF s \in DOMAIN map THEN q[Len(q)].prev ELSE flag, ask)
<1> DEFINE s == q[Len(q)].s
           m == Without(map, s)
<1>1. /\ DOMAIN m = DOMAIN map \ {s}
      /\ \A x \in DOMAIN m : m[x] = map[x]
  BY DEF Without, Restrict
<1> HIDE DEF m
<1>2. Len(q) \in Nat \ {0} /\ \A i \in 1 .. Len(q) - 1 : q[i].op = "apply" => q[i].s # s
  BY OnceOther DEF Shrunk
<1>3. /\ At(r, "apply") \subseteq At(q, "apply")
      /\ \A i \in At(r, "apply") : r[i] = q[i] /\ q[i].s # s
  BY <1>2 DEF Shrunk, At
<1>4. Staged(r, m, ask)
  BY <1>1, <1>3 DEF Staged
<1>5. \A i \in 1 .. Len(q) - 1 : Kept(q[i], DOMAIN m) <=> Kept(q[i], DOMAIN map)
  BY <1>1, <1>2 DEF Kept
<1>6. CASE s \in DOMAIN map
  <2>1. Kept(q[Len(q)], DOMAIN map)
    BY <1>6 DEF Kept
  <2>2. Chain(r, DOMAIN m, q[Len(q)].prev, ask)
    BY <2>1, <1>2, <1>5, ChainRestore DEF Shrunk
  <2> QED
    BY <2>2, <1>4, <1>6 DEF m
<1>7. CASE s \notin DOMAIN map
  <2>1. ~Kept(q[Len(q)], DOMAIN map) /\ ~Deciding(q[Len(q)])
    BY <1>7 DEF Kept, Deciding
  <2>2. DOMAIN m = DOMAIN map
    BY <1>1, <1>7
  <2>3. Chain(r, DOMAIN m, flag, ask)
    BY <2>1, <2>2, ChainShrunk
  <2> QED
    BY <2>3, <1>4, <1>7 DEF m
<1> QED
  BY <1>6, <1>7

-----------------------------------------------------------------------------
(* The actions. *)

LEMMA ExecuteNat ==
  ASSUME NEW q \in Seq(Frames)
  PROVE  \A i \in At(q, "execute") : q[i].h \in Nat
<1> SUFFICES ASSUME NEW i \in At(q, "execute") PROVE q[i].h \in Nat
  OBVIOUS
<1>1. q[i] \in Frames /\ q[i].op = "execute"
  BY DEF At
<1> QED
  BY <1>1 DEF Frames, HitFrames, ExecuteFrames, ApplyFrames, EnterFrames, DeleteFrames

\* A hook of a kind is on top: its frame has that kind's fields.
LEMMA TopTyped ==
  ASSUME NEW op, Typed, TopIs(op)
  PROVE  /\ stack \in Seq(Frames) /\ stack # <<>> /\ Len(stack) \in At(stack, op)
         /\ Top = stack[Len(stack)] /\ Top.op = op
         /\ op = "hit" => Top \in HitFrames
         /\ op = "execute" => Top \in ExecuteFrames
         /\ op = "apply" => Top \in ApplyFrames
         /\ op = "enter" => Top \in EnterFrames
         /\ op = "delete" => Top \in DeleteFrames
<1>1. stack \in Seq(Frames) /\ stack # <<>> /\ Last(stack).op = op
  BY DEF Typed, TopIs, Top
<1>2. Last(stack) = stack[Len(stack)] /\ Last(stack) \in Frames /\ Len(stack) \in 1 .. Len(stack)
  BY <1>1, Pops
<1> QED
  BY <1>1, <1>2 DEF At, Top, Frames, HitFrames, ExecuteFrames, ApplyFrames, EnterFrames,
                    DeleteFrames

LEMMA IdleFree ==
  ASSUME NEW s, Typed, Idle(s)
  PROVE  /\ \A i \in At(stack, "apply") \cup At(stack, "execute") : stack[i].s # s
         /\ OnceFree(stack, s)
<1>1. \A i \in 1 .. Len(stack) : stack[i].op # "hit" => stack[i].s # s
  BY InStack DEF Typed, Idle
<1> QED
  BY <1>1 DEF At, OnceFree

\* Steps that change nothing that the parts are about.
LEMMA StillNests ==
  ASSUME Nested, UNCHANGED <<stack, helpers, nextHelperId, prevent, pendingStatuses, pendingApply,
                             asked>>
  PROVE  Nested'
BY DEF Nested, Typed

LEMMA CharacterHitNests ==
  ASSUME Nested, NEW p \in Infos, CharacterHit(p)
  PROVE  Nested'
<1> DEFINE f == HitFrame(p)
<1>1. f \in Frames /\ f.op = "hit" /\ f.h = nextHelperId
  BY DEF HitFrame, Frames, HitFrames, Pointers, Nested, HeldBy
<1> HIDE DEF f
<1>2. stack \in Seq(Frames) /\ stack' \in Seq(Frames) /\ Grown(stack, stack', f)
  BY <1>1, Pushes DEF CharacterHit, Push, f, Nested, Typed
<1>3. /\ UNCHANGED <<prevent, pendingStatuses, pendingApply, asked>>
      /\ helpers' = Assign(helpers, nextHelperId, "prepare") /\ nextHelperId' = nextHelperId + 1
  BY DEF CharacterHit, statusVars, NewHelper
<1>4. HeldBy(stack', helpers', nextHelperId')
  BY <1>1, <1>2, <1>3, HeldHit, ExecuteNat DEF Nested
<1>5. Once(stack') /\ Staged(stack', pendingStatuses', asked')
  BY <1>1, <1>2, <1>3, OnceGrown, StagedGrown DEF Nested
<1>6. Known(stack', "apply", pendingStatuses') /\ Known(stack', "enter", pendingApply')
  BY <1>2, <1>3, KnownGrown DEF Nested
<1>7. Chain(stack', DOMAIN pendingStatuses', prevent', asked')
  BY <1>1, <1>2, <1>3, ChainGrown DEF Nested, Kept, Deciding
<1> QED
  BY <1>2, <1>3, <1>4, <1>5, <1>6, <1>7 DEF Nested, Typed

LEMMA CharacterHitReturnsNests ==
  ASSUME Nested, CharacterHitReturns
  PROVE  Nested'
<1>1. stack \in Seq(Frames) /\ stack # <<>> /\ Top = stack[Len(stack)] /\ Top.op = "hit"
  BY TopTyped DEF CharacterHitReturns, Nested
<1>2. stack' \in Seq(Frames) /\ Shrunk(stack, stack')
  BY <1>1, Pops DEF CharacterHitReturns, Return
<1>3. /\ UNCHANGED <<prevent, pendingStatuses, pendingApply, asked>>
      /\ helpers' = Without(helpers, Top.h) /\ nextHelperId' = nextHelperId
  BY DEF CharacterHitReturns, statusVars, Destroy
<1>4. HeldBy(stack', helpers', nextHelperId')
  BY <1>1, <1>2, <1>3, HeldHitReturns DEF Nested
<1>5. Once(stack') /\ Staged(stack', pendingStatuses', asked')
  BY <1>2, <1>3, OnceShrunk, StagedShrunk DEF Nested
<1>6. Known(stack', "apply", pendingStatuses') /\ Known(stack', "enter", pendingApply')
  BY <1>1, <1>2, <1>3, KnownShrunk DEF Nested
<1>7. Chain(stack', DOMAIN pendingStatuses', prevent', asked')
  BY <1>1, <1>2, <1>3, ChainShrunk DEF Nested, Kept, Deciding
<1> QED
  BY <1>2, <1>3, <1>4, <1>5, <1>6, <1>7 DEF Nested, Typed

LEMMA HitPrepareNests ==
  ASSUME Nested, HitPrepare
  PROVE  Nested'
<1>1. /\ UNCHANGED <<stack, prevent, pendingStatuses, pendingApply, asked>>
      /\ helpers' = Assign(helpers, nextHelperId, "custom") /\ nextHelperId' = nextHelperId + 1
  BY DEF HitPrepare, statusVars, NewHelper
<1>2. HeldBy(stack', helpers', nextHelperId')
  BY <1>1, HeldCustom, ExecuteNat DEF Nested, Typed
<1> QED
  BY <1>1, <1>2 DEF Nested, Typed

LEMMA HitExecuteFailsNests ==
  ASSUME Nested, NEW h \in DOMAIN helpers, HitExecuteFails(h)
  PROVE  Nested'
<1>1. /\ UNCHANGED <<stack, prevent, pendingStatuses, pendingApply, asked>>
      /\ helpers' = Without(helpers, h) /\ nextHelperId' = nextHelperId
      /\ helpers[h] = "custom"
  BY DEF HitExecuteFails, statusVars, Destroy
<1>2. HeldBy(stack', helpers', nextHelperId')
  BY <1>1, HeldDestroyed DEF Nested
<1> QED
  BY <1>1, <1>2 DEF Nested, Typed

LEMMA HitExecuteNests ==
  ASSUME Nested, NEW h \in DOMAIN helpers, NEW s \in Statuses, NEW simulate \in BOOLEAN,
         HitExecute(h, s, simulate)
  PROVE  Nested'
<1> DEFINE f == [op |-> "execute", stage |-> IF simulate THEN "hit" ELSE "apply", h |-> h, s |-> s]
<1>1. f \in Frames /\ f.op = "execute" /\ f.h = h /\ f.s = s
  BY DEF Frames, ExecuteFrames, Nested, HeldBy
<1>2. Push(f)
  BY DEF HitExecute
<1> HIDE DEF f
<1>3. stack \in Seq(Frames) /\ stack' \in Seq(Frames) /\ Grown(stack, stack', f)
  BY <1>1, <1>2, Pushes DEF Push, Nested, Typed
<1>4. /\ UNCHANGED <<prevent, pendingStatuses, pendingApply, asked, helpers, nextHelperId>>
      /\ helpers[h] = "custom" /\ Idle(s)
  BY DEF HitExecute, statusVars, helperVars, Construct
<1>5. HeldBy(stack', helpers', nextHelperId')
  BY <1>1, <1>3, <1>4, HeldExecute DEF Nested
<1>6. Once(stack')
  BY <1>1, <1>3, <1>4, IdleFree, OnceExecute DEF Nested
<1>7. Staged(stack', pendingStatuses', asked')
  BY <1>1, <1>3, <1>4, StagedGrown DEF Nested
<1>8. Known(stack', "apply", pendingStatuses') /\ Known(stack', "enter", pendingApply')
  BY <1>3, <1>4, KnownGrown DEF Nested
<1>9. Chain(stack', DOMAIN pendingStatuses', prevent', asked')
  BY <1>1, <1>3, <1>4, ChainGrown DEF Nested, Kept, Deciding
<1> QED
  BY <1>3, <1>4, <1>5, <1>6, <1>7, <1>8, <1>9 DEF Nested, Typed

LEMMA ExecuteHitNests ==
  ASSUME Nested, ExecuteHit
  PROVE  Nested'
<1> DEFINE e == [Top EXCEPT !.stage = "apply"]
           q == Append(Front(stack), e)
           f == HitFrame(Top.s)
<1>1. /\ stack \in Seq(Frames) /\ stack # <<>> /\ Top = stack[Len(stack)]
      /\ Top.op = "execute" /\ Top.stage = "hit" /\ Top \in ExecuteFrames
  BY TopTyped DEF ExecuteHit, TopIsAt, Nested
<1>2. /\ e \in Frames /\ e.op = "execute" /\ e.h = Top.h /\ e.s = Top.s
      /\ f \in Frames /\ f.op = "hit" /\ f.h = nextHelperId
  BY <1>1 DEF HitFrame, Frames, HitFrames, ExecuteFrames, Pointers, Nested, HeldBy
<1>3. /\ stack' = Append(q, f)
      /\ UNCHANGED <<prevent, pendingStatuses, pendingApply, asked>>
      /\ helpers' = Assign(helpers, nextHelperId, "prepare") /\ nextHelperId' = nextHelperId + 1
  BY DEF ExecuteHit, statusVars, NewHelper
<1> HIDE DEF e, f
<1>4. q \in Seq(Frames) /\ Changed(stack, q, e)
  BY <1>1, <1>2, Replaces
<1> HIDE DEF q
<1>5. stack' \in Seq(Frames) /\ Grown(q, stack', f)
  BY <1>2, <1>3, <1>4, Pushes
<1>6. HeldBy(stack', helpers', nextHelperId')
  <2>1. HeldBy(q, helpers, nextHelperId)
    BY <1>1, <1>2, <1>4, HeldChanged DEF Nested
  <2> QED
    BY <2>1, <1>2, <1>3, <1>4, <1>5, HeldHit, ExecuteNat
<1>7. Once(stack')
  <2>1. Once(q)
    BY <1>1, <1>2, <1>4, OnceChanged DEF Nested
  <2> QED
    BY <2>1, <1>2, <1>5, OnceGrown
<1>8. Staged(stack', pendingStatuses', asked')
  <2>1. Staged(q, pendingStatuses, asked)
    BY <1>1, <1>2, <1>4, StagedChanged DEF Nested
  <2> QED
    BY <2>1, <1>2, <1>3, <1>5, StagedGrown
<1>9. Known(stack', "apply", pendingStatuses') /\ Known(stack', "enter", pendingApply')
  <2>1. Known(q, "apply", pendingStatuses) /\ Known(q, "enter", pendingApply)
    BY <1>1, <1>2, <1>4, KnownChanged DEF Nested
  <2> QED
    BY <2>1, <1>3, <1>5, KnownGrown
<1>10. Chain(stack', DOMAIN pendingStatuses', prevent', asked')
  <2>1. Chain(q, DOMAIN pendingStatuses, prevent, asked)
    BY <1>1, <1>2, <1>4, ChainChanged DEF Nested, Kept, Deciding
  <2> QED
    BY <2>1, <1>2, <1>3, <1>5, ChainGrown DEF Kept, Deciding
<1> QED
  BY <1>3, <1>5, <1>6, <1>7, <1>8, <1>9, <1>10 DEF Nested, Typed

LEMMA ExecuteReturnsNests ==
  ASSUME Nested, ExecuteReturns
  PROVE  Nested'
<1>1. /\ stack \in Seq(Frames) /\ stack # <<>> /\ Top = stack[Len(stack)]
      /\ Top.op = "execute" /\ Len(stack) \in At(stack, "execute")
  BY TopTyped DEF ExecuteReturns, TopIsAt, Nested
<1>2. stack' \in Seq(Frames) /\ Shrunk(stack, stack')
  BY <1>1, Pops DEF ExecuteReturns, Return
<1>3. /\ UNCHANGED <<prevent, pendingStatuses, pendingApply, asked>>
      /\ helpers' = Without(helpers, Top.h) /\ nextHelperId' = nextHelperId
  BY DEF ExecuteReturns, statusVars, Destroy
<1>4. HeldBy(stack', helpers', nextHelperId')
  <2>1. HeldBy(stack', helpers, nextHelperId)
    BY <1>1, <1>2, HeldShrunk DEF Nested
  <2>2. Top.h \in DOMAIN helpers => helpers[Top.h] = "custom"
    BY <1>1 DEF Nested, HeldBy
  <2> QED
    BY <2>1, <2>2, <1>3, HeldDestroyed
<1>5. Once(stack') /\ Staged(stack', pendingStatuses', asked')
  BY <1>2, <1>3, OnceShrunk, StagedShrunk DEF Nested
<1>6. Known(stack', "apply", pendingStatuses') /\ Known(stack', "enter", pendingApply')
  BY <1>1, <1>2, <1>3, KnownShrunk DEF Nested
<1>7. Chain(stack', DOMAIN pendingStatuses', prevent', asked')
  BY <1>1, <1>2, <1>3, ChainShrunk DEF Nested, Kept, Deciding
<1> QED
  BY <1>2, <1>3, <1>4, <1>5, <1>6, <1>7 DEF Nested, Typed

\* The part of a hook that puts the frame f of the apply of s on q.
LEMMA ApplyStarts ==
  ASSUME NEW s \in Statuses, NEW q \in Seq(Frames), Typed,
         stack' = Append(q, ApplyFrame(s, FirstStage)), OnApplyStatus(s),
         OnceFree(q, s), HeldBy(q, helpers, nextHelperId), Once(q),
         Staged(q, pendingStatuses, asked), Known(q, "apply", pendingStatuses),
         Known(q, "enter", pendingApply), Chain(q, DOMAIN pendingStatuses, prevent, asked)
  PROVE  Nested'
<1> DEFINE f == ApplyFrame(s, FirstStage)
<1>1. /\ f \in Frames /\ f.op = "apply" /\ f.s = s /\ f.stage = FirstStage
  BY DEF ApplyFrame, FirstStage, Frames, ApplyFrames
<1> HIDE DEF f
<1>2. stack' \in Seq(Frames) /\ Grown(q, stack', f)
  BY <1>1, Pushes DEF f
<1>3. /\ UNCHANGED <<prevent, pendingApply, helpers, nextHelperId>>
  BY DEF OnApplyStatus, helperVars
<1>4. HeldBy(stack', helpers', nextHelperId')
  BY <1>1, <1>2, <1>3, HeldGrown
<1>5. Once(stack')
  BY <1>1, <1>2, OnceApply
<1>6. Known(stack', "enter", pendingApply')
  BY <1>2, <1>3, KnownGrown
<1>7. CASE active
  <2>1. /\ pendingStatuses' = Assign(pendingStatuses, s, FALSE) /\ asked' = asked \ {s}
        /\ f.stage = "osiris"
    BY <1>1, <1>7 DEF OnApplyStatus, FirstStage
  <2>2. /\ Staged(stack', pendingStatuses', asked') /\ Known(stack', "apply", pendingStatuses')
        /\ Chain(stack', DOMAIN pendingStatuses', prevent', asked')
    BY <1>1, <1>2, <1>3, <2>1, ApplyPending
  <2>3. pendingStatuses' \in [DOMAIN pendingStatuses' -> BOOLEAN]
    BY <2>1 DEF Assign, Typed
  <2> QED
    BY <1>2, <1>3, <1>4, <1>5, <1>6, <2>2, <2>3 DEF Nested, Typed
<1>8. CASE ~active
  <2>1. UNCHANGED <<pendingStatuses, asked>> /\ f.stage = "direct"
    BY <1>1, <1>8 DEF OnApplyStatus, FirstStage
  <2>2. /\ Staged(stack', pendingStatuses', asked') /\ Known(stack', "apply", pendingStatuses')
        /\ Chain(stack', DOMAIN pendingStatuses', prevent', asked')
    BY <1>1, <1>2, <1>3, <2>1, ApplyDirect
  <2> QED
    BY <1>2, <1>3, <1>4, <1>5, <1>6, <2>1, <2>2 DEF Nested, Typed
<1> QED
  BY <1>7, <1>8

LEMMA ApplyStatusNests ==
  ASSUME Nested, NEW s \in Statuses, ApplyStatus(s)
  PROVE  Nested'
<1>1. /\ stack \in Seq(Frames) /\ Typed /\ Idle(s) /\ OnApplyStatus(s)
      /\ stack' = Append(stack, ApplyFrame(s, FirstStage))
  BY DEF Nested, Typed, ApplyStatus, Push
<1>2. OnceFree(stack, s)
  BY <1>1, IdleFree
<1> QED
  BY <1>1, <1>2, ApplyStarts DEF Nested

LEMMA ExecuteApplyNests ==
  ASSUME Nested, ExecuteApply
  PROVE  Nested'
<1> DEFINE e == [Top EXCEPT !.stage = "end"]
           q == Append(Front(stack), e)
<1>1. /\ stack \in Seq(Frames) /\ stack # <<>> /\ Top = stack[Len(stack)] /\ Typed
      /\ Top.op = "execute" /\ Top.stage = "apply" /\ Top \in ExecuteFrames
      /\ Len(stack) \in At(stack, "execute")
  BY TopTyped DEF ExecuteApply, TopIsAt, Nested
<1>2. /\ e \in Frames /\ e.op = "execute" /\ e.h = Top.h /\ e.s = Top.s /\ e.stage = "end"
      /\ Top.s \in Statuses
  BY <1>1 DEF Frames, ExecuteFrames
<1>3. stack' = Append(q, ApplyFrame(Top.s, FirstStage)) /\ OnApplyStatus(Top.s)
  BY DEF ExecuteApply
<1> HIDE DEF e
<1>4. q \in Seq(Frames) /\ Changed(stack, q, e)
  BY <1>1, <1>2, Replaces
<1> HIDE DEF q
<1>5. HeldBy(q, helpers, nextHelperId)
  BY <1>1, <1>2, <1>4, HeldChanged DEF Nested
<1>6. Once(q)
  BY <1>1, <1>2, <1>4, OnceChanged DEF Nested
<1>7. OnceFree(q, Top.s)
  <2>1. /\ At(q, "apply") = At(stack, "apply") /\ At(q, "execute") = At(stack, "execute")
        /\ \A i \in At(q, "apply") \cup At(q, "execute") : i # Len(stack) => q[i] = stack[i]
        /\ q[Len(stack)] = e
    BY <1>1, <1>2, <1>4 DEF Changed, At
  <2>2. \A i \in At(q, "apply") : q[i].s # Top.s
    BY <2>1, <1>1, <1>2 DEF Nested, Once, At
  <2>3. \A i \in At(q, "execute") : q[i].stage # "end" => q[i].s # Top.s
    BY <2>1, <1>1, <1>2 DEF Nested, Once
  <2> QED
    BY <2>2, <2>3 DEF OnceFree
<1>8. Staged(q, pendingStatuses, asked)
  BY <1>1, <1>2, <1>4, StagedChanged DEF Nested
<1>9. Known(q, "apply", pendingStatuses) /\ Known(q, "enter", pendingApply)
  BY <1>1, <1>2, <1>4, KnownChanged DEF Nested
<1>10. Chain(q, DOMAIN pendingStatuses, prevent, asked)
  BY <1>1, <1>2, <1>4, ChainChanged DEF Nested, Kept, Deciding
<1> QED
  BY <1>1, <1>2, <1>3, <1>4, <1>5, <1>6, <1>7, <1>8, <1>9, <1>10, ApplyStarts

\* NRD_StatusPreventApply counts while the handlers of the attempt run, and no later.
LEMMA PreventApplyNests ==
  ASSUME Nested, NEW s \in Statuses, NEW b \in BOOLEAN, PreventApply(s, b)
  PROVE  Nested'
<1> DEFINE Asking == \E i \in At(stack, "apply") : stack[i].s = s /\ stack[i].stage = "osiris"
<1>1. /\ UNCHANGED <<stack, prevent, pendingApply, helpers, nextHelperId>>
      /\ pendingStatuses' = [pendingStatuses EXCEPT ![s] = b] /\ s \in DOMAIN pendingStatuses
  BY DEF PreventApply, helperVars
<1>2. asked' = IF Asking THEN IF b THEN asked \cup {s} ELSE asked \ {s} ELSE asked
  <2>1. (\E f \in ToSet(stack) : f.op = "apply" /\ f.s = s /\ f.stage = "osiris") <=> Asking
    BY InStack DEF At, Nested, Typed
  <2> QED
    BY <2>1 DEF PreventApply
<1> HIDE DEF Asking
<1>3. /\ pendingStatuses' \in [DOMAIN pendingStatuses' -> BOOLEAN]
      /\ DOMAIN pendingStatuses' = DOMAIN pendingStatuses
      /\ pendingStatuses'[s] = b
      /\ \A t \in DOMAIN pendingStatuses : t # s => pendingStatuses'[t] = pendingStatuses[t]
  BY <1>1 DEF Nested, Typed
<1>4. \A t : t # s => (t \in asked' <=> t \in asked)
  BY <1>2
\* An apply of s that is past its attempt is the only one, so nobody is asking.
<1>5. \A i \in At(stack, "apply") :
        stack[i].s = s /\ stack[i].stage # "osiris" => asked' = asked
  BY <1>2 DEF Asking, Nested, Once
<1>6. ASSUME NEW i \in At(stack, "apply"), stack[i].s = s, stack[i].stage = "osiris"
      PROVE  s \in asked' <=> b = TRUE
  BY <1>2, <1>6 DEF Asking
<1>7. Staged(stack, pendingStatuses', asked')
  <2> SUFFICES ASSUME NEW i \in At(stack, "apply")
               PROVE  /\ stack[i].stage \in {"osiris", "lua"}
                           => stack[i].s \in DOMAIN pendingStatuses'
                      /\ stack[i].stage = "osiris"
                           => (pendingStatuses'[stack[i].s] = TRUE <=> stack[i].s \in asked')
                      /\ stack[i].stage = "skipped" => stack[i].s \in asked'
                      /\ stack[i].stage \in {"direct", "entered"}
                           /\ stack[i].s \in DOMAIN pendingStatuses' => stack[i].s \notin asked'
    BY DEF Staged
  <2>1. Staged(stack, pendingStatuses, asked)
    BY DEF Nested
  <2>2. CASE stack[i].s # s
    BY <2>1, <2>2, <1>3, <1>4 DEF Staged
  <2>3. CASE stack[i].s = s /\ stack[i].stage # "osiris"
    BY <2>1, <2>3, <1>3, <1>5 DEF Staged
  <2>4. CASE stack[i].s = s /\ stack[i].stage = "osiris"
    BY <2>4, <1>1, <1>3, <1>6
  <2> QED
    BY <2>2, <2>3, <2>4
<1>8. Chain(stack, DOMAIN pendingStatuses, prevent, asked')
  <2>1. \A i \in 1 .. Len(stack) :
          Deciding(stack[i]) => (stack[i].s \in asked' <=> stack[i].s \in asked)
    BY <1>4, <1>5 DEF Deciding, At
  <2>2. Len(stack) \in Nat
    BY DEF Nested, Typed
  <2> QED
    BY <2>1, <2>2, ChainSame DEF Nested
<1>9. Known(stack, "apply", pendingStatuses')
  BY <1>3 DEF Nested, Known
<1> QED
  BY <1>1, <1>3, <1>7, <1>8, <1>9 DEF Nested, Typed

LEMMA StatusAttemptedNests ==
  ASSUME Nested, StatusAttempted
  PROVE  Nested'
<1> DEFINE f == [Top EXCEPT !.stage = "lua", !.prev = prevent]
           n == Len(stack)
<1>1. /\ stack \in Seq(Frames) /\ stack # <<>> /\ Top = stack[n]
      /\ Top.op = "apply" /\ Top.stage = "osiris" /\ Top \in ApplyFrames
      /\ n \in At(stack, "apply") /\ prevent \in BOOLEAN
  BY TopTyped DEF StatusAttempted, TopIsAt, Nested, Typed
<1>2. /\ f \in Frames /\ f.op = "apply" /\ f.s = Top.s /\ f.stage = "lua" /\ f.prev = prevent
  BY <1>1 DEF Frames, ApplyFrames
<1>3. stack' = Append(Front(stack), f)
  BY DEF StatusAttempted, Instead
<1>4. /\ UNCHANGED <<pendingStatuses, pendingApply, asked, helpers, nextHelperId>>
      /\ prevent' = pendingStatuses[Top.s]
  BY DEF StatusAttempted, helperVars
<1> HIDE DEF f
<1>5. stack' \in Seq(Frames) /\ Changed(stack, stack', f)
  BY <1>1, <1>2, <1>3, Replaces
<1>6. /\ Top.s \in DOMAIN pendingStatuses
      /\ pendingStatuses[Top.s] = TRUE <=> Top.s \in asked
  BY <1>1 DEF Nested, Staged
<1>7. prevent' \in BOOLEAN
  BY <1>4, <1>6 DEF Nested, Typed
<1>8. HeldBy(stack', helpers', nextHelperId')
  BY <1>1, <1>2, <1>4, <1>5, HeldChanged DEF Nested
<1>9. Once(stack')
  BY <1>1, <1>2, <1>5, OnceChanged DEF Nested
<1>10. Staged(stack', pendingStatuses', asked')
  BY <1>1, <1>2, <1>4, <1>5, <1>6, StagedInstead DEF Nested
<1>11. Known(stack', "apply", pendingStatuses') /\ Known(stack', "enter", pendingApply')
  BY <1>1, <1>2, <1>4, <1>5, KnownChanged DEF Nested
<1>12. Chain(stack', DOMAIN pendingStatuses', prevent', asked')
  <2>1. /\ ~Kept(stack[n], DOMAIN pendingStatuses) /\ ~Deciding(stack[n])
        /\ Kept(f, DOMAIN pendingStatuses) /\ Deciding(f)
    BY <1>1, <1>2, <1>6 DEF Kept, Deciding
  <2>2. prevent' = TRUE <=> f.s \in asked
    BY <1>2, <1>4, <1>6
  <2> QED
    BY <2>1, <2>2, <1>2, <1>4, <1>5, ChainKeep DEF Changed, Nested
<1> QED
  BY <1>4, <1>5, <1>7, <1>8, <1>9, <1>10, <1>11, <1>12 DEF Nested, Typed

\* At the decision the flag is that of the frame's own status: nothing is above it.
LEMMA OwnFlag ==
  ASSUME Nested, TopIsAt("apply", "lua")
  PROVE  prevent = TRUE <=> Top.s \in asked
<1> DEFINE n == Len(stack)
<1>1. /\ stack \in Seq(Frames) /\ Top = stack[n] /\ Top.op = "apply" /\ Top.stage = "lua"
      /\ n \in At(stack, "apply")
  BY TopTyped DEF TopIsAt, Nested
<1>2. n \in Nat /\ n # 0 /\ n \in Bases(stack)
  BY <1>1 DEF At, Bases, Deciding
<1>3. Clear(stack, n, n + 1, DOMAIN pendingStatuses)
  BY <1>2 DEF Clear
<1>4. prevent = TRUE <=> Flag(stack, n, asked)
  BY <1>2, <1>3 DEF Nested, Chain
<1> QED
  BY <1>1, <1>2, <1>4 DEF Flag

LEMMA BeforeStatusApplyNests ==
  ASSUME Nested, NEW b \in BOOLEAN, BeforeStatusApply(b)
  PROVE  Nested'
<1> DEFINE f == [Top EXCEPT !.stage = IF prevent' THEN "skipped" ELSE "direct"]
           n == Len(stack)
<1>1. /\ stack \in Seq(Frames) /\ stack # <<>> /\ Top = stack[n]
      /\ Top.op = "apply" /\ Top.stage = "lua" /\ Top \in ApplyFrames
      /\ n \in At(stack, "apply") /\ prevent \in BOOLEAN
      /\ TopIsAt("apply", "lua")
  BY TopTyped DEF BeforeStatusApply, TopIsAt, Nested, Typed
<1>2. /\ f \in Frames /\ f.op = "apply" /\ f.s = Top.s /\ f.prev = Top.prev
      /\ f.stage = IF prevent' THEN "skipped" ELSE "direct"
  BY <1>1 DEF Frames, ApplyFrames
<1>3. stack' = Append(Front(stack), f)
  BY DEF BeforeStatusApply, GoTo, Instead
<1>4. /\ UNCHANGED <<pendingStatuses, pendingApply, helpers, nextHelperId>>
      /\ asked' = IF b THEN asked \cup {Top.s} ELSE asked
      /\ prevent' \in BOOLEAN
  BY DEF BeforeStatusApply, helperVars
<1> HIDE DEF f
<1>5. stack' \in Seq(Frames) /\ Changed(stack, stack', f)
  BY <1>1, <1>2, <1>3, Replaces
<1>6. Top.s \in DOMAIN pendingStatuses
  BY <1>1 DEF Nested, Staged
\* The status is prevented exactly if its handlers, or those of Lua, asked for it.
<1>7. prevent' <=> Top.s \in asked'
  <2>1. prevent <=> Top.s \in asked
    BY <1>1, OwnFlag
  <2>2. prevent' <=> prevent \/ b
    BY DEF BeforeStatusApply
  <2> QED
    BY <2>1, <2>2, <1>4
<1>8. /\ f.stage = "skipped" => f.s \in asked'
      /\ f.stage = "direct" => f.s \notin asked'
      /\ f.stage \in {"skipped", "direct"}
  BY <1>2, <1>4, <1>7
<1>9. HeldBy(stack', helpers', nextHelperId')
  BY <1>1, <1>2, <1>4, <1>5, HeldChanged DEF Nested
<1>10. Once(stack')
  BY <1>1, <1>2, <1>5, OnceChanged DEF Nested
<1>11. Staged(stack', pendingStatuses', asked')
  <2>1. asked' \ {f.s} = asked \ {f.s}
    BY <1>2, <1>4
  <2> QED
    BY <2>1, <1>1, <1>2, <1>4, <1>5, <1>8, StagedInstead DEF Nested
<1>12. Known(stack', "apply", pendingStatuses') /\ Known(stack', "enter", pendingApply')
  BY <1>1, <1>2, <1>4, <1>5, KnownChanged DEF Nested
<1>13. Chain(stack', DOMAIN pendingStatuses', prevent', asked')
  <2>1. /\ Kept(stack[n], DOMAIN pendingStatuses) /\ Kept(f, DOMAIN pendingStatuses)
        /\ ~Deciding(f)
    BY <1>1, <1>2, <1>6, <1>8 DEF Kept, Deciding
  <2>2. \A i \in 1 .. Len(stack) - 1 :
          Deciding(stack[i]) => (stack[i].s \in asked' <=> stack[i].s \in asked)
    <3>1. \A i \in 1 .. Len(stack) - 1 : stack[i].op = "apply" => stack[i].s # Top.s
      BY <1>1, <1>5, OnceOther DEF Changed, Nested
    <3> QED
      BY <3>1, <1>4 DEF Deciding
  <2> QED
    BY <2>1, <2>2, <1>1, <1>2, <1>4, <1>5, ChainDecide DEF Changed, Nested
<1> QED
  BY <1>4, <1>5, <1>9, <1>10, <1>11, <1>12, <1>13 DEF Nested, Typed

LEMMA EnterStatusNests ==
  ASSUME IInv, Nested, EnterStatus
  PROVE  Nested'
<1> DEFINE e == [Top EXCEPT !.stage = "entered"]
           q == Append(Front(stack), e)
           c == Found(pendingHits, pendingHits.hitStatusMap, Top.s)
           f == [op |-> "enter", s |-> Top.s, context |-> c]
<1>1. /\ stack \in Seq(Frames) /\ stack # <<>> /\ Top = stack[Len(stack)]
      /\ Top.op = "apply" /\ Top.stage = "direct" /\ Top \in ApplyFrames
      /\ Len(stack) \in At(stack, "apply")
  BY TopTyped DEF EnterStatus, TopIsAt, Nested
<1>2. c \in Nat
  BY DEF IInv, Good, Numbered, SetUp, Found
<1> HIDE DEF c
<1>3. /\ e \in Frames /\ e.op = "apply" /\ e.s = Top.s /\ e.stage = "entered"
      /\ e.prev = Top.prev
      /\ f \in Frames /\ f.op = "enter" /\ f.s = Top.s
  BY <1>1, <1>2 DEF Frames, ApplyFrames, EnterFrames
<1>4. /\ stack' = Append(q, f)
      /\ UNCHANGED <<prevent, pendingStatuses, asked, helpers, nextHelperId>>
      /\ pendingApply' = Assign(pendingApply, Top.s, FALSE)
  BY DEF EnterStatus, helperVars, c
<1> HIDE DEF e, f
<1>5. q \in Seq(Frames) /\ Changed(stack, q, e)
  BY <1>1, <1>3, Replaces
<1> HIDE DEF q
<1>6. stack' \in Seq(Frames) /\ Grown(q, stack', f)
  BY <1>3, <1>4, <1>5, Pushes
<1>7. HeldBy(stack', helpers', nextHelperId')
  <2>1. HeldBy(q, helpers, nextHelperId)
    BY <1>1, <1>3, <1>5, HeldChanged DEF Nested
  <2> QED
    BY <2>1, <1>3, <1>4, <1>6, HeldGrown
<1>8. Once(stack')
  <2>1. Once(q)
    BY <1>1, <1>3, <1>5, OnceChanged DEF Nested
  <2> QED
    BY <2>1, <1>3, <1>6, OnceGrown
<1>9. Staged(stack', pendingStatuses', asked')
  <2>1. Top.s \in DOMAIN pendingStatuses => Top.s \notin asked
    BY <1>1 DEF Nested, Staged
  <2>2. Staged(q, pendingStatuses, asked)
    BY <2>1, <1>1, <1>3, <1>5, StagedInstead DEF Nested
  <2> QED
    BY <2>2, <1>3, <1>4, <1>6, StagedGrown
<1>10. Known(stack', "apply", pendingStatuses')
  <2>1. Known(q, "apply", pendingStatuses)
    BY <1>1, <1>3, <1>5, KnownChanged DEF Nested
  <2> QED
    BY <2>1, <1>4, <1>6, KnownGrown
<1>11. Known(stack', "enter", pendingApply')
  <2>1. Known(q, "enter", pendingApply)
    BY <1>1, <1>3, <1>5, KnownChanged DEF Nested
  <2>2. Known(stack', "enter", pendingApply)
    BY <2>1, <1>6, KnownGrown
  <2>3. Len(q) + 1 \in At(stack', "enter") /\ stack'[Len(q) + 1].s = Top.s
    BY <1>3, <1>6 DEF Grown, At
  <2>4. DOMAIN pendingApply' = DOMAIN pendingApply \cup {Top.s}
    BY <1>4 DEF Assign
  <2> QED
    BY <2>2, <2>3, <2>4 DEF Known
<1>12. pendingApply' \in [DOMAIN pendingApply' -> BOOLEAN]
  BY <1>4 DEF Assign, Nested, Typed
<1>13. Chain(stack', DOMAIN pendingStatuses', prevent', asked')
  <2>1. Chain(q, DOMAIN pendingStatuses, prevent, asked)
    BY <1>1, <1>3, <1>5, ChainChanged DEF Nested, Kept, Deciding
  <2> QED
    BY <2>1, <1>3, <1>4, <1>6, ChainGrown DEF Kept, Deciding
<1> QED
  BY <1>4, <1>6, <1>7, <1>8, <1>9, <1>10, <1>11, <1>12, <1>13 DEF Nested, Typed

LEMMA CharacterApplyDamageNests ==
  ASSUME IInv, Nested, CharacterApplyDamage
  PROVE  Nested'
<1> DEFINE c == IF Top.s \in DOMAIN pendingHits.hitStatusDamageMap
                  THEN pendingHits.hitStatusDamageMap[Top.s] ELSE 0
           f == [Top EXCEPT !.context = c]
<1>1. /\ stack \in Seq(Frames) /\ stack # <<>> /\ Top = stack[Len(stack)]
      /\ Top.op = "enter" /\ Top \in EnterFrames
  BY TopTyped DEF CharacterApplyDamage, Nested
<1>2. c \in Nat
  BY DEF IInv, Good, Numbered, Entered
<1>3. stack' = Append(Front(stack), f)
  BY DEF CharacterApplyDamage, Instead
<1> HIDE DEF c
<1>4. f \in Frames /\ f.op = "enter" /\ f.s = Top.s
  BY <1>1, <1>2 DEF Frames, EnterFrames
<1>5. UNCHANGED <<prevent, pendingStatuses, pendingApply, asked, helpers, nextHelperId>>
  BY DEF CharacterApplyDamage, statusVars, helperVars
<1> HIDE DEF f
<1>6. stack' \in Seq(Frames) /\ Changed(stack, stack', f)
  BY <1>1, <1>3, <1>4, Replaces
<1>7. HeldBy(stack', helpers', nextHelperId') /\ Once(stack')
  BY <1>1, <1>4, <1>5, <1>6, HeldChanged, OnceChanged DEF Nested
<1>8. Staged(stack', pendingStatuses', asked')
  BY <1>1, <1>4, <1>5, <1>6, StagedChanged DEF Nested
<1>9. Known(stack', "apply", pendingStatuses') /\ Known(stack', "enter", pendingApply')
  BY <1>1, <1>4, <1>5, <1>6, KnownChanged DEF Nested
<1>10. Chain(stack', DOMAIN pendingStatuses', prevent', asked')
  BY <1>1, <1>4, <1>5, <1>6, ChainChanged DEF Nested, Kept, Deciding
<1> QED
  BY <1>5, <1>6, <1>7, <1>8, <1>9, <1>10 DEF Nested, Typed

LEMMA EnterStatusReturnsNests ==
  ASSUME Nested, EnterStatusReturns
  PROVE  Nested'
<1>1. stack \in Seq(Frames) /\ stack # <<>> /\ Top = stack[Len(stack)] /\ Top.op = "enter"
  BY TopTyped DEF EnterStatusReturns, Nested
<1>2. stack' \in Seq(Frames) /\ Shrunk(stack, stack')
  BY <1>1, Pops DEF EnterStatusReturns, Return
<1>3. /\ UNCHANGED <<prevent, pendingStatuses, asked, helpers, nextHelperId>>
      /\ pendingApply' = Without(pendingApply, Top.s)
  BY DEF EnterStatusReturns, helperVars
<1>4. HeldBy(stack', helpers', nextHelperId')
  BY <1>1, <1>2, <1>3, HeldShrunk DEF Nested
<1>5. Once(stack') /\ Staged(stack', pendingStatuses', asked')
  BY <1>2, <1>3, OnceShrunk, StagedShrunk DEF Nested
<1>6. Known(stack', "apply", pendingStatuses')
  BY <1>1, <1>2, <1>3, KnownShrunk DEF Nested
<1>7. Known(stack', "enter", pendingApply')
  BY <1>1, <1>2, <1>3, KnownForgot DEF Nested
<1>8. Chain(stack', DOMAIN pendingStatuses', prevent', asked')
  BY <1>1, <1>2, <1>3, ChainShrunk DEF Nested, Kept, Deciding
<1>9. pendingApply' \in [DOMAIN pendingApply' -> BOOLEAN]
  BY <1>3 DEF Without, Restrict, Nested, Typed
<1> QED
  BY <1>2, <1>3, <1>4, <1>5, <1>6, <1>7, <1>8, <1>9 DEF Nested, Typed

LEMMA ApplyStatusReturnsNests ==
  ASSUME Nested, ApplyStatusReturns
  PROVE  Nested'
<1>1. /\ stack \in Seq(Frames) /\ stack # <<>> /\ Top = stack[Len(stack)] /\ Top.op = "apply"
      /\ Top.stage \in {"skipped", "entered"} /\ Top.prev \in BOOLEAN
  BY TopTyped DEF ApplyStatusReturns, Nested, ApplyFrames
<1>2. stack' \in Seq(Frames) /\ Shrunk(stack, stack')
  BY <1>1, Pops DEF ApplyStatusReturns, Return
<1>3. /\ UNCHANGED <<pendingApply, asked, helpers, nextHelperId>>
      /\ prevent' = IF Top.s \in DOMAIN pendingStatuses THEN Top.prev ELSE prevent
      /\ pendingStatuses' = Without(pendingStatuses, Top.s)
  BY DEF ApplyStatusReturns, helperVars
<1>4. HeldBy(stack', helpers', nextHelperId')
  BY <1>1, <1>2, <1>3, HeldShrunk DEF Nested
<1>5. Once(stack')
  BY <1>2, OnceShrunk DEF Nested
<1>6. /\ Staged(stack', pendingStatuses', asked')
      /\ Chain(stack', DOMAIN pendingStatuses', prevent', asked')
  BY <1>1, <1>2, <1>3, ApplyForgot DEF Nested
<1>7. Known(stack', "apply", pendingStatuses')
  BY <1>1, <1>2, <1>3, KnownForgot DEF Nested
<1>8. Known(stack', "enter", pendingApply')
  BY <1>1, <1>2, <1>3, KnownShrunk DEF Nested
<1>9. /\ pendingStatuses' \in [DOMAIN pendingStatuses' -> BOOLEAN]
      /\ prevent' \in BOOLEAN
  BY <1>1, <1>3 DEF Nested, Typed, Without, Restrict
<1> QED
  BY <1>2, <1>3, <1>4, <1>5, <1>6, <1>7, <1>8, <1>9 DEF Nested, Typed

LEMMA DeleteStatusNests ==
  ASSUME Nested, NEW s \in Statuses, DeleteStatus(s)
  PROVE  Nested'
<1> DEFINE f == [op |-> "delete", s |-> s]
<1>1. f \in Frames /\ f.op = "delete"
  BY DEF Frames, DeleteFrames
<1>2. Push(f)
  BY DEF DeleteStatus
<1> HIDE DEF f
<1>3. stack \in Seq(Frames) /\ stack' \in Seq(Frames) /\ Grown(stack, stack', f)
  BY <1>1, <1>2, Pushes DEF Push, Nested, Typed
<1>4. UNCHANGED <<prevent, pendingStatuses, pendingApply, asked, helpers, nextHelperId>>
  BY DEF DeleteStatus, statusVars, helperVars
<1>5. HeldBy(stack', helpers', nextHelperId') /\ Once(stack')
  BY <1>1, <1>3, <1>4, HeldGrown, OnceGrown DEF Nested
<1>6. Staged(stack', pendingStatuses', asked')
  BY <1>1, <1>3, <1>4, StagedGrown DEF Nested
<1>7. Known(stack', "apply", pendingStatuses') /\ Known(stack', "enter", pendingApply')
  BY <1>3, <1>4, KnownGrown DEF Nested
<1>8. Chain(stack', DOMAIN pendingStatuses', prevent', asked')
  BY <1>1, <1>3, <1>4, ChainGrown DEF Nested, Kept, Deciding
<1> QED
  BY <1>3, <1>4, <1>5, <1>6, <1>7, <1>8 DEF Nested, Typed

LEMMA DeleteReturnsNests ==
  ASSUME Nested, DeleteStatusReturns \/ DeletedTwice
  PROVE  Nested'
<1>1. stack \in Seq(Frames) /\ stack # <<>> /\ Top = stack[Len(stack)] /\ Top.op = "delete"
  BY TopTyped DEF DeleteStatusReturns, DeletedTwice, Nested
<1>2. stack' \in Seq(Frames) /\ Shrunk(stack, stack')
  BY <1>1, Pops DEF DeleteStatusReturns, DeletedTwice, Return
<1>3. /\ UNCHANGED <<prevent, pendingStatuses, asked, helpers, nextHelperId>>
      /\ DOMAIN pendingApply' = DOMAIN pendingApply
      /\ pendingApply' \in [DOMAIN pendingApply' -> BOOLEAN]
  BY DEF DeleteStatusReturns, DeletedTwice, helperVars, statusVars, Nested, Typed
<1>4. HeldBy(stack', helpers', nextHelperId')
  BY <1>1, <1>2, <1>3, HeldShrunk DEF Nested
<1>5. Once(stack') /\ Staged(stack', pendingStatuses', asked')
  BY <1>2, <1>3, OnceShrunk, StagedShrunk DEF Nested
<1>6. Known(stack', "apply", pendingStatuses')
  BY <1>1, <1>2, <1>3, KnownShrunk DEF Nested
<1>7. Known(stack', "enter", pendingApply')
  <2>1. Known(stack', "enter", pendingApply)
    BY <1>1, <1>2, KnownShrunk DEF Nested
  <2> QED
    BY <2>1, <1>3 DEF Known
<1>8. Chain(stack', DOMAIN pendingStatuses', prevent', asked')
  BY <1>1, <1>2, <1>3, ChainShrunk DEF Nested, Kept, Deciding
<1> QED
  BY <1>2, <1>3, <1>4, <1>5, <1>6, <1>7, <1>8 DEF Nested, Typed

-----------------------------------------------------------------------------
(* The specification. *)

NInv == IInv /\ Nested

\* With no hook in progress the parts are about nothing.
LEMMA NothingNests ==
  ASSUME NEW flag, flag = FALSE, NEW ask
  PROVE  /\ HeldBy(<<>>, Empty, 1) /\ Once(<<>>) /\ Staged(<<>>, Empty, ask)
         /\ Known(<<>>, "apply", Empty) /\ Known(<<>>, "enter", Empty)
         /\ Chain(<<>>, DOMAIN Empty, flag, ask)
<1>1. \A op : At(<<>>, op) = {}
  BY DEF At
<1>2. DOMAIN Empty = {}
  BY DEF Empty
<1>3. HeldBy(<<>>, Empty, 1) /\ Once(<<>>) /\ Staged(<<>>, Empty, ask)
  BY <1>1, <1>2 DEF HeldBy, Once, Staged
<1>4. Known(<<>>, "apply", Empty) /\ Known(<<>>, "enter", Empty)
  BY <1>2 DEF Known
<1>5. Chain(<<>>, DOMAIN Empty, flag, ask)
  BY DEF Chain, Bases, Flag
<1> QED
  BY <1>3, <1>4, <1>5

LEMMA EmptyTyped == <<>> \in Seq(Frames) /\ Empty \in [DOMAIN Empty -> BOOLEAN]
<1>1. <<>> \in Seq(Frames)
  OBVIOUS
<1>2. Empty \in [DOMAIN Empty -> BOOLEAN]
  BY DEF Empty
<1> QED
  BY <1>1, <1>2

LEMMA InitNests == Init => NInv
<1> SUFFICES ASSUME Init PROVE NInv
  OBVIOUS
<1>1. /\ stack = <<>> /\ helpers = Empty /\ nextHelperId = 1 /\ prevent = FALSE
      /\ pendingStatuses = Empty /\ pendingApply = Empty
  BY DEF Init
<1>2. Typed
  BY <1>1, EmptyTyped DEF Typed
<1> QED
  BY <1>1, <1>2, NothingNests, InitGood DEF NInv, Nested

LEMMA NewSessionNests ==
  ASSUME NewSession
  PROVE  Nested'
<1>1. /\ stack' = <<>> /\ helpers' = Empty /\ nextHelperId' = 1 /\ prevent' = FALSE
      /\ pendingStatuses' = Empty /\ pendingApply' = Empty
  BY DEF NewSession
<1>2. Typed'
  BY <1>1, EmptyTyped DEF Typed
<1> QED
  BY <1>1, <1>2, NothingNests DEF Nested

LEMMA HitsNest == NInv /\ Hits => Nested'
<1> SUFFICES ASSUME NInv, Hits PROVE Nested'
  OBVIOUS
<1>1. CASE \E p \in Infos : CharacterHit(p)
  BY <1>1, CharacterHitNests DEF NInv
<1>2. CASE CharacterHitReturns
  BY <1>2, CharacterHitReturnsNests DEF NInv
<1>3. CASE HitPrepare
  BY <1>3, HitPrepareNests DEF NInv
<1>4. CASE ExecuteHit
  BY <1>4, ExecuteHitNests DEF NInv
<1>5. CASE ExecuteReturns
  BY <1>5, ExecuteReturnsNests DEF NInv
<1>6. CASE ExecuteApply
  BY <1>6, ExecuteApplyNests DEF NInv
<1>7. CASE \E h \in DOMAIN helpers : HitExecuteFails(h)
  BY <1>7, HitExecuteFailsNests DEF NInv
<1>8. CASE \E h \in DOMAIN helpers, s \in Statuses, simulate \in BOOLEAN :
             HitExecute(h, s, simulate)
  BY <1>8, HitExecuteNests DEF NInv
<1>9. CASE \E s \in Statuses, p \in Infos : StatusHitSetup(s, p)
  BY <1>9, StillNests DEF NInv, StatusHitSetup, helperVars, statusVars
<1> QED
  BY <1>1, <1>2, <1>3, <1>4, <1>5, <1>6, <1>7, <1>8, <1>9 DEF Hits

LEMMA MachineNests == NInv /\ Machine => Nested'
<1> SUFFICES ASSUME NInv, Machine PROVE Nested'
  OBVIOUS
<1>1. CASE \E s \in Statuses : ApplyStatus(s)
  BY <1>1, ApplyStatusNests DEF NInv
<1>2. CASE \E s \in Statuses : DeleteStatus(s)
  BY <1>2, DeleteStatusNests DEF NInv
<1>3. CASE \E s \in Statuses : Update(s)
  BY <1>3, StillNests DEF NInv, Update, helperVars
<1>4. CASE \E s \in Statuses, b \in BOOLEAN : PreventApply(s, b)
  BY <1>4, PreventApplyNests DEF NInv
<1>5. CASE StatusAttempted
  BY <1>5, StatusAttemptedNests DEF NInv
<1>6. CASE \E b \in BOOLEAN : BeforeStatusApply(b)
  BY <1>6, BeforeStatusApplyNests DEF NInv
<1>7. CASE EnterStatus
  BY <1>7, EnterStatusNests DEF NInv
<1>8. CASE CharacterApplyDamage
  BY <1>8, CharacterApplyDamageNests DEF NInv
<1>9. CASE EnterStatusReturns
  BY <1>9, EnterStatusReturnsNests DEF NInv
<1>10. CASE ApplyStatusReturns
  BY <1>10, ApplyStatusReturnsNests DEF NInv
<1>11. CASE DeleteStatusReturns \/ DeletedTwice
  BY <1>11, DeleteReturnsNests DEF NInv
<1>12. CASE Activate
  BY <1>12, StillNests DEF NInv, Activate, helperVars
<1>13. CASE NewSession
  BY <1>13, NewSessionNests
<1> QED
  BY <1>1, <1>2, <1>3, <1>4, <1>5, <1>6, <1>7, <1>8, <1>9, <1>10, <1>11, <1>12, <1>13
  DEF Machine

LEMMA StepNests == NInv /\ [Next]_vars => NInv'
<1> SUFFICES ASSUME NInv, [Next]_vars PROVE NInv'
  OBVIOUS
<1>1. IInv'
  BY StepGood DEF NInv
<1>2. CASE Next
  BY <1>1, <1>2, HitsNest, MachineNests DEF Next, NInv
<1>3. CASE UNCHANGED vars
  BY <1>1, <1>3, StillNests DEF vars, helperVars, statusVars, NInv
<1> QED
  BY <1>2, <1>3

LEMMA AlwaysNested == Spec => []NInv
BY InitNests, StepNests, PTL DEF Spec

-----------------------------------------------------------------------------
(* The properties. *)

LEMMA NestedPreventions == NInv => PreventionIsOwn
<1> SUFFICES ASSUME NInv PROVE PreventionIsOwn
  OBVIOUS
<1>1. ToSet(stack) = {stack[i] : i \in 1 .. Len(stack)}
  BY InStack DEF NInv, Nested, Typed
<1> QED
  BY <1>1 DEF PreventionIsOwn, NInv, Nested, Staged, At

LEMMA NestedHelpers == NInv => HelpersLive
<1> SUFFICES ASSUME NInv PROVE HelpersLive
  OBVIOUS
<1>1. ToSet(stack) = {stack[i] : i \in 1 .. Len(stack)}
  BY InStack DEF NInv, Nested, Typed
<1> QED
  BY <1>1 DEF HelpersLive, NInv, Nested, HeldBy, At

LEMMA NestedNothingLeft == NInv => NothingLeft
<1> SUFFICES ASSUME NInv, stack = <<>>
             PROVE  /\ ~prevent /\ pendingStatuses = Empty /\ pendingApply = Empty
                    /\ \A h \in DOMAIN helpers : helpers[h] = "custom"
  BY DEF NothingLeft
<1>1. \A op : At(stack, op) = {}
  BY DEF At
<1>2. DOMAIN pendingStatuses = {} /\ DOMAIN pendingApply = {}
  BY <1>1 DEF NInv, Nested, Known
<1>3. pendingStatuses = Empty /\ pendingApply = Empty
  BY <1>2 DEF Empty, NInv, Nested, Typed
<1>4. ~prevent
  <2>1. 0 \in Bases(stack) /\ Clear(stack, 0, Len(stack) + 1, DOMAIN pendingStatuses)
    BY DEF Bases, Clear
  <2>2. prevent = TRUE <=> Flag(stack, 0, asked)
    BY <2>1 DEF NInv, Nested, Chain
  <2> QED
    BY <2>2 DEF Flag, NInv, Nested, Typed
<1>5. \A h \in DOMAIN helpers : helpers[h] = "custom"
  BY <1>1 DEF NInv, Nested, HeldBy
<1> QED
  BY <1>3, <1>4, <1>5

\* A status is entered if and only if no handler asked in time to prevent it
\* (HitProxy::OnApplyStatus, Hit.cpp:317-355), however deep applies nest.
THEOREM Prevention == Spec => []PreventionIsOwn
BY AlwaysNested, NestedPreventions, PTL

\* The damage helper that OnCharacterHit goes on to use after its handlers (Hit.cpp:269)
\* is still there.
THEOREM Helpers == Spec => []HelpersLive
BY AlwaysNested, NestedHelpers, PTL

\* When all hooks have returned, the machine's flag is reset, nothing is pending, and the
\* helpers of the extender's own hits are destroyed (Hit.cpp:277, 355; Status.cpp:42).
THEOREM Nothing == Spec => []NothingLeft
BY AlwaysNested, NestedNothingLeft, PTL
=============================================================================
