----------------------- MODULE CombatStatuses_proofs -----------------------
(***************************************************************************)
(* Proofs of Combat's properties about the statuses themselves: that the   *)
(* machine does not free a status whose Enter is running and keeps a       *)
(* deletion asked for meanwhile, and that the handlers of a status get the *)
(* context of its own hit, for any addresses and any depth of nesting.     *)
(***************************************************************************)
EXTENDS CombatNesting_proofs

-----------------------------------------------------------------------------
(* The inductive invariant: the list, the objects, and the calls that have *)
(* them in hand.  q is a stack, L the statuses in the list, lf what became *)
(* of the objects.                                                         *)

\* A status that is in the list is applied; one whose application has not entered it yet
\* is not in the list, ...
Linked(q, L, lf) ==
  /\ \A s \in L : lf[s] = "applied"
  /\ \A i \in At(q, "apply") :
       q[i].stage # "entered" => lf[q[i].s] = "applied" /\ q[i].s \notin L
  /\ \A i \in At(q, "execute") : q[i].stage # "end" => lf[q[i].s] = "made"

\* ... one that is being entered is pending, and alive, below it the call that applies it, ...
Entering(q, lf, pend) ==
  \A i \in At(q, "enter") :
    /\ i - 1 \in At(q, "apply")
    /\ q[i - 1].stage = "entered" /\ q[i - 1].s = q[i].s
    /\ q[i].s \in DOMAIN pend /\ lf[q[i].s] = "applied"

\* ... and it is in the list until its deletion is asked for.  A request outlives that only
\* in the list.
Marked(L, pend, req) ==
  /\ \A s \in DOMAIN pend : pend[s] = FALSE <=> s \in L
  /\ \A s \in req : s \in DOMAIN pend \/ s \in L

Lives ==
  /\ list \in Seq(Statuses) /\ IsInjective(list)
  /\ life \in [Statuses -> {"none", "made", "applied"}]
  /\ Linked(stack, ToSet(list), life)
  /\ Entering(stack, life, pendingApply)
  /\ Marked(ToSet(list), pendingApply, requested)

\* A status that a hook has in hand is gone: there is no next step.
Doomed ==
  /\ crashed = TRUE
  /\ list \in Seq(Statuses)
  /\ life \in [Statuses -> {"none", "made", "applied"}]
  /\ DeletionWaits

\* The flags, and the sets of statuses.
Flags ==
  /\ active \in BOOLEAN /\ crashed \in BOOLEAN
  /\ requested \subseteq Statuses /\ asked \subseteq Statuses
  /\ seen \subseteq Statuses /\ reused \subseteq Statuses

-----------------------------------------------------------------------------
(* The list. *)

LEMMA Listed ==
  ASSUME NEW l \in Seq(Statuses)
  PROVE  ToSet(l) = {l[i] : i \in 1 .. Len(l)} /\ ToSet(l) \subseteq Statuses
<1>1. \A i \in 1 .. Len(l) : l[i] \in Statuses
  OBVIOUS
<1> QED
  BY <1>1 DEF ToSet

\* A status joins the list.
LEMMA Appended ==
  ASSUME NEW l \in Seq(Statuses), NEW s \in Statuses, IsInjective(l), s \notin ToSet(l)
  PROVE  /\ Append(l, s) \in Seq(Statuses) /\ IsInjective(Append(l, s))
         /\ ToSet(Append(l, s)) = ToSet(l) \cup {s}
<1> DEFINE r == Append(l, s)
           n == Len(l)
<1>1. /\ r \in Seq(Statuses) /\ n \in Nat /\ Len(r) = n + 1 /\ DOMAIN r = 1 .. n + 1
      /\ \A i \in 1 .. n : r[i] = l[i]
      /\ r[n + 1] = s /\ DOMAIN l = 1 .. n
  OBVIOUS
<1>2. 1 .. n + 1 = (1 .. n) \cup {n + 1}
  BY <1>1
<1> HIDE DEF r, n
<1>3. \A i \in 1 .. n : l[i] # s
  BY Listed DEF n
<1>4. ToSet(r) = ToSet(l) \cup {s}
  <2>1. ToSet(r) = {r[i] : i \in 1 .. n + 1}
    BY <1>1, Listed
  <2>2. ToSet(l) = {l[i] : i \in 1 .. n}
    BY Listed DEF n
  <2> QED
    BY <2>1, <2>2, <1>1, <1>2
<1>5. IsInjective(r)
  BY <1>1, <1>2, <1>3 DEF IsInjective
<1> QED
  BY <1>1, <1>4, <1>5 DEF r

\* Array::remove takes out the one entry that is s, and leaves the others, in any order.
LEMMA Removal ==
  ASSUME NEW s, list \in Seq(Statuses), IsInjective(list), s \in ToSet(list)
  PROVE  /\ Removed(s) \in Seq(Statuses) /\ IsInjective(Removed(s))
         /\ ToSet(Removed(s)) = ToSet(list) \ {s}
<1> DEFINE n == Len(list)
           First(i) == list[i] = s /\ \A j \in 1 .. i - 1 : list[j] # s
           k == CHOOSE i \in DOMAIN list : First(i)
           r == [list EXCEPT ![k] = Last(list)]
           t == Front(r)
<1>1. /\ n \in Nat /\ DOMAIN list = 1 .. n
      /\ \A i \in 1 .. n : list[i] \in Statuses
      /\ \A i, j \in 1 .. n : list[i] = list[j] => i = j
  BY DEF IsInjective
<1>2. \E i \in DOMAIN list : First(i)
  <2>1. PICK i \in 1 .. n : list[i] = s
    BY Listed
  <2>2. \A j \in 1 .. i - 1 : j \in 1 .. n /\ j # i
    BY <1>1
  <2> QED
    BY <2>1, <2>2, <1>1
<1>3. k \in 1 .. n /\ list[k] = s
  BY <1>1, <1>2
<1>4. n # 0 /\ Last(list) = list[n] /\ n \in 1 .. n
  BY <1>1, <1>3 DEF Last
<1> HIDE DEF k
<1>5. /\ r \in Seq(Statuses) /\ Len(r) = n
      /\ \A i \in 1 .. n : r[i] = IF i = k THEN list[n] ELSE list[i]
  <2>1. r \in [1 .. n -> Statuses] /\ \A i \in 1 .. n : r[i] = IF i = k THEN list[n] ELSE list[i]
    BY <1>1, <1>3, <1>4
  <2> QED
    BY <2>1, <1>1
<1> HIDE DEF r
<1>6. /\ t \in Seq(Statuses) /\ DOMAIN t = 1 .. n - 1 /\ Len(t) = n - 1
      /\ \A i \in 1 .. n - 1 : t[i] = r[i]
  <2>1. n - 1 \in Nat /\ 1 .. (n - 1) \subseteq 1 .. n
    BY <1>1, <1>4
  <2>2. t = [i \in 1 .. n - 1 |-> r[i]]
    BY <1>1, <1>5, <2>1 DEF Front
  <2>3. t \in [1 .. n - 1 -> Statuses]
    BY <2>1, <2>2, <1>5
  <2> QED
    BY <2>1, <2>2, <2>3
<1>7. /\ \A i \in 1 .. n : i # n => i \in 1 .. n - 1
      /\ \A i \in 1 .. n - 1 : i \in 1 .. n /\ i # n
      /\ \A i \in 1 .. n - 1 : t[i] = IF i = k THEN list[n] ELSE list[i]
  <2>1. \A m \in Nat : \A i \in 1 .. m : i # m => i \in 1 .. m - 1
    OBVIOUS
  <2>2. \A m \in Nat : \A i \in 1 .. m - 1 : i \in 1 .. m /\ i # m
    OBVIOUS
  <2>3. n \in Nat
    BY <1>1
  <2> HIDE DEF n
  <2>4. /\ \A i \in 1 .. n : i # n => i \in 1 .. n - 1
        /\ \A i \in 1 .. n - 1 : i \in 1 .. n /\ i # n
    BY <2>1, <2>2, <2>3
  <2> QED
    BY <2>4, <1>5, <1>6
<1> HIDE DEF t
<1>8. IsInjective(t)
  BY <1>1, <1>4, <1>6, <1>7 DEF IsInjective
<1>9. ToSet(t) = ToSet(list) \ {s}
  <2>1. ToSet(t) = {t[i] : i \in 1 .. n - 1} /\ ToSet(list) = {list[i] : i \in 1 .. n}
    BY <1>6, Listed
  <2>2. \A i \in 1 .. n - 1 : t[i] \in ToSet(list) /\ t[i] # s
    BY <2>1, <1>1, <1>3, <1>4, <1>7
  <2>3. ASSUME NEW i \in 1 .. n, list[i] # s
        PROVE  \E j \in 1 .. n - 1 : t[j] = list[i]
    <3>1. CASE i = n
      <4>1. k \in 1 .. n - 1
        BY <3>1, <2>3, <1>3, <1>7
      <4> QED
        BY <4>1, <3>1, <1>7
    <3>2. CASE i # n
      <4>1. i \in 1 .. n - 1 /\ i # k
        <5>1. i # k
          BY <2>3, <1>3
        <5>2. i \in 1 .. n - 1
          BY <3>2, <1>7
        <5> QED
          BY <5>1, <5>2
      <4> QED
        BY <4>1, <1>7
    <3> QED
      BY <3>1, <3>2
  <2>4. ToSet(t) \subseteq ToSet(list) \ {s}
    BY <2>1, <2>2
  <2>5. \A x \in ToSet(list) : x # s => x \in ToSet(t)
    BY <2>1, <2>3
  <2> QED
    BY <2>4, <2>5
<1>10. Removed(s) = t
  BY DEF Removed, k, r, t
<1> QED
  BY <1>6, <1>8, <1>9, <1>10

-----------------------------------------------------------------------------
(* What a change of the stack keeps of the parts. *)

\* The status of a frame of a kind that has one.
LEMMA FrameStatus ==
  ASSUME NEW q \in Seq(Frames), NEW i \in 1 .. Len(q), q[i].op # "hit"
  PROVE  q[i].s \in Statuses
<1>1. q[i] \in Frames
  OBVIOUS
<1> QED
  BY <1>1 DEF Frames, HitFrames, ExecuteFrames, ApplyFrames, EnterFrames, DeleteFrames

LEMMA LinkedGrown ==
  ASSUME NEW q, NEW r, NEW f, NEW L, NEW lf, Grown(q, r, f), Linked(q, L, lf),
         f.op = "apply" /\ f.stage # "entered" => lf[f.s] = "applied" /\ f.s \notin L,
         f.op = "execute" /\ f.stage # "end" => lf[f.s] = "made"
  PROVE  Linked(r, L, lf)
<1> DEFINE n == Len(q) + 1
<1>1. \A op : \A i \in At(r, op) : (i \in At(q, op) /\ r[i] = q[i]) \/ (r[i] = f /\ f.op = op)
  BY DEF Grown, At
<1> QED
  BY <1>1 DEF Linked

LEMMA LinkedShrunk ==
  ASSUME NEW q, NEW r, NEW L, NEW lf, Shrunk(q, r), Linked(q, L, lf)
  PROVE  Linked(r, L, lf)
<1>1. \A op : \A i \in At(r, op) : i \in At(q, op) /\ r[i] = q[i]
  BY DEF Shrunk, At
<1> QED
  BY <1>1 DEF Linked

LEMMA LinkedChanged ==
  ASSUME NEW q, NEW r, NEW f, NEW L, NEW lf, Changed(q, r, f), Linked(q, L, lf),
         f.op = q[Len(q)].op, f.op \in {"apply", "execute"} => f.s = q[Len(q)].s,
         f.op = "apply" /\ f.stage # "entered" => q[Len(q)].stage # "entered",
         f.op = "execute" /\ f.stage # "end" => q[Len(q)].stage # "end"
  PROVE  Linked(r, L, lf)
<1>1. \A op : \A i \in At(r, op) :
        /\ i \in At(q, op)
        /\ r[i] = q[i] \/ (i = Len(q) /\ r[i] = f /\ f.op = op)
  BY DEF Changed, At
<1> QED
  BY <1>1 DEF Linked

\* What becomes of one object matters only to the calls that have it in hand, ...
LEMMA LinkedLife ==
  ASSUME NEW q \in Seq(Frames), NEW L \in SUBSET Statuses, NEW lf, NEW lf2, NEW s,
         Linked(q, L, lf), \A t \in Statuses : t # s => lf2[t] = lf[t], s \notin L,
         \A i \in At(q, "apply") : q[i].stage # "entered" => q[i].s # s,
         \A i \in At(q, "execute") : q[i].stage # "end" => q[i].s # s
  PROVE  Linked(q, L, lf2)
<1>1. \A i \in At(q, "apply") \cup At(q, "execute") : q[i].s \in Statuses
  BY FrameStatus DEF At
<1> QED
  BY <1>1 DEF Linked

\* ... and so does a change of the list.
LEMMA LinkedList ==
  ASSUME NEW q, NEW L, NEW M, NEW lf, Linked(q, L, lf),
         \A s \in M \ L : /\ lf[s] = "applied"
                          /\ \A i \in At(q, "apply") : q[i].stage # "entered" => q[i].s # s
  PROVE  Linked(q, M, lf)
BY DEF Linked

LEMMA EnteringGrown ==
  ASSUME NEW q, NEW r, NEW f, NEW lf, NEW pend, Grown(q, r, f), Entering(q, lf, pend),
         f.op # "enter"
  PROVE  Entering(r, lf, pend)
<1>1. At(r, "enter") = At(q, "enter")
  BY DEF Grown, At
<1>2. At(q, "apply") \subseteq At(r, "apply")
      /\ \A i \in At(q, "enter") \cup At(q, "apply") : r[i] = q[i]
  BY DEF Grown, At
<1> QED
  BY <1>1, <1>2 DEF Entering

LEMMA EnteringShrunk ==
  ASSUME NEW q, NEW r, NEW lf, NEW pend, Shrunk(q, r), Entering(q, lf, pend)
  PROVE  Entering(r, lf, pend)
<1>1. \A i \in At(r, "enter") : i \in At(q, "enter") /\ r[i] = q[i]
  BY DEF Shrunk, At
<1>2. \A i \in At(r, "enter") : i - 1 \in At(q, "apply") => i - 1 \in At(r, "apply")
                                                             /\ r[i - 1] = q[i - 1]
  BY DEF Shrunk, At
<1> QED
  BY <1>1, <1>2 DEF Entering

\* The call below is not that which changes.
LEMMA EnteringChanged ==
  ASSUME NEW q, NEW r, NEW f, NEW lf, NEW pend, Changed(q, r, f), Entering(q, lf, pend),
         f.op = q[Len(q)].op, f.op = "enter" => f.s = q[Len(q)].s
  PROVE  Entering(r, lf, pend)
<1>1. \A i \in At(r, "enter") : i \in At(q, "enter") /\ r[i].s = q[i].s
  BY DEF Changed, At
<1>2. \A i \in At(r, "enter") : i - 1 \in At(q, "apply") => i - 1 \in At(r, "apply")
                                                             /\ r[i - 1] = q[i - 1]
  BY DEF Changed, At
<1> QED
  BY <1>1, <1>2 DEF Entering

LEMMA EnteringLife ==
  ASSUME NEW q, NEW lf, NEW lf2, NEW pend, NEW pend2, Entering(q, lf, pend),
         \A i \in At(q, "enter") : lf2[q[i].s] = lf[q[i].s] /\ q[i].s \in DOMAIN pend2
  PROVE  Entering(q, lf2, pend2)
BY DEF Entering

\* The Enter of a status starts on top of its application.
LEMMA EnteringEnter ==
  ASSUME NEW q, NEW r, NEW f, NEW lf, NEW pend, Grown(q, r, f), Entering(q, lf, pend),
         f.op = "enter", Len(q) # 0, q[Len(q)].op = "apply", q[Len(q)].stage = "entered",
         q[Len(q)].s = f.s, f.s \in DOMAIN pend, lf[f.s] = "applied"
  PROVE  Entering(r, lf, pend)
<1> DEFINE n == Len(q)
<1>1. n \in Nat /\ Len(r) = n + 1 /\ r[n + 1] = f /\ \A i \in 1 .. n : r[i] = q[i]
  BY DEF Grown
<1>2. n \in 1 .. n /\ n \in 1 .. n + 1 /\ (n + 1) - 1 = n
  BY <1>1
<1>3. n \in At(r, "apply") /\ r[n] = q[n]
  BY <1>1, <1>2 DEF At
<1>4. \A i \in At(r, "enter") : i = n + 1 \/ (i \in At(q, "enter") /\ r[i] = q[i])
  BY <1>1 DEF At
<1>5. \A i \in At(q, "enter") : i - 1 \in At(q, "apply") => i - 1 \in At(r, "apply")
                                                             /\ r[i - 1] = q[i - 1]
  BY <1>1 DEF At
<1> HIDE DEF n
<1>6. ASSUME NEW i \in At(r, "enter")
      PROVE  /\ i - 1 \in At(r, "apply")
             /\ r[i - 1].stage = "entered" /\ r[i - 1].s = r[i].s
             /\ r[i].s \in DOMAIN pend /\ lf[r[i].s] = "applied"
  <2>1. CASE i = n + 1
    BY <2>1, <1>1, <1>2, <1>3 DEF n
  <2>2. CASE i \in At(q, "enter") /\ r[i] = q[i]
    BY <2>2, <1>5 DEF Entering
  <2> QED
    BY <2>1, <2>2, <1>4
<1> QED
  BY <1>6 DEF Entering

\* A status that is being entered is in no other application, ...
LEMMA EnteringOnce ==
  ASSUME NEW q, NEW lf, NEW pend, Once(q), Entering(q, lf, pend), NEW i \in At(q, "enter")
  PROVE  /\ \A j \in At(q, "apply") : q[j].stage # "entered" => q[j].s # q[i].s
         /\ \A j \in At(q, "execute") : q[j].stage # "end" => q[j].s # q[i].s
<1>1. i - 1 \in At(q, "apply") /\ q[i - 1].stage = "entered" /\ q[i - 1].s = q[i].s
  BY DEF Entering
<1>2. \A j \in At(q, "apply") : q[j].stage # "entered" => q[j].s # q[i].s
  BY <1>1 DEF Once
<1>3. \A j \in At(q, "execute") : q[j].stage # "end" => q[j].s # q[i].s
  BY <1>1 DEF Once
<1> QED
  BY <1>2, <1>3

\* ... nor is it being entered twice.
LEMMA EnteringAlone ==
  ASSUME NEW q, NEW lf, NEW pend, Once(q), Entering(q, lf, pend), NEW i \in At(q, "enter"),
         NEW j \in At(q, "enter"), q[i].s = q[j].s
  PROVE  i = j
<1>1. /\ i - 1 \in At(q, "apply") /\ q[i - 1].s = q[i].s
      /\ j - 1 \in At(q, "apply") /\ q[j - 1].s = q[j].s
  BY DEF Entering
<1>2. i - 1 = j - 1
  BY <1>1 DEF Once
<1>3. i \in Int /\ j \in Int
  BY DEF At
<1> QED
  BY <1>2, <1>3

-----------------------------------------------------------------------------
(* The actions, and the list. *)

LEMMA StillLive ==
  ASSUME Lives, UNCHANGED <<list, life, pendingApply, requested>>,
         Linked(stack', ToSet(list), life), Entering(stack', life, pendingApply)
  PROVE  Lives'
BY DEF Lives

LEMMA Stack == ASSUME Nested PROVE stack \in Seq(Frames) /\ Once(stack)
BY DEF Nested, Typed

LEMMA ListSet == ASSUME Lives PROVE ToSet(list) \in SUBSET Statuses
BY Listed DEF Lives

\* A hook starts that does not apply or enter a status.
LEMMA CallLives ==
  ASSUME Nested, Lives, NEW f \in Frames, f.op \in {"hit", "delete"}, Push(f),
         UNCHANGED <<list, life, pendingApply, requested>>
  PROVE  Lives'
<1>1. Grown(stack, stack', f)
  BY Stack, Pushes DEF Push
<1>2. Linked(stack', ToSet(list), life)
  BY <1>1, LinkedGrown DEF Lives
<1>3. Entering(stack', life, pendingApply)
  BY <1>1, EnteringGrown DEF Lives
<1> QED
  BY <1>2, <1>3, StillLive

\* A hook returns.
LEMMA ReturnLives ==
  ASSUME Nested, Lives, stack # <<>>, Return,
         UNCHANGED <<list, life, pendingApply, requested>>
  PROVE  Lives'
<1>1. Shrunk(stack, stack')
  BY Stack, Pops DEF Return
<1>2. Linked(stack', ToSet(list), life)
  BY <1>1, LinkedShrunk DEF Lives
<1>3. Entering(stack', life, pendingApply)
  BY <1>1, EnteringShrunk DEF Lives
<1> QED
  BY <1>2, <1>3, StillLive

\* A hook goes on.
LEMMA GoesOnLives ==
  ASSUME Nested, Lives, stack # <<>>, NEW f \in Frames, Instead(f),
         f.op = Top.op, f.op \in {"apply", "enter"}, f.s = Top.s,
         f.op = "apply" /\ f.stage # "entered" => Top.stage # "entered",
         UNCHANGED <<list, life, pendingApply, requested>>
  PROVE  Lives'
<1>1. Changed(stack, stack', f) /\ Top = stack[Len(stack)]
  BY Stack, Replaces, Pops DEF Instead, Top
<1>2. Linked(stack', ToSet(list), life)
  BY <1>1, LinkedChanged DEF Lives
<1>3. Entering(stack', life, pendingApply)
  BY <1>1, EnteringChanged DEF Lives
<1> QED
  BY <1>2, <1>3, StillLive

LEMMA CharacterHitLives ==
  ASSUME Nested, Lives, NEW p \in Infos, CharacterHit(p)
  PROVE  Lives'
<1>1. HitFrame(p) \in Frames /\ HitFrame(p).op = "hit"
  BY DEF HitFrame, Frames, HitFrames, Pointers, Nested, HeldBy
<1>2. Push(HitFrame(p)) /\ UNCHANGED <<list, life, pendingApply, requested>>
  BY DEF CharacterHit, statusVars
<1> QED
  BY <1>1, <1>2, CallLives

LEMMA DeleteStatusLives ==
  ASSUME Nested, Lives, NEW s \in Statuses, DeleteStatus(s)
  PROVE  Lives'
<1> DEFINE f == [op |-> "delete", s |-> s]
<1>1. f \in Frames /\ f.op = "delete"
  BY DEF Frames, DeleteFrames
<1>2. Push(f) /\ UNCHANGED <<list, life, pendingApply, requested>>
  BY DEF DeleteStatus, statusVars
<1> QED
  BY <1>1, <1>2, CallLives

LEMMA ReturnsLive ==
  ASSUME Nested, Lives, CharacterHitReturns \/ ExecuteReturns \/ DeletedTwice
  PROVE  Lives'
<1>1. stack # <<>> /\ Return /\ UNCHANGED <<list, life, pendingApply, requested>>
  BY DEF CharacterHitReturns, ExecuteReturns, DeletedTwice, TopIsAt, TopIs, statusVars
<1> QED
  BY <1>1, ReturnLives

LEMMA StatusAttemptedLives ==
  ASSUME Nested, Lives, StatusAttempted
  PROVE  Lives'
<1> DEFINE f == [Top EXCEPT !.stage = "lua", !.prev = prevent]
<1>1. /\ stack # <<>> /\ Top.op = "apply" /\ Top.stage = "osiris" /\ Top \in ApplyFrames
      /\ prevent \in BOOLEAN
  BY TopTyped DEF StatusAttempted, TopIsAt, Nested, Typed
<1>2. f \in Frames /\ f.op = "apply" /\ f.s = Top.s
  BY <1>1 DEF Frames, ApplyFrames
<1>3. Instead(f) /\ UNCHANGED <<list, life, pendingApply, requested>>
  BY DEF StatusAttempted
<1> HIDE DEF f
<1> QED
  BY <1>1, <1>2, <1>3, GoesOnLives

LEMMA BeforeStatusApplyLives ==
  ASSUME Nested, Lives, NEW b \in BOOLEAN, BeforeStatusApply(b)
  PROVE  Lives'
<1> DEFINE f == [Top EXCEPT !.stage = IF prevent' THEN "skipped" ELSE "direct"]
<1>1. stack # <<>> /\ Top.op = "apply" /\ Top.stage = "lua" /\ Top \in ApplyFrames
  BY TopTyped DEF BeforeStatusApply, TopIsAt, Nested
<1>2. f \in Frames /\ f.op = "apply" /\ f.s = Top.s
  BY <1>1 DEF Frames, ApplyFrames
<1>3. Instead(f) /\ UNCHANGED <<list, life, pendingApply, requested>>
  BY DEF BeforeStatusApply, GoTo
<1> HIDE DEF f
<1> QED
  BY <1>1, <1>2, <1>3, GoesOnLives

LEMMA CharacterApplyDamageLives ==
  ASSUME IInv, Nested, Lives, CharacterApplyDamage
  PROVE  Lives'
<1> DEFINE c == IF Top.s \in DOMAIN pendingHits.hitStatusDamageMap
                  THEN pendingHits.hitStatusDamageMap[Top.s] ELSE 0
           f == [Top EXCEPT !.context = c]
<1>1. stack # <<>> /\ Top.op = "enter" /\ Top \in EnterFrames
  BY TopTyped DEF CharacterApplyDamage, Nested
<1>2. c \in Nat
  BY DEF IInv, Good, Numbered, Entered
<1>3. Instead(f) /\ UNCHANGED <<list, life, pendingApply, requested>>
  BY DEF CharacterApplyDamage, statusVars
<1> HIDE DEF c
<1>4. f \in Frames /\ f.op = "enter" /\ f.s = Top.s
  BY <1>1, <1>2 DEF Frames, EnterFrames
<1> HIDE DEF f
<1> QED
  BY <1>1, <1>3, <1>4, GoesOnLives

\* A status is made while no call has one at its address.
LEMMA Constructed ==
  ASSUME Nested, Lives, NEW s \in Statuses, Construct(s)
  PROVE  /\ life' \in [Statuses -> {"none", "made", "applied"}] /\ life'[s] = "made"
         /\ \A t \in Statuses : t # s => life'[t] = life[t]
         /\ s \notin ToSet(list)
         /\ \A i \in At(stack, "apply") \cup At(stack, "execute") : stack[i].s # s
         /\ \A i \in At(stack, "enter") : stack[i].s # s
         /\ Linked(stack, ToSet(list), life') /\ Entering(stack, life', pendingApply)
<1>1. /\ life' \in [Statuses -> {"none", "made", "applied"}] /\ life'[s] = "made"
      /\ \A t \in Statuses : t # s => life'[t] = life[t]
  BY DEF Construct, Lives
<1>2. s \notin ToSet(list)
  BY DEF Construct, Lives, Linked
<1>3. \A i \in 1 .. Len(stack) : stack[i].op # "hit" => stack[i].s # s
  BY InStack, Stack DEF Construct, Idle
<1>4. /\ \A i \in At(stack, "apply") \cup At(stack, "execute") : stack[i].s # s
      /\ \A i \in At(stack, "enter") : stack[i].s # s
  BY <1>3 DEF At
<1>5. Linked(stack, ToSet(list), life')
  BY <1>1, <1>2, <1>4, Stack, ListSet, LinkedLife DEF Lives
<1>6. \A i \in At(stack, "enter") : stack[i].s \in Statuses
  BY Stack, FrameStatus DEF At
<1>7. Entering(stack, life', pendingApply)
  <2>1. \A i \in At(stack, "enter") :
          life'[stack[i].s] = life[stack[i].s] /\ stack[i].s \in DOMAIN pendingApply
    BY <1>1, <1>4, <1>6 DEF Lives, Entering
  <2> QED
    BY <2>1, EnteringLife DEF Lives
<1> QED
  BY <1>1, <1>2, <1>4, <1>5, <1>7

LEMMA HitExecuteLives ==
  ASSUME Nested, Lives, NEW h \in DOMAIN helpers, NEW s \in Statuses, NEW simulate \in BOOLEAN,
         HitExecute(h, s, simulate)
  PROVE  Lives'
<1> DEFINE f == [op |-> "execute", stage |-> IF simulate THEN "hit" ELSE "apply", h |-> h, s |-> s]
<1>1. f \in Frames /\ f.op = "execute" /\ f.s = s
  BY DEF Frames, ExecuteFrames, Nested, HeldBy
<1>2. Push(f) /\ Construct(s) /\ UNCHANGED <<list, pendingApply, requested>>
  BY DEF HitExecute, statusVars
<1> HIDE DEF f
<1>3. Grown(stack, stack', f)
  BY <1>1, <1>2, Stack, Pushes DEF Push
<1>4. /\ life' \in [Statuses -> {"none", "made", "applied"}] /\ life'[s] = "made"
      /\ Linked(stack, ToSet(list), life') /\ Entering(stack, life', pendingApply)
  BY <1>2, Constructed
<1>5. Linked(stack', ToSet(list), life')
  BY <1>1, <1>3, <1>4, LinkedGrown
<1>6. Entering(stack', life', pendingApply)
  BY <1>1, <1>3, <1>4, EnteringGrown
<1> QED
  BY <1>2, <1>4, <1>5, <1>6 DEF Lives

LEMMA StatusHitSetupLives ==
  ASSUME Nested, Lives, NEW s \in Statuses, NEW p \in Infos, StatusHitSetup(s, p)
  PROVE  Lives'
<1>1. Construct(s) /\ UNCHANGED <<stack, list, pendingApply, requested>>
  BY DEF StatusHitSetup, statusVars
<1>2. /\ life' \in [Statuses -> {"none", "made", "applied"}]
      /\ Linked(stack, ToSet(list), life') /\ Entering(stack, life', pendingApply)
  BY <1>1, Constructed
<1> QED
  BY <1>1, <1>2 DEF Lives

LEMMA ExecuteHitLives ==
  ASSUME Nested, Lives, ExecuteHit
  PROVE  Lives'
<1> DEFINE e == [Top EXCEPT !.stage = "apply"]
           q == Append(Front(stack), e)
           f == HitFrame(Top.s)
<1>1. /\ stack \in Seq(Frames) /\ stack # <<>> /\ Top = stack[Len(stack)]
      /\ Top.op = "execute" /\ Top.stage = "hit" /\ Top \in ExecuteFrames
  BY TopTyped DEF ExecuteHit, TopIsAt, Nested
<1>2. /\ e \in Frames /\ e.op = "execute" /\ e.s = Top.s
      /\ f \in Frames /\ f.op = "hit"
  BY <1>1 DEF HitFrame, Frames, HitFrames, ExecuteFrames, Pointers, Nested, HeldBy
<1>3. stack' = Append(q, f) /\ UNCHANGED <<list, life, pendingApply, requested>>
  BY DEF ExecuteHit, statusVars
<1> HIDE DEF e, f
<1>4. q \in Seq(Frames) /\ Changed(stack, q, e)
  BY <1>1, <1>2, Replaces
<1> HIDE DEF q
<1>5. Grown(q, stack', f)
  BY <1>2, <1>3, <1>4, Pushes
<1>6. Linked(q, ToSet(list), life) /\ Entering(q, life, pendingApply)
  BY <1>1, <1>2, <1>4, LinkedChanged, EnteringChanged DEF Lives
<1>7. Linked(stack', ToSet(list), life) /\ Entering(stack', life, pendingApply)
  BY <1>2, <1>5, <1>6, LinkedGrown, EnteringGrown
<1> QED
  BY <1>3, <1>7, StillLive

\* The part of a hook that applies s, which no other call has in hand.
LEMMA ApplyLives ==
  ASSUME Lives, NEW s \in Statuses, NEW q \in Seq(Frames), Once(q), life[s] = "made",
         OnceFree(q, s), stack' = Append(q, ApplyFrame(s, FirstStage)), OnApplyStatus(s),
         Linked(q, ToSet(list), life), Entering(q, life, pendingApply)
  PROVE  Lives'
<1> DEFINE f == ApplyFrame(s, FirstStage)
<1>1. f \in Frames /\ f.op = "apply" /\ f.s = s
  BY DEF ApplyFrame, FirstStage, Frames, ApplyFrames
<1> HIDE DEF f
<1>2. Grown(q, stack', f)
  BY <1>1, Pushes DEF f
<1>3. /\ UNCHANGED <<list, pendingApply, requested>>
      /\ life' \in [Statuses -> {"none", "made", "applied"}] /\ life'[s] = "applied"
      /\ \A t \in Statuses : t # s => life'[t] = life[t]
  BY DEF OnApplyStatus, Lives
<1>4. s \notin ToSet(list)
  BY DEF Linked
<1>5. Linked(q, ToSet(list), life')
  BY <1>3, <1>4, ListSet, LinkedLife DEF OnceFree
<1>6. Linked(stack', ToSet(list), life')
  BY <1>1, <1>2, <1>3, <1>4, <1>5, LinkedGrown
<1>7. Entering(q, life', pendingApply)
  <2>1. ASSUME NEW i \in At(q, "enter")
        PROVE  life'[q[i].s] = life[q[i].s] /\ q[i].s \in DOMAIN pendingApply
    <3>1. q[i].s \in Statuses
      BY FrameStatus DEF At
    <3>2. life[q[i].s] = "applied" /\ q[i].s \in DOMAIN pendingApply
      BY DEF Entering
    <3> QED
      BY <3>1, <3>2, <1>3
  <2> QED
    BY <2>1, EnteringLife
<1>8. Entering(stack', life', pendingApply)
  BY <1>1, <1>2, <1>7, EnteringGrown
<1> QED
  BY <1>3, <1>6, <1>8 DEF Lives

LEMMA ApplyStatusLives ==
  ASSUME Nested, Lives, NEW s \in Statuses, ApplyStatus(s)
  PROVE  Lives'
<1>1. /\ Typed /\ Idle(s) /\ OnApplyStatus(s) /\ life[s] = "made"
      /\ stack' = Append(stack, ApplyFrame(s, FirstStage))
  BY DEF Nested, ApplyStatus, Push
<1>2. OnceFree(stack, s)
  BY <1>1, IdleFree
<1> QED
  BY <1>1, <1>2, Stack, ApplyLives DEF Lives

LEMMA ExecuteApplyLives ==
  ASSUME Nested, Lives, ExecuteApply
  PROVE  Lives'
<1> DEFINE e == [Top EXCEPT !.stage = "end"]
           q == Append(Front(stack), e)
<1>1. /\ stack \in Seq(Frames) /\ stack # <<>> /\ Top = stack[Len(stack)]
      /\ Top.op = "execute" /\ Top.stage = "apply" /\ Top \in ExecuteFrames
      /\ Len(stack) \in At(stack, "execute")
  BY TopTyped DEF ExecuteApply, TopIsAt, Nested
<1>2. /\ e \in Frames /\ e.op = "execute" /\ e.s = Top.s /\ e.stage = "end"
      /\ Top.s \in Statuses
  BY <1>1 DEF Frames, ExecuteFrames
<1>3. stack' = Append(q, ApplyFrame(Top.s, FirstStage)) /\ OnApplyStatus(Top.s)
  BY DEF ExecuteApply
<1> HIDE DEF e
<1>4. q \in Seq(Frames) /\ Changed(stack, q, e)
  BY <1>1, <1>2, Replaces
<1> HIDE DEF q
<1>5. Once(q)
  BY <1>1, <1>2, <1>4, OnceChanged DEF Nested
<1>6. OnceFree(q, Top.s)
  <2>1. /\ At(q, "apply") = At(stack, "apply") /\ At(q, "execute") = At(stack, "execute")
        /\ \A i \in At(q, "apply") \cup At(q, "execute") : i # Len(stack) => q[i] = stack[i]
        /\ q[Len(stack)] = e
    BY <1>1, <1>2, <1>4 DEF Changed, At
  <2>2. \A i \in At(q, "apply") : q[i].s # Top.s
    BY <2>1, <1>1, <1>2 DEF Nested, Once, At
  <2>3. \A i \in At(q, "execute") : q[i].stage # "end" => q[i].s # Top.s
    BY <2>1, <1>1, <1>2 DEF Nested, Once
  <2> QED
    BY <2>2, <2>3 DEF OnceFree
<1>7. Linked(q, ToSet(list), life) /\ Entering(q, life, pendingApply)
  BY <1>1, <1>2, <1>4, LinkedChanged, EnteringChanged DEF Lives
<1>8. life[Top.s] = "made"
  BY <1>1 DEF Lives, Linked
<1> QED
  BY <1>2, <1>3, <1>4, <1>5, <1>6, <1>7, <1>8, ApplyLives

\* The status joins the list, once, and is pending from there on.
LEMMA EnterStatusLives ==
  ASSUME IInv, Nested, Lives, EnterStatus
  PROVE  Lives'
<1> DEFINE s == Top.s
           c == Found(pendingHits, pendingHits.hitStatusMap, s)
           e == [Top EXCEPT !.stage = "entered"]
           q == Append(Front(stack), e)
           f == [op |-> "enter", s |-> s, context |-> c]
           L == ToSet(list)
<1>1. /\ stack \in Seq(Frames) /\ stack # <<>> /\ Top = stack[Len(stack)]
      /\ Top.op = "apply" /\ Top.stage = "direct" /\ Top \in ApplyFrames
      /\ Len(stack) \in At(stack, "apply")
  BY TopTyped DEF EnterStatus, TopIsAt, Nested
<1>2. c \in Nat
  BY DEF Found, IInv, Good, Numbered, SetUp
<1>3. /\ stack' = Append(q, f) /\ list' = Append(list, s)
      /\ pendingApply' = Assign(pendingApply, s, FALSE)
      /\ UNCHANGED <<life, requested>>
  BY DEF EnterStatus
<1> HIDE DEF c
<1>4. /\ e \in Frames /\ e.op = "apply" /\ e.s = s /\ e.stage = "entered" /\ s \in Statuses
      /\ f \in Frames /\ f.op = "enter" /\ f.s = s
  BY <1>1, <1>2 DEF Frames, ApplyFrames, EnterFrames
<1> HIDE DEF e, f
<1>5. q \in Seq(Frames) /\ Changed(stack, q, e)
  BY <1>1, <1>4, Replaces
<1>6. Len(q) = Len(stack) /\ Len(q) # 0 /\ q[Len(q)] = e
  BY <1>5 DEF Changed
<1> HIDE DEF q
<1>7. Grown(q, stack', f)
  BY <1>3, <1>4, <1>5, Pushes
<1>8. s \notin L /\ life[s] = "applied"
  BY <1>1 DEF Lives, Linked
<1>9. /\ list' \in Seq(Statuses) /\ IsInjective(list') /\ ToSet(list') = L \cup {s}
  BY <1>3, <1>4, <1>8, Appended DEF Lives
<1> HIDE DEF L
<1>10. DOMAIN pendingApply' = DOMAIN pendingApply \cup {s} /\ pendingApply'[s] = FALSE
       /\ \A t \in DOMAIN pendingApply : t # s => pendingApply'[t] = pendingApply[t]
  BY <1>3 DEF Assign
<1>11. Linked(q, L, life) /\ Entering(q, life, pendingApply)
  BY <1>1, <1>4, <1>5, LinkedChanged, EnteringChanged DEF Lives, L
<1>12. \A i \in At(q, "apply") : q[i].stage # "entered" => q[i].s # s
  <2>1. \A i \in At(q, "apply") : i = Len(stack) \/ (i \in At(stack, "apply") /\ q[i] = stack[i])
    BY <1>5 DEF Changed, At
  <2>2. q[Len(stack)] = e
    BY <1>6
  <2> QED
    BY <2>1, <2>2, <1>1, <1>4 DEF Nested, Once
<1>13. Linked(q, L \cup {s}, life)
  BY <1>8, <1>11, <1>12, LinkedList
<1>14. Linked(stack', L \cup {s}, life)
  BY <1>4, <1>7, <1>13, LinkedGrown
<1>15. Entering(q, life, pendingApply')
  <2>1. \A i \in At(q, "enter") : q[i].s \in DOMAIN pendingApply
    BY <1>11 DEF Entering
  <2> QED
    BY <2>1, <1>10, <1>11, EnteringLife
<1>16. Entering(stack', life, pendingApply')
  BY <1>4, <1>6, <1>7, <1>8, <1>10, <1>15, EnteringEnter
<1>17. Marked(L \cup {s}, pendingApply', requested)
  BY <1>10 DEF Lives, Marked, L
<1> QED
  BY <1>3, <1>9, <1>14, <1>16, <1>17 DEF Lives

\* A status that was taken from the list meanwhile is put back.
LEMMA EnterStatusReturnsLives ==
  ASSUME Nested, Lives, EnterStatusReturns
  PROVE  Lives'
<1> DEFINE s == Top.s
           L == ToSet(list)
           n == Len(stack)
           M == ToSet(list')
<1>1. /\ stack \in Seq(Frames) /\ stack # <<>> /\ Top = stack[n] /\ Top.op = "enter"
      /\ Top \in EnterFrames /\ n \in At(stack, "enter") /\ s \in Statuses
  BY TopTyped DEF EnterStatusReturns, Nested, EnterFrames
<1>2. Shrunk(stack, stack')
  BY <1>1, Pops DEF EnterStatusReturns, Return
<1>3. /\ UNCHANGED <<life, requested>>
      /\ list' = IF pendingApply[s] THEN Append(list, s) ELSE list
      /\ pendingApply' = Without(pendingApply, s)
  BY DEF EnterStatusReturns
<1>4. DOMAIN pendingApply' = DOMAIN pendingApply \ {s}
      /\ \A t \in DOMAIN pendingApply \ {s} : pendingApply'[t] = pendingApply[t]
  BY <1>3 DEF Without, Restrict
<1>5. s \in DOMAIN pendingApply /\ life[s] = "applied" /\ pendingApply[s] \in BOOLEAN
      /\ (pendingApply[s] = FALSE <=> s \in L)
  BY <1>1 DEF Lives, Entering, Marked, Nested, Typed
<1>6. /\ list' \in Seq(Statuses) /\ IsInjective(list') /\ M = L \cup {s}
  <2>1. CASE pendingApply[s] = TRUE
    BY <2>1, <1>1, <1>3, <1>5, Appended DEF Lives
  <2>2. CASE pendingApply[s] = FALSE
    BY <2>2, <1>3, <1>5 DEF Lives
  <2> QED
    BY <2>1, <2>2, <1>5
<1> HIDE DEF L, M
<1>7. Linked(stack, M, life)
  <2>1. \A i \in At(stack, "apply") : stack[i].stage # "entered" => stack[i].s # s
    BY <1>1, Stack, EnteringOnce DEF Lives
  <2> QED
    BY <2>1, <1>5, <1>6, LinkedList DEF Lives, L
<1>8. Linked(stack', M, life)
  BY <1>2, <1>7, LinkedShrunk
<1>9. Entering(stack', life, pendingApply')
  <2>1. Entering(stack', life, pendingApply)
    BY <1>2, EnteringShrunk DEF Lives
  <2>2. ASSUME NEW i \in At(stack', "enter")
        PROVE  stack'[i].s \in DOMAIN pendingApply'
    <3>1. i \in At(stack, "enter") /\ i # n /\ stack'[i] = stack[i]
      BY <1>2 DEF Shrunk, At
    <3>2. stack[i].s # s
      BY <3>1, <1>1, Stack, EnteringAlone DEF Lives
    <3> QED
      BY <3>1, <3>2, <2>1, <1>4 DEF Entering
  <2> QED
    BY <2>1, <2>2, EnteringLife
<1>10. Marked(M, pendingApply', requested)
  BY <1>4, <1>6 DEF Lives, Marked, L
<1> QED
  BY <1>3, <1>6, <1>8, <1>9, <1>10 DEF Lives, M

\* A status that was prevented is gone; nobody else has it.
LEMMA ApplyStatusReturnsLives ==
  ASSUME Nested, Lives, ApplyStatusReturns
  PROVE  Lives'
<1> DEFINE s == Top.s
           n == Len(stack)
<1>1. /\ stack \in Seq(Frames) /\ stack # <<>> /\ Top = stack[n] /\ Top.op = "apply"
      /\ Top.stage \in {"skipped", "entered"} /\ n \in At(stack, "apply") /\ s \in Statuses
  BY TopTyped DEF ApplyStatusReturns, Nested, ApplyFrames
<1>2. Return /\ UNCHANGED <<list, pendingApply, requested>>
      /\ life' = IF Top.stage = "skipped" THEN [life EXCEPT ![s] = "none"] ELSE life
  BY DEF ApplyStatusReturns
<1>3. Shrunk(stack, stack') /\ stack' \in Seq(Frames)
  BY <1>1, <1>2, Pops DEF Return
<1>4. CASE Top.stage = "entered"
  <2>1. life' = life
    BY <1>2, <1>4
  <2> QED
    BY <2>1, <1>1, <1>2, ReturnLives
<1>5. CASE Top.stage = "skipped"
  <2>1. /\ life' \in [Statuses -> {"none", "made", "applied"}]
        /\ \A t \in Statuses : t # s => life'[t] = life[t]
    BY <1>2, <1>5 DEF Lives
  <2>2. life[s] = "applied" /\ s \notin ToSet(list)
    BY <1>1, <1>5 DEF Lives, Linked
  <2>3. Linked(stack', ToSet(list), life) /\ Entering(stack', life, pendingApply)
    BY <1>3, LinkedShrunk, EnteringShrunk DEF Lives
  <2>4. \A i \in At(stack', "apply") : stack'[i].s # s
    <3>1. \A i \in At(stack', "apply") : i \in At(stack, "apply") /\ i # n /\ stack'[i] = stack[i]
      BY <1>3 DEF Shrunk, At
    <3> QED
      BY <3>1, <1>1 DEF Nested, Once
  <2>5. \A i \in At(stack', "execute") : stack'[i].stage # "end" => stack'[i].s # s
    BY <2>2, <2>3 DEF Linked
  <2>6. Linked(stack', ToSet(list), life')
    BY <2>1, <2>2, <2>3, <2>4, <2>5, <1>3, ListSet, LinkedLife
  <2>7. Entering(stack', life', pendingApply)
    <3>1. ASSUME NEW i \in At(stack', "enter")
          PROVE  life'[stack'[i].s] = life[stack'[i].s] /\ stack'[i].s \in DOMAIN pendingApply
      <4>1. i - 1 \in At(stack', "apply") /\ stack'[i - 1].s = stack'[i].s
            /\ stack'[i].s \in DOMAIN pendingApply
        BY <2>3 DEF Entering
      <4>2. stack'[i].s # s
        BY <4>1, <2>4
      <4>3. stack'[i].s \in Statuses
        BY <1>3, FrameStatus DEF At
      <4> QED
        BY <4>1, <4>2, <4>3, <2>1
    <3> QED
      BY <3>1, <2>3, EnteringLife
  <2> QED
    BY <2>1, <2>6, <2>7, <1>2 DEF Lives
<1> QED
  BY <1>1, <1>4, <1>5

\* A status that is in the list and not being entered is deleted at once.
LEMMA Freed ==
  ASSUME Lives, NEW s \in Statuses, s \in ToSet(list), s \notin DOMAIN pendingApply, Free(s),
         NEW q \in Seq(Frames), Linked(q, ToSet(list), life), Entering(q, life, pendingApply),
         stack' = q, UNCHANGED pendingApply, requested' = requested \ {s}
  PROVE  Lives'
<1> DEFINE L == ToSet(list)
           M == ToSet(list')
<1>1. list' \in Seq(Statuses) /\ IsInjective(list') /\ M = L \ {s}
  BY Removal DEF Lives, Free
<1>2. /\ life' \in [Statuses -> {"none", "made", "applied"}]
      /\ \A t \in Statuses : t # s => life'[t] = life[t]
  BY DEF Free, Lives
<1>3. life[s] = "applied"
  BY DEF Linked
<1> HIDE DEF M
<1>4. Linked(q, M, life)
  BY <1>1, LinkedList
<1>5. /\ \A i \in At(q, "apply") : q[i].stage # "entered" => q[i].s # s
      /\ \A i \in At(q, "execute") : q[i].stage # "end" => q[i].s # s
  BY <1>3 DEF Linked
<1>6. M \in SUBSET Statuses /\ s \notin M
  BY <1>1, ListSet
<1>7. Linked(q, M, life')
  BY <1>2, <1>4, <1>5, <1>6, LinkedLife
<1>8. Entering(q, life', pendingApply)
  <2>1. ASSUME NEW i \in At(q, "enter")
        PROVE  life'[q[i].s] = life[q[i].s] /\ q[i].s \in DOMAIN pendingApply
    <3>1. q[i].s \in Statuses
      BY FrameStatus DEF At
    <3>2. q[i].s \in DOMAIN pendingApply
      BY DEF Entering
    <3> QED
      BY <3>1, <3>2, <1>2
  <2> QED
    BY <2>1, EnteringLife
<1>9. Marked(M, pendingApply, requested')
  BY <1>1 DEF Lives, Marked
<1> QED
  BY <1>1, <1>2, <1>7, <1>8, <1>9 DEF Lives, M

\* A status that is not in the list, and that no hook has in hand, may go as well.
LEMMA Lost ==
  ASSUME Lives, NEW s \in Statuses, s \notin ToSet(list), life' = [life EXCEPT ![s] = "none"],
         NEW q \in Seq(Frames), Linked(q, ToSet(list), life), Entering(q, life, pendingApply),
         \A i \in 1 .. Len(q) : q[i].op \in {"execute", "apply", "enter"} => q[i].s # s,
         stack' = q, UNCHANGED <<list, pendingApply>>, requested' = requested \ {s}
  PROVE  Lives'
<1>1. /\ life' \in [Statuses -> {"none", "made", "applied"}]
      /\ \A t \in Statuses : t # s => life'[t] = life[t]
  BY DEF Lives
<1>2. /\ \A i \in At(q, "apply") \cup At(q, "execute") : q[i].s # s
      /\ \A i \in At(q, "enter") : q[i].s # s /\ q[i].s \in Statuses
  BY FrameStatus DEF At
<1>3. Linked(q, ToSet(list), life')
  BY <1>1, <1>2, ListSet, LinkedLife
<1>4. Entering(q, life', pendingApply)
  <2>1. \A i \in At(q, "enter") : life'[q[i].s] = life[q[i].s] /\ q[i].s \in DOMAIN pendingApply
    BY <1>1, <1>2 DEF Entering
  <2> QED
    BY <2>1, EnteringLife
<1>5. Marked(ToSet(list), pendingApply, requested')
  BY DEF Lives, Marked
<1> QED
  BY <1>1, <1>3, <1>4, <1>5 DEF Lives

\* If a hook has it in hand, it is not a status that waits for the end of its Enter.
LEMMA Dooms ==
  ASSUME Nested, Lives, NEW s \in Statuses, s \notin ToSet(list),
         life' = [life EXCEPT ![s] = "none"], NEW q \in Seq(Frames),
         Entering(q, life, pendingApply), crashed' = TRUE,
         stack' = q, UNCHANGED <<list, pendingApply>>, requested' = requested \ {s}
  PROVE  Doomed'
<1>1. /\ life' \in [Statuses -> {"none", "made", "applied"}]
      /\ \A t \in Statuses : t # s => life'[t] = life[t]
  BY DEF Lives
<1>2. /\ list \in Seq(Statuses) /\ IsInjective(list) /\ Marked(ToSet(list), pendingApply, requested)
      /\ pendingApply \in [DOMAIN pendingApply -> BOOLEAN]
  BY DEF Lives, Nested, Typed
<1>3. s \in DOMAIN pendingApply => pendingApply[s] = TRUE
  BY <1>2 DEF Marked
<1>4. ASSUME NEW f \in ToSet(q), f.op = "enter"
      PROVE  life'[f.s] = "applied" \/ (f.s \in DOMAIN pendingApply /\ pendingApply[f.s] = TRUE)
  <2>1. PICK i \in 1 .. Len(q) : q[i] = f
    BY InStack
  <2>2. i \in At(q, "enter")
    BY <2>1, <1>4 DEF At
  <2>3. f.s \in DOMAIN pendingApply /\ life[f.s] = "applied"
    BY <2>1, <2>2 DEF Entering
  <2>4. f.s \in Statuses
    BY <2>1, <1>4, FrameStatus
  <2> QED
    BY <2>3, <2>4, <1>1, <1>3
<1>5. \A t \in requested' : t \notin DOMAIN pendingApply => t \in ToSet(list)
  BY <1>2 DEF Marked
<1>6. DeletionWaits'
  BY <1>2, <1>4, <1>5 DEF DeletionWaits
<1> QED
  BY <1>1, <1>2, <1>6 DEF Doomed

\* A status that is being entered is marked, once; what is deleted at once is in the list
\* and not pending, or not in the list.
LEMMA DeleteStatusReturnsLives ==
  ASSUME Nested, Lives, DeleteStatusReturns
  PROVE  Lives' \/ Doomed'
<1> DEFINE s == Top.s
           L == ToSet(list)
           M == ToSet(list')
<1>1. /\ stack \in Seq(Frames) /\ stack # <<>> /\ s \in Statuses
  BY TopTyped DEF DeleteStatusReturns, Nested, DeleteFrames
<1>2. Return
  BY DEF DeleteStatusReturns
<1>3. Shrunk(stack, stack') /\ stack' \in Seq(Frames)
  BY <1>1, <1>2, Pops DEF Return
<1>4. Linked(stack', L, life) /\ Entering(stack', life, pendingApply)
  BY <1>3, LinkedShrunk, EnteringShrunk DEF Lives
<1>5. CASE s \in DOMAIN pendingApply /\ pendingApply[s] = FALSE
  <2>1. /\ pendingApply' = [pendingApply EXCEPT ![s] = TRUE]
        /\ requested' = requested \cup {s} /\ list' = Removed(s) /\ life' = life
    BY <1>5 DEF DeleteStatusReturns
  <2>2. list' \in Seq(Statuses) /\ IsInjective(list') /\ M = L \ {s}
    <3>1. s \in L
      BY <1>5 DEF Lives, Marked
    <3> QED
      BY <3>1, <2>1, Removal DEF Lives
  <2>3. DOMAIN pendingApply' = DOMAIN pendingApply /\ pendingApply'[s] = TRUE
        /\ \A t \in DOMAIN pendingApply : t # s => pendingApply'[t] = pendingApply[t]
    BY <1>5, <2>1 DEF Nested, Typed
  <2> HIDE DEF M, L
  <2>4. Linked(stack', M, life)
    BY <1>4, <2>2, LinkedList
  <2>5. Entering(stack', life, pendingApply')
    BY <1>4, <2>3 DEF Entering
  <2>6. Marked(M, pendingApply', requested')
    BY <2>1, <2>2, <2>3, <1>5 DEF Lives, Marked, L
  <2> QED
    BY <2>1, <2>2, <2>4, <2>5, <2>6 DEF Lives, M
<1>6. CASE s \notin DOMAIN pendingApply \/ pendingApply[s] # FALSE
  <2>1. DeleteStatusByHandle(s) /\ UNCHANGED pendingApply
    BY <1>6 DEF DeleteStatusReturns, Nested, Typed
  <2>2. CASE s \in L /\ Free(s) /\ requested' = requested \ {s}
    <3>1. s \notin DOMAIN pendingApply
      BY <1>6, <2>2 DEF Lives, Marked
    <3> QED
      BY <3>1, <2>1, <2>2, <1>1, <1>3, <1>4, Freed
  <2>3. CASE UNCHANGED <<list, life, requested>>
    BY <2>1, <2>3, <1>1, <1>2, ReturnLives
  <2>4. CASE /\ s \notin L /\ life' = [life EXCEPT ![s] = "none"]
             /\ requested' = requested \ {s} /\ crashed' = Held(s) /\ UNCHANGED list
    <3>1. CASE Held(s)
      BY <3>1, <2>1, <2>4, <1>1, <1>3, <1>4, Dooms
    <3>2. CASE ~Held(s)
      <4>1. ToSet(stack') = {stack'[i] : i \in 1 .. Len(stack')}
        BY <1>3, InStack
      <4>2. \A i \in 1 .. Len(stack') :
              stack'[i].op \in {"execute", "apply", "enter"} => stack'[i].s # s
        BY <3>2, <4>1, <1>2 DEF Held, Return
      <4> QED
        BY <4>2, <2>1, <2>4, <1>1, <1>3, <1>4, Lost
    <3> QED
      BY <3>1, <3>2
  <2> QED
    BY <2>1, <2>2, <2>3, <2>4 DEF DeleteStatusByHandle
<1> QED
  BY <1>5, <1>6

LEMMA UpdateLives ==
  ASSUME Nested, Lives, NEW s \in Statuses, Update(s)
  PROVE  Lives'
<1>1. /\ stack = <<>> /\ stack' = stack /\ s \in ToSet(list) /\ Free(s)
      /\ requested' = requested \ {s} /\ UNCHANGED pendingApply
  BY DEF Update
<1>2. s \notin DOMAIN pendingApply
  BY <1>1 DEF Nested, Known, At
<1> QED
  BY <1>1, <1>2, Stack, Freed DEF Lives

\* With no status and no hook the parts are about nothing.
LEMMA NothingLives ==
  ASSUME NEW lf
  PROVE  /\ <<>> \in Seq(Statuses) /\ IsInjective(<<>>)
         /\ Linked(<<>>, ToSet(<<>>), lf) /\ Entering(<<>>, lf, Empty)
         /\ Marked(ToSet(<<>>), Empty, {})
<1>1. \A op : At(<<>>, op) = {}
  BY DEF At
<1>2. ToSet(<<>>) = {} /\ DOMAIN Empty = {}
  BY DEF ToSet, Empty
<1>3. <<>> \in Seq(Statuses) /\ IsInjective(<<>>)
  BY DEF IsInjective
<1> QED
  BY <1>1, <1>2, <1>3 DEF Linked, Entering, Marked

LEMMA InitLives == Init => Lives
<1> SUFFICES ASSUME Init PROVE Lives
  OBVIOUS
<1>1. /\ stack = <<>> /\ list = <<>> /\ pendingApply = Empty /\ requested = {}
      /\ life = Nowhere
  BY DEF Init
<1>2. life \in [Statuses -> {"none", "made", "applied"}]
  BY <1>1 DEF Nowhere
<1> QED
  BY <1>1, <1>2, NothingLives DEF Lives

LEMMA NewSessionLives ==
  ASSUME NewSession
  PROVE  Lives'
<1>1. /\ stack' = <<>> /\ list' = <<>> /\ pendingApply' = Empty /\ requested' = {}
      /\ life' = Nowhere
  BY DEF NewSession
<1>2. life' \in [Statuses -> {"none", "made", "applied"}]
  BY <1>1 DEF Nowhere
<1> QED
  BY <1>1, <1>2, NothingLives DEF Lives

-----------------------------------------------------------------------------
(* The hits: their types, and whose they are.                              *)

\* The types of PendingHitManager; an id is never 0, which is that of no hit.
Records(m) ==
  /\ m.nextHitId # 0 /\ 0 \notin DOMAIN m.hits
  /\ m.hits \in [DOMAIN m.hits -> HitRecords]
  /\ DOMAIN m.characterHitMap \subseteq Pointers
  /\ DOMAIN m.hitStatusMap \subseteq Statuses
  /\ DOMAIN m.hitStatusDamageMap \subseteq Statuses

\* The hit is o, or, if there was none, one that no damage was dealt for.
Own(m, o, id) == id \in DOMAIN m.hits /\ IF o # 0 THEN id = o ELSE m.hits[id].dealt = FALSE

\* characterHitMap_ has a damage info exactly as long as the last hit that filled it waits
\* for its status.
Dealt(m, d) ==
  \A p \in Pointers :
    /\ p \in DOMAIN m.characterHitMap => d[p] = m.characterHitMap[p]
    /\ p \notin DOMAIN m.characterHitMap => d[p] = 0

\* What the other maps have for a status is its own hit, ...
Joined(m, o, s) ==
  /\ s \in DOMAIN m.hitStatusMap => Own(m, o, m.hitStatusMap[s])
  /\ s \notin DOMAIN m.hitStatusMap => o = 0
  /\ s \in DOMAIN m.hitStatusDamageMap => Own(m, o, m.hitStatusDamageMap[s])

\* ... and so is what its handlers were given, a hit that is not deleted any more.
Shown(m, o, s, q) ==
  \A i \in At(q, "enter") : q[i].s = s =>
    /\ s \in DOMAIN m.hitStatusDamageMap /\ Own(m, o, q[i].context)
    /\ m.hits[q[i].context].enter = TRUE

\* An address that no status was at is in no map.
Unseen(m, S) ==
  \A s \in Statuses \ S : s \notin DOMAIN m.hitStatusMap /\ s \notin DOMAIN m.hitStatusDamageMap

Contexts ==
  /\ Dealt(pendingHits, dealt) /\ dealt \in [Pointers -> Nat]
  /\ own \in [Statuses -> Nat]
  /\ \A s \in Statuses : life[s] # "none" => s \in seen
  /\ Unseen(pendingHits, seen)
  /\ \A s \in Statuses \ reused :
       Joined(pendingHits, own[s], s) /\ Shown(pendingHits, own[s], s, stack)

-----------------------------------------------------------------------------
(* What each operation keeps. *)

\* The hits that have a status, or did, stay, and stay what they are.
Keeps(m, n) ==
  \A id \in DOMAIN m.hits :
    m.hits[id].setup = TRUE \/ m.hits[id].enter = TRUE =>
      /\ id \in DOMAIN n.hits /\ n.hits[id].dealt = m.hits[id].dealt
      /\ m.hits[id].enter = TRUE => n.hits[id].enter = TRUE

\* The maps of n have for s what those of m have.
Same(m, n, s) ==
  /\ s \in DOMAIN n.hitStatusMap <=> s \in DOMAIN m.hitStatusMap
  /\ s \in DOMAIN m.hitStatusMap => n.hitStatusMap[s] = m.hitStatusMap[s]
  /\ s \in DOMAIN n.hitStatusDamageMap <=> s \in DOMAIN m.hitStatusDamageMap
  /\ s \in DOMAIN m.hitStatusDamageMap => n.hitStatusDamageMap[s] = m.hitStatusDamageMap[s]

LEMMA JoinedKept ==
  ASSUME NEW m, NEW n, NEW o, NEW s, Good(m), Keeps(m, n), Same(m, n, s), Joined(m, o, s)
  PROVE  Joined(n, o, s)
<1>1. s \in DOMAIN m.hitStatusMap => /\ m.hitStatusMap[s] \in DOMAIN m.hits
                                     /\ m.hits[m.hitStatusMap[s]].setup = TRUE
  BY DEF Good, SetUp
<1>2. s \in DOMAIN m.hitStatusDamageMap => /\ m.hitStatusDamageMap[s] \in DOMAIN m.hits
                                           /\ m.hits[m.hitStatusDamageMap[s]].enter = TRUE
  BY DEF Good, Entered
<1>3. s \in DOMAIN m.hitStatusMap => Own(n, o, m.hitStatusMap[s])
  BY <1>1 DEF Joined, Own, Keeps
<1>4. s \in DOMAIN m.hitStatusDamageMap => Own(n, o, m.hitStatusDamageMap[s])
  BY <1>2 DEF Joined, Own, Keeps
<1> QED
  BY <1>3, <1>4 DEF Joined, Same

LEMMA ShownKept ==
  ASSUME NEW m, NEW n, NEW o, NEW s, NEW q, Keeps(m, n), Shown(m, o, s, q),
         s \in DOMAIN m.hitStatusDamageMap => s \in DOMAIN n.hitStatusDamageMap
  PROVE  Shown(n, o, s, q)
BY DEF Shown, Own, Keeps

LEMMA ShownGrown ==
  ASSUME NEW q, NEW r, NEW f, NEW m, NEW o, NEW s, Grown(q, r, f), f.op # "enter",
         Shown(m, o, s, q)
  PROVE  Shown(m, o, s, r)
<1>1. At(r, "enter") = At(q, "enter") /\ \A i \in At(q, "enter") : r[i] = q[i]
  BY DEF Grown, At
<1> QED
  BY <1>1 DEF Shown

LEMMA ShownShrunk ==
  ASSUME NEW q, NEW r, NEW m, NEW o, NEW s, Shrunk(q, r), Shown(m, o, s, q)
  PROVE  Shown(m, o, s, r)
<1>1. \A i \in At(r, "enter") : i \in At(q, "enter") /\ r[i] = q[i]
  BY DEF Shrunk, At
<1> QED
  BY <1>1 DEF Shown

LEMMA ShownChanged ==
  ASSUME NEW q, NEW r, NEW f, NEW m, NEW o, NEW s, Changed(q, r, f), Shown(m, o, s, q),
         f.op = "enter" /\ f.s = s => /\ s \in DOMAIN m.hitStatusDamageMap
                                      /\ Own(m, o, f.context) /\ m.hits[f.context].enter = TRUE
  PROVE  Shown(m, o, s, r)
<1>1. \A i \in At(r, "enter") : \/ i \in At(q, "enter") /\ r[i] = q[i]
                                \/ r[i] = f /\ f.op = "enter"
  BY DEF Changed, At
<1> QED
  BY <1>1 DEF Shown

LEMMA ShownEnter ==
  ASSUME NEW q, NEW r, NEW f, NEW m, NEW o, NEW s, Grown(q, r, f), Shown(m, o, s, q),
         f.s = s => /\ s \in DOMAIN m.hitStatusDamageMap
                    /\ Own(m, o, f.context) /\ m.hits[f.context].enter = TRUE
  PROVE  Shown(m, o, s, r)
<1>1. \A i \in At(r, "enter") : \/ i \in At(q, "enter") /\ r[i] = q[i]
                                \/ r[i] = f
  BY DEF Grown, At
<1> QED
  BY <1>1 DEF Shown

-----------------------------------------------------------------------------
(* PendingHitManager. *)

LEMMA NoHitsRecords == Records(NoHits)
BY DEF Records, NoHits, Empty

LEMMA NewHitTyped == NewHit \in HitRecords /\ NewHit.dealt = FALSE
BY DEF NewHit, HitRecords

LEMMA DealtTyped ==
  ASSUME NEW p \in Pointers
  PROVE  [NewHit EXCEPT !.dealt = TRUE, !.ptr = p] \in HitRecords
BY DEF NewHit, HitRecords

LEMMA SetUpTyped ==
  ASSUME NEW h \in HitRecords, NEW s \in Statuses
  PROVE  LET g == [h EXCEPT !.setup = TRUE, !.status = s, !.ptr = Null]
         IN  g \in HitRecords /\ g.dealt = h.dealt /\ g.enter = h.enter
BY DEF HitRecords

LEMMA EnterTyped ==
  ASSUME NEW h \in HitRecords, NEW s \in Statuses
  PROVE  LET g == [h EXCEPT !.enter = TRUE, !.status = s]
         IN  g \in HitRecords /\ g.dealt = h.dealt /\ g.enter = TRUE
BY DEF HitRecords

LEMMA CreateRecords ==
  ASSUME NEW m, Good(m), Records(m)
  PROVE  /\ Records(Create(m))
         /\ \A x \in DOMAIN m.hits : Create(m).hits[x] = m.hits[x]
<1>1. /\ m.nextHitId \notin DOMAIN m.hits
      /\ DOMAIN Create(m).hits = DOMAIN m.hits \cup {m.nextHitId}
      /\ Create(m).nextHitId = m.nextHitId + 1
      /\ Create(m).characterHitMap = m.characterHitMap
      /\ Create(m).hitStatusMap = m.hitStatusMap
      /\ Create(m).hitStatusDamageMap = m.hitStatusDamageMap
  BY CreateGood
<1>2. Create(m).hits = Assign(m.hits, m.nextHitId, NewHit)
  BY DEF Create, Good, Shape, ManagerFields
<1>3. /\ \A x \in DOMAIN m.hits : Create(m).hits[x] = m.hits[x]
      /\ Create(m).hits \in [DOMAIN Create(m).hits -> HitRecords]
  BY <1>1, <1>2, NewHitTyped DEF Assign, Records
<1>4. m.nextHitId \in Nat
  BY DEF Good, Numbered
<1>5. m.nextHitId + 1 # 0
  BY <1>4
<1> QED
  BY <1>1, <1>3, <1>5 DEF Records

\* OnCharacterHit deletes a hit that waits for its status, and no other.
LEMMA ForgetRecords ==
  ASSUME NEW m, Good(m), Records(m), NEW p
  PROVE  LET n == Forget(m, p)
         IN  /\ Records(n) /\ Keeps(m, n)
             /\ n.hitStatusMap = m.hitStatusMap /\ n.hitStatusDamageMap = m.hitStatusDamageMap
             /\ DOMAIN n.characterHitMap = DOMAIN m.characterHitMap \ {p}
             /\ \A x \in DOMAIN n.characterHitMap : n.characterHitMap[x] = m.characterHitMap[x]
<1> DEFINE n == Forget(m, p)
<1>1. CASE p \notin DOMAIN m.characterHitMap
  <2>1. n = m
    BY <1>1 DEF Forget
  <2> QED
    BY <2>1, <1>1 DEF Keeps
<1>2. CASE p \in DOMAIN m.characterHitMap
  <2> DEFINE id == m.characterHitMap[p]
  <2>1. /\ id \in DOMAIN m.hits /\ m.hits[id].ptr = p
        /\ m.hits[id].setup = FALSE /\ m.hits[id].enter = FALSE
    BY <1>2 DEF Good, Waiting
  <2>2. n = DeleteHit(m, id)
    BY <1>2, <2>1 DEF Forget
  <2>3. /\ n.hits = Without(m.hits, id) /\ n.nextHitId = m.nextHitId
        /\ n.characterHitMap = Without(m.characterHitMap, p)
        /\ n.hitStatusMap = m.hitStatusMap /\ n.hitStatusDamageMap = m.hitStatusDamageMap
    BY <2>1, <2>2, <1>2 DEF DeleteHit, Good, Shape, ManagerFields
  <2> HIDE DEF n, id
  <2>4. /\ DOMAIN n.hits = DOMAIN m.hits \ {id}
        /\ \A x \in DOMAIN n.hits : n.hits[x] = m.hits[x]
        /\ n.hits \in [DOMAIN n.hits -> HitRecords]
    BY <2>3 DEF Without, Restrict, Records
  <2>5. /\ DOMAIN n.characterHitMap = DOMAIN m.characterHitMap \ {p}
        /\ \A x \in DOMAIN n.characterHitMap : n.characterHitMap[x] = m.characterHitMap[x]
    BY <2>3 DEF Without, Restrict
  <2>6. Keeps(m, n)
    BY <2>1, <2>4 DEF Keeps
  <2>7. Records(n)
    BY <2>3, <2>4, <2>5 DEF Records
  <2> QED
    BY <2>3, <2>5, <2>6, <2>7 DEF n
<1> QED
  BY <1>1, <1>2

\* A hit fills the info of p: it is the one that waits there.
LEMMA CharacterHitRecords ==
  ASSUME NEW m, Good(m), Records(m), NEW p \in Pointers
  PROVE  LET n == OnCharacterHit(m, p)
         IN  /\ Records(n) /\ Keeps(m, n)
             /\ n.hitStatusMap = m.hitStatusMap /\ n.hitStatusDamageMap = m.hitStatusDamageMap
             /\ DOMAIN n.characterHitMap = DOMAIN m.characterHitMap \cup {p}
             /\ n.characterHitMap[p] = m.nextHitId
             /\ \A x \in DOMAIN m.characterHitMap :
                  x # p => n.characterHitMap[x] = m.characterHitMap[x]
<1> DEFINE f   == Forget(m, p)
           new == Create(f)
           id  == m.nextHitId
           n   == OnCharacterHit(m, p)
<1>1. /\ Good(f) /\ p \notin DOMAIN f.characterHitMap /\ f.nextHitId = id
      /\ Records(f) /\ Keeps(m, f)
      /\ f.hitStatusMap = m.hitStatusMap /\ f.hitStatusDamageMap = m.hitStatusDamageMap
      /\ DOMAIN f.characterHitMap = DOMAIN m.characterHitMap \ {p}
      /\ \A x \in DOMAIN f.characterHitMap : f.characterHitMap[x] = m.characterHitMap[x]
  BY ForgetGood, ForgetRecords
<1> HIDE DEF f
<1>2. /\ Good(new) /\ Records(new)
      /\ id \notin DOMAIN f.hits
      /\ DOMAIN new.hits = DOMAIN f.hits \cup {id}
      /\ new.hits[id] = NewHit
      /\ \A x \in DOMAIN f.hits : new.hits[x] = f.hits[x]
      /\ new.characterHitMap = f.characterHitMap
      /\ new.hitStatusMap = f.hitStatusMap
      /\ new.hitStatusDamageMap = f.hitStatusDamageMap
  BY <1>1, CreateGood, CreateRecords
<1>3. /\ n.hits = [new.hits EXCEPT ![id] = [@ EXCEPT !.dealt = TRUE, !.ptr = p]]
      /\ n.nextHitId = new.nextHitId
      /\ n.characterHitMap = Insert(new.characterHitMap, p, id)
      /\ n.hitStatusMap = new.hitStatusMap
      /\ n.hitStatusDamageMap = new.hitStatusDamageMap
  BY <1>2 DEF OnCharacterHit, Good, Shape, ManagerFields, f
<1> HIDE DEF new, n, id
<1>4. /\ DOMAIN n.hits = DOMAIN new.hits
      /\ \A x \in DOMAIN f.hits : n.hits[x] = f.hits[x]
      /\ n.hits \in [DOMAIN n.hits -> HitRecords]
  <2>1. new.hits \in [DOMAIN new.hits -> HitRecords] /\ id \in DOMAIN new.hits
    BY <1>2 DEF Records
  <2>2. [new.hits[id] EXCEPT !.dealt = TRUE, !.ptr = p] \in HitRecords
    BY <1>2, DealtTyped
  <2> QED
    BY <2>1, <2>2, <1>2, <1>3
<1>5. /\ DOMAIN n.characterHitMap = DOMAIN f.characterHitMap \cup {p}
      /\ n.characterHitMap[p] = id
      /\ \A x \in DOMAIN f.characterHitMap : n.characterHitMap[x] = f.characterHitMap[x]
  BY <1>1, <1>2, <1>3 DEF Insert, Assign
<1>6. Records(n)
  BY <1>2, <1>3, <1>4, <1>5, <1>1 DEF Records
<1>7. Keeps(m, n)
  BY <1>1, <1>2, <1>4 DEF Keeps
<1> QED
  BY <1>1, <1>2, <1>3, <1>5, <1>6, <1>7 DEF n, id

\* The status s is set up from the hit that waits at p, or from one of its own, ...
TakesHit(m, n, s, p, id) ==
  /\ n.hitStatusMap = Insert(m.hitStatusMap, s, id)
  /\ n.hitStatusDamageMap = m.hitStatusDamageMap
  /\ DOMAIN n.characterHitMap = DOMAIN m.characterHitMap \ {p}
  /\ \A x \in DOMAIN n.characterHitMap : n.characterHitMap[x] = m.characterHitMap[x]
  /\ id \in DOMAIN n.hits
  /\ p \in DOMAIN m.characterHitMap => id = m.characterHitMap[p]
  /\ p \notin DOMAIN m.characterHitMap => n.hits[id].dealt = FALSE

LEMMA SetupRecords ==
  ASSUME NEW m, Good(m), Records(m), NEW s \in Statuses, NEW p \in Pointers,
         NEW n, n = OnStatusHitSetup(m, s, p), NEW id, id = Found(m, m.characterHitMap, p)
  PROVE  Records(n) /\ Keeps(m, n) /\ TakesHit(m, n, s, p, id)
<1> DEFINE h   == Having(m, m.characterHitMap, p)
           ptr == h.hits[id].ptr
<1>1. /\ Good(h)
      /\ id \in DOMAIN h.hits
      /\ p \notin DOMAIN m.characterHitMap => id \notin DOMAIN m.hits /\ h.hits[id] = NewHit
      /\ p \in DOMAIN m.characterHitMap => h = m /\ id = m.characterHitMap[p]
      /\ h.characterHitMap = m.characterHitMap
      /\ h.hitStatusMap = m.hitStatusMap
      /\ h.hitStatusDamageMap = m.hitStatusDamageMap
  <2>1. p \in DOMAIN m.characterHitMap => m.characterHitMap[p] \in DOMAIN m.hits
    BY DEF Good, Waiting
  <2> QED
    BY <2>1, HavingGood
<1>2. /\ Records(h) /\ DOMAIN m.hits \subseteq DOMAIN h.hits
      /\ \A x \in DOMAIN m.hits : h.hits[x] = m.hits[x]
  BY CreateRecords, CreateGood DEF Having
<1>3. /\ n.hits = [h.hits EXCEPT ![id] = [@ EXCEPT !.setup = TRUE, !.status = s, !.ptr = Null]]
      /\ n.nextHitId = h.nextHitId
      /\ n.hitStatusMap = Insert(h.hitStatusMap, s, id)
      /\ n.hitStatusDamageMap = h.hitStatusDamageMap
      /\ n.characterHitMap = IF ptr \in DOMAIN h.characterHitMap /\ h.characterHitMap[ptr] = id
                               THEN Without(h.characterHitMap, ptr) ELSE h.characterHitMap
  BY <1>1 DEF OnStatusHitSetup, Good, Shape, ManagerFields
<1> HIDE DEF h
<1>4. /\ DOMAIN n.hits = DOMAIN h.hits
      /\ \A x \in DOMAIN h.hits : n.hits[x].dealt = h.hits[x].dealt
      /\ \A x \in DOMAIN h.hits : n.hits[x].enter = h.hits[x].enter
      /\ n.hits \in [DOMAIN n.hits -> HitRecords]
  <2>1. h.hits \in [DOMAIN h.hits -> HitRecords] /\ h.hits[id] \in HitRecords
    BY <1>1, <1>2 DEF Records
  <2>2. n.hits[id] = [h.hits[id] EXCEPT !.setup = TRUE, !.status = s, !.ptr = Null]
        /\ \A x \in DOMAIN h.hits : x # id => n.hits[x] = h.hits[x]
    BY <1>1, <1>3
  <2>3. /\ n.hits[id] \in HitRecords /\ n.hits[id].dealt = h.hits[id].dealt
        /\ n.hits[id].enter = h.hits[id].enter
    <3>1. LET g == [h.hits[id] EXCEPT !.setup = TRUE, !.status = s, !.ptr = Null]
          IN  g \in HitRecords /\ g.dealt = h.hits[id].dealt /\ g.enter = h.hits[id].enter
      BY <2>1, SetUpTyped
    <3> QED
      BY <2>2, <3>1
  <2>4. n.hits \in [DOMAIN n.hits -> HitRecords] /\ DOMAIN n.hits = DOMAIN h.hits
    BY <2>1, <2>3, <1>3
  <2> QED
    BY <2>2, <2>3, <2>4
<1>5. /\ DOMAIN n.characterHitMap = DOMAIN m.characterHitMap \ {p}
      /\ \A x \in DOMAIN n.characterHitMap : n.characterHitMap[x] = m.characterHitMap[x]
  <2>1. CASE p \in DOMAIN m.characterHitMap
    <3>1. ptr = p
      BY <2>1, <1>1 DEF Good, Waiting
    <3>2. n.characterHitMap = Without(m.characterHitMap, p)
      BY <2>1, <3>1, <1>1, <1>3
    <3> QED
      BY <3>2 DEF Without, Restrict
  <2>2. CASE p \notin DOMAIN m.characterHitMap
    <3>1. \A x \in DOMAIN m.characterHitMap : m.characterHitMap[x] # id
      BY <2>2, <1>1 DEF Good, Waiting
    <3>2. n.characterHitMap = m.characterHitMap
      BY <3>1, <1>1, <1>3
    <3> QED
      BY <3>2, <2>2
  <2> QED
    BY <2>1, <2>2
<1>6. DOMAIN n.hitStatusMap \subseteq Statuses
  BY <1>1, <1>3 DEF Insert, Assign, Records
<1>7. Records(n)
  BY <1>1, <1>2, <1>3, <1>4, <1>5, <1>6 DEF Records
<1>8. Keeps(m, n)
  BY <1>2, <1>4 DEF Keeps
<1>9. p \notin DOMAIN m.characterHitMap => n.hits[id].dealt = FALSE
  BY <1>1, <1>2, <1>4, NewHitTyped
<1> QED
  BY <1>1, <1>3, <1>4, <1>5, <1>7, <1>8, <1>9 DEF TakesHit

\* ... and entered with that hit, or with one of its own.
EntersHit(m, n, s, id) ==
  /\ n.hitStatusMap = m.hitStatusMap
  /\ n.hitStatusDamageMap = Insert(m.hitStatusDamageMap, s, id)
  /\ n.characterHitMap = m.characterHitMap
  /\ id \in DOMAIN n.hits /\ n.hits[id].enter = TRUE
  /\ s \in DOMAIN m.hitStatusMap =>
       id = m.hitStatusMap[s] /\ n.hits[id].dealt = m.hits[id].dealt
  /\ s \notin DOMAIN m.hitStatusMap => n.hits[id].dealt = FALSE

LEMMA EnterRecords ==
  ASSUME NEW m, Good(m), Records(m), NEW s \in Statuses,
         NEW n, n = OnStatusHitEnter(m, s), NEW id, id = Found(m, m.hitStatusMap, s)
  PROVE  Records(n) /\ Keeps(m, n) /\ EntersHit(m, n, s, id)
<1> DEFINE h == Having(m, m.hitStatusMap, s)
<1>1. /\ Good(h)
      /\ id \in DOMAIN h.hits
      /\ s \notin DOMAIN m.hitStatusMap => id \notin DOMAIN m.hits /\ h.hits[id] = NewHit
      /\ s \in DOMAIN m.hitStatusMap => h = m /\ id = m.hitStatusMap[s]
      /\ h.characterHitMap = m.characterHitMap
      /\ h.hitStatusMap = m.hitStatusMap
      /\ h.hitStatusDamageMap = m.hitStatusDamageMap
  <2>1. s \in DOMAIN m.hitStatusMap => m.hitStatusMap[s] \in DOMAIN m.hits
    BY DEF Good, SetUp
  <2> QED
    BY <2>1, HavingGood
<1>2. /\ Records(h) /\ DOMAIN m.hits \subseteq DOMAIN h.hits
      /\ \A x \in DOMAIN m.hits : h.hits[x] = m.hits[x]
  BY CreateRecords, CreateGood DEF Having
<1>3. /\ n.hits = [h.hits EXCEPT ![id] = [@ EXCEPT !.enter = TRUE, !.status = s]]
      /\ n.nextHitId = h.nextHitId
      /\ n.characterHitMap = h.characterHitMap
      /\ n.hitStatusMap = h.hitStatusMap
      /\ n.hitStatusDamageMap = Insert(h.hitStatusDamageMap, s, id)
  BY <1>1 DEF OnStatusHitEnter, Good, Shape, ManagerFields
<1> HIDE DEF h
<1>4. /\ DOMAIN n.hits = DOMAIN h.hits /\ n.hits[id].enter = TRUE
      /\ \A x \in DOMAIN h.hits : n.hits[x].dealt = h.hits[x].dealt
      /\ \A x \in DOMAIN h.hits : h.hits[x].enter = TRUE => n.hits[x].enter = TRUE
      /\ n.hits \in [DOMAIN n.hits -> HitRecords]
  <2>1. h.hits \in [DOMAIN h.hits -> HitRecords] /\ h.hits[id] \in HitRecords
    BY <1>1, <1>2 DEF Records
  <2>2. n.hits[id] = [h.hits[id] EXCEPT !.enter = TRUE, !.status = s]
        /\ \A x \in DOMAIN h.hits : x # id => n.hits[x] = h.hits[x]
    BY <1>1, <1>3
  <2>3. /\ n.hits[id] \in HitRecords /\ n.hits[id].dealt = h.hits[id].dealt
        /\ n.hits[id].enter = TRUE
    <3>1. LET g == [h.hits[id] EXCEPT !.enter = TRUE, !.status = s]
          IN  g \in HitRecords /\ g.dealt = h.hits[id].dealt /\ g.enter = TRUE
      BY <2>1, EnterTyped
    <3> QED
      BY <2>2, <3>1
  <2>4. n.hits \in [DOMAIN n.hits -> HitRecords] /\ DOMAIN n.hits = DOMAIN h.hits
    BY <2>1, <2>3, <1>3
  <2> QED
    BY <2>2, <2>3, <2>4
<1>5. DOMAIN n.hitStatusDamageMap \subseteq Statuses
  BY <1>1, <1>3 DEF Insert, Assign, Records
<1>6. Records(n)
  BY <1>1, <1>2, <1>3, <1>4, <1>5 DEF Records
<1>7. Keeps(m, n)
  BY <1>2, <1>4 DEF Keeps
<1>8. /\ s \in DOMAIN m.hitStatusMap =>
           id = m.hitStatusMap[s] /\ n.hits[id].dealt = m.hits[id].dealt
      /\ s \notin DOMAIN m.hitStatusMap => n.hits[id].dealt = FALSE
  BY <1>1, <1>2, <1>4, NewHitTyped
<1> QED
  BY <1>1, <1>3, <1>4, <1>6, <1>7, <1>8 DEF EntersHit

-----------------------------------------------------------------------------
(* The actions, and the hits. *)

\* Steps that leave the hits and where they come from, and give no handler a context.
LEMMA StillContexts ==
  ASSUME Contexts, UNCHANGED <<pendingHits, origins>>,
         \A s \in Statuses : life'[s] # "none" => life[s] # "none",
         \A s \in Statuses \ reused : Shown(pendingHits, own[s], s, stack')
  PROVE  Contexts'
<1>1. UNCHANGED <<pendingHits, dealt, own, seen, reused>>
  BY DEF origins
<1>2. \A s \in Statuses : life'[s] # "none" => s \in seen
  BY DEF Contexts
<1>3. \A s \in Statuses \ reused :
        Joined(pendingHits, own[s], s) /\ Shown(pendingHits, own[s], s, stack')
  BY DEF Contexts
<1> QED
  BY <1>1, <1>2, <1>3 DEF Contexts

LEMMA CallContexts ==
  ASSUME Nested, Contexts, NEW f \in Frames, f.op # "enter", Push(f),
         UNCHANGED <<pendingHits, origins>>,
         \A s \in Statuses : life'[s] # "none" => life[s] # "none"
  PROVE  Contexts'
<1>1. Grown(stack, stack', f)
  BY Stack, Pushes DEF Push
<1>2. \A s \in Statuses \ reused : Shown(pendingHits, own[s], s, stack')
  BY <1>1, ShownGrown DEF Contexts
<1> QED
  BY <1>2, StillContexts

LEMMA ReturnContexts ==
  ASSUME Nested, Contexts, stack # <<>>, Return, UNCHANGED <<pendingHits, origins>>,
         \A s \in Statuses : life'[s] # "none" => life[s] # "none"
  PROVE  Contexts'
<1>1. Shrunk(stack, stack')
  BY Stack, Pops DEF Return
<1>2. \A s \in Statuses \ reused : Shown(pendingHits, own[s], s, stack')
  BY <1>1, ShownShrunk DEF Contexts
<1> QED
  BY <1>2, StillContexts

LEMMA GoesOnContexts ==
  ASSUME Nested, Contexts, stack # <<>>, NEW f \in Frames, f.op # "enter", Instead(f),
         UNCHANGED <<pendingHits, origins, life>>
  PROVE  Contexts'
<1>1. Changed(stack, stack', f)
  BY Stack, Replaces DEF Instead
<1>2. \A s \in Statuses \ reused : Shown(pendingHits, own[s], s, stack')
  BY <1>1, ShownChanged DEF Contexts
<1>3. \A s \in Statuses : life'[s] # "none" => life[s] # "none"
  OBVIOUS
<1> QED
  BY <1>2, <1>3, StillContexts

\* A hook goes on, and another starts.
LEMMA CallsOnContexts ==
  ASSUME Nested, Contexts, stack # <<>>, NEW e \in Frames, e.op # "enter",
         NEW f \in Frames, f.op # "enter", stack' = Append(Append(Front(stack), e), f),
         UNCHANGED <<pendingHits, origins>>,
         \A s \in Statuses : life'[s] # "none" => life[s] # "none"
  PROVE  Contexts'
<1> DEFINE q == Append(Front(stack), e)
<1>1. q \in Seq(Frames) /\ Changed(stack, q, e)
  BY Stack, Replaces
<1>2. stack' = Append(q, f)
  OBVIOUS
<1> HIDE DEF q
<1>3. Grown(q, stack', f)
  BY <1>1, <1>2, Pushes
<1>4. \A s \in Statuses \ reused : Shown(pendingHits, own[s], s, q)
  BY <1>1, ShownChanged DEF Contexts
<1>5. \A s \in Statuses \ reused : Shown(pendingHits, own[s], s, stack')
  BY <1>3, <1>4, ShownGrown
<1> QED
  BY <1>5, StillContexts

LEMMA QuietContexts ==
  ASSUME Contexts, Lives, NEW s \in Statuses,
         \/ HitPrepare \/ Activate \/ Update(s)
         \/ \E h \in DOMAIN helpers : HitExecuteFails(h)
         \/ \E b \in BOOLEAN : PreventApply(s, b)
  PROVE  Contexts'
<1>1. UNCHANGED <<pendingHits, origins, stack>>
  BY DEF HitPrepare, Activate, Update, HitExecuteFails, PreventApply
<1>2. \A t \in Statuses : life'[t] # "none" => life[t] # "none"
  BY DEF HitPrepare, Activate, Update, Free, HitExecuteFails, PreventApply, Lives
<1> QED
  BY <1>1, <1>2, StillContexts DEF Contexts

LEMMA CallsContexts ==
  ASSUME Nested, Lives, Contexts,
         \/ \E p \in Infos : CharacterHit(p)
         \/ \E s \in Statuses : DeleteStatus(s) \/ ApplyStatus(s)
  PROVE  Contexts'
<1>1. CASE \E p \in Infos : CharacterHit(p)
  <2>1. PICK p \in Infos : CharacterHit(p)
    BY <1>1
  <2>2. HitFrame(p) \in Frames /\ HitFrame(p).op = "hit"
    BY DEF HitFrame, Frames, HitFrames, Pointers, Nested, HeldBy
  <2>3. Push(HitFrame(p)) /\ UNCHANGED <<pendingHits, origins, life>>
    BY <2>1 DEF CharacterHit
  <2>4. \A t \in Statuses : life'[t] # "none" => life[t] # "none"
    BY <2>3
  <2> QED
    BY <2>2, <2>3, <2>4, CallContexts
<1>2. CASE \E s \in Statuses : DeleteStatus(s)
  <2>1. PICK s \in Statuses : DeleteStatus(s)
    BY <1>2
  <2> DEFINE f == [op |-> "delete", s |-> s]
  <2>2. f \in Frames /\ f.op = "delete"
    BY DEF Frames, DeleteFrames
  <2>3. Push(f) /\ UNCHANGED <<pendingHits, origins, life>>
    BY <2>1 DEF DeleteStatus
  <2>4. \A t \in Statuses : life'[t] # "none" => life[t] # "none"
    BY <2>3
  <2> QED
    BY <2>2, <2>3, <2>4, CallContexts
<1>3. CASE \E s \in Statuses : ApplyStatus(s)
  <2>1. PICK s \in Statuses : ApplyStatus(s)
    BY <1>3
  <2> DEFINE f == ApplyFrame(s, FirstStage)
  <2>2. f \in Frames /\ f.op = "apply"
    BY DEF ApplyFrame, FirstStage, Frames, ApplyFrames
  <2>3. Push(f) /\ UNCHANGED <<pendingHits, origins>> /\ life[s] = "made"
        /\ life' = [life EXCEPT ![s] = "applied"]
    BY <2>1 DEF ApplyStatus, OnApplyStatus
  <2>4. \A t \in Statuses : life'[t] # "none" => life[t] # "none"
    BY <2>3 DEF Lives
  <2> QED
    BY <2>2, <2>3, <2>4, CallContexts
<1> QED
  BY <1>1, <1>2, <1>3

LEMMA ReturnsContexts ==
  ASSUME Nested, Lives, Contexts,
         \/ ExecuteReturns \/ EnterStatusReturns \/ ApplyStatusReturns
         \/ DeleteStatusReturns \/ DeletedTwice
  PROVE  Contexts'
<1>1. stack # <<>> /\ Return /\ UNCHANGED <<pendingHits, origins>>
  BY DEF ExecuteReturns, EnterStatusReturns, ApplyStatusReturns, DeleteStatusReturns,
         DeletedTwice, TopIsAt, TopIs
<1>2. life' = life \/ life' = [life EXCEPT ![Top.s] = "none"]
  BY DEF ExecuteReturns, EnterStatusReturns, ApplyStatusReturns, DeleteStatusReturns,
         DeleteStatusByHandle, DeletedTwice, Free
<1>3. \A t \in Statuses : life'[t] # "none" => life[t] # "none"
  BY <1>2 DEF Lives
<1> QED
  BY <1>1, <1>3, ReturnContexts

LEMMA AppliesContexts ==
  ASSUME Nested, Contexts, StatusAttempted \/ \E b \in BOOLEAN : BeforeStatusApply(b)
  PROVE  Contexts'
<1>1. CASE StatusAttempted
  <2> DEFINE f == [Top EXCEPT !.stage = "lua", !.prev = prevent]
  <2>1. stack # <<>> /\ Top \in ApplyFrames /\ prevent \in BOOLEAN
    BY <1>1, TopTyped DEF StatusAttempted, TopIsAt, Nested, Typed
  <2>2. f \in Frames /\ f.op = "apply"
    BY <2>1 DEF Frames, ApplyFrames
  <2>3. Instead(f) /\ UNCHANGED <<pendingHits, origins, life>>
    BY <1>1 DEF StatusAttempted
  <2> HIDE DEF f
  <2> QED
    BY <2>1, <2>2, <2>3, GoesOnContexts
<1>2. CASE \E b \in BOOLEAN : BeforeStatusApply(b)
  <2> DEFINE f == [Top EXCEPT !.stage = IF prevent' THEN "skipped" ELSE "direct"]
  <2>1. stack # <<>> /\ Top \in ApplyFrames
    BY <1>2, TopTyped DEF BeforeStatusApply, TopIsAt, Nested
  <2>2. f \in Frames /\ f.op = "apply"
    BY <2>1 DEF Frames, ApplyFrames
  <2>3. Instead(f) /\ UNCHANGED <<pendingHits, origins, life>>
    BY <1>2 DEF BeforeStatusApply, GoTo
  <2> HIDE DEF f
  <2> QED
    BY <2>1, <2>2, <2>3, GoesOnContexts
<1> QED
  BY <1>1, <1>2

LEMMA ExecutesContexts ==
  ASSUME Nested, Lives, Contexts, ExecuteHit \/ ExecuteApply
  PROVE  Contexts'
<1>1. CASE ExecuteHit
  <2> DEFINE e == [Top EXCEPT !.stage = "apply"]
             f == HitFrame(Top.s)
  <2>1. stack # <<>> /\ Top \in ExecuteFrames
    BY <1>1, TopTyped DEF ExecuteHit, TopIsAt, Nested
  <2>2. e \in Frames /\ e.op = "execute" /\ f \in Frames /\ f.op = "hit"
    BY <2>1 DEF HitFrame, Frames, HitFrames, ExecuteFrames, Pointers, Nested, HeldBy
  <2>3. stack' = Append(Append(Front(stack), e), f) /\ UNCHANGED <<pendingHits, origins, life>>
    BY <1>1 DEF ExecuteHit
  <2>4. \A t \in Statuses : life'[t] # "none" => life[t] # "none"
    BY <2>3
  <2> HIDE DEF e, f
  <2> QED
    BY <2>1, <2>2, <2>3, <2>4, CallsOnContexts
<1>2. CASE ExecuteApply
  <2> DEFINE e == [Top EXCEPT !.stage = "end"]
             f == ApplyFrame(Top.s, FirstStage)
  <2>1. /\ stack # <<>> /\ Top \in ExecuteFrames /\ Top = stack[Len(stack)]
        /\ Top.op = "execute" /\ Top.stage = "apply" /\ Len(stack) \in At(stack, "execute")
    BY <1>2, TopTyped DEF ExecuteApply, TopIsAt, Nested
  <2>2. e \in Frames /\ e.op = "execute" /\ f \in Frames /\ f.op = "apply"
    BY <2>1 DEF ApplyFrame, FirstStage, Frames, ApplyFrames, ExecuteFrames
  <2>3. stack' = Append(Append(Front(stack), e), f) /\ UNCHANGED <<pendingHits, origins>>
        /\ life' = [life EXCEPT ![Top.s] = "applied"]
    BY <1>2 DEF ExecuteApply, OnApplyStatus
  <2>4. life[Top.s] = "made"
    BY <2>1 DEF Lives, Linked
  <2>5. \A t \in Statuses : life'[t] # "none" => life[t] # "none"
    BY <2>3, <2>4 DEF Lives
  <2> HIDE DEF e, f
  <2> QED
    BY <2>1, <2>2, <2>3, <2>5, CallsOnContexts
<1> QED
  BY <1>1, <1>2

\* The hit of a damage info that is filled again is forgotten only while it waits.
LEMMA CharacterHitReturnsContexts ==
  ASSUME IInv, Nested, Records(pendingHits), Contexts, CharacterHitReturns
  PROVE  Contexts' /\ Records(pendingHits)'
<1> DEFINE m == pendingHits
           n == pendingHits'
           p == Top.p
<1>1. stack # <<>> /\ p \in Pointers
  BY TopTyped DEF CharacterHitReturns, Nested, HitFrames
<1>2. /\ n = OnCharacterHit(m, p) /\ dealt' = [dealt EXCEPT ![p] = m.nextHitId]
      /\ UNCHANGED <<own, seen, reused, life>> /\ Return
  BY DEF CharacterHitReturns
<1>3. Shrunk(stack, stack')
  BY <1>1, <1>2, Stack, Pops DEF Return
<1>4. /\ Records(n) /\ Keeps(m, n)
      /\ n.hitStatusMap = m.hitStatusMap /\ n.hitStatusDamageMap = m.hitStatusDamageMap
      /\ DOMAIN n.characterHitMap = DOMAIN m.characterHitMap \cup {p}
      /\ n.characterHitMap[p] = m.nextHitId
      /\ \A x \in DOMAIN m.characterHitMap :
           x # p => n.characterHitMap[x] = m.characterHitMap[x]
  BY <1>1, <1>2, CharacterHitRecords DEF IInv
<1>5. Good(m) /\ m.nextHitId \in Nat
  BY DEF IInv, Good, Numbered
<1>6. Dealt(m, dealt) /\ dealt \in [Pointers -> Nat]
  BY DEF Contexts
<1>7. dealt' \in [Pointers -> Nat] /\ dealt'[p] = m.nextHitId
      /\ \A x \in Pointers : x # p => dealt'[x] = dealt[x]
  BY <1>1, <1>2, <1>5, <1>6
<1> HIDE DEF m, n, p
<1>8. Dealt(n, dealt')
  BY <1>4, <1>6, <1>7 DEF Dealt
<1>9. Unseen(n, seen)
  BY <1>4 DEF Contexts, Unseen, m
<1>10. ASSUME NEW s \in Statuses \ reused
       PROVE  Joined(n, own[s], s) /\ Shown(n, own[s], s, stack')
  <2>1. Joined(m, own[s], s) /\ Shown(m, own[s], s, stack)
    BY DEF Contexts, m
  <2>2. Same(m, n, s)
    BY <1>4 DEF Same
  <2>3. Joined(n, own[s], s)
    BY <2>1, <2>2, <1>4, <1>5, JoinedKept
  <2>4. Shown(n, own[s], s, stack)
    BY <2>1, <1>4, ShownKept
  <2> QED
    BY <2>3, <2>4, <1>3, ShownShrunk
<1> QED
  BY <1>2, <1>4, <1>7, <1>8, <1>9, <1>10 DEF Contexts, n

\* A status that no hit is known of has none.
LEMMA HitExecuteContexts ==
  ASSUME Nested, Lives, Contexts, NEW h \in DOMAIN helpers, NEW s \in Statuses,
         NEW simulate \in BOOLEAN, HitExecute(h, s, simulate)
  PROVE  Contexts'
<1> DEFINE f == [op |-> "execute", stage |-> IF simulate THEN "hit" ELSE "apply", h |-> h, s |-> s]
           m == pendingHits
<1>1. f \in Frames /\ f.op = "execute" /\ f.s = s
  BY DEF Frames, ExecuteFrames, Nested, HeldBy
<1>2. /\ Push(f) /\ Construct(s) /\ UNCHANGED <<pendingHits, dealt>>
      /\ own' = [own EXCEPT ![s] = 0]
  BY DEF HitExecute
<1> HIDE DEF f
<1>3. Grown(stack, stack', f)
  BY <1>1, <1>2, Stack, Pushes DEF Push
<1>4. /\ \A t \in Statuses : t # s => life'[t] = life[t]
      /\ \A i \in At(stack, "enter") : stack[i].s # s
  BY <1>2, Constructed
<1>5. /\ seen' = seen \cup {s}
      /\ reused' = IF s \in seen THEN reused \cup {s} ELSE reused
  BY <1>2 DEF Construct
<1>6. own' \in [Statuses -> Nat] /\ own'[s] = 0 /\ \A t \in Statuses : t # s => own'[t] = own[t]
  BY <1>2 DEF Contexts
<1>7. \A t \in Statuses : life'[t] # "none" => t \in seen'
  BY <1>4, <1>5 DEF Contexts
<1>8. Unseen(m, seen')
  BY <1>5 DEF Contexts, Unseen
<1>9. ASSUME NEW t \in Statuses \ reused'
      PROVE  Joined(m, own'[t], t) /\ Shown(m, own'[t], t, stack')
  <2>1. CASE t = s
    <3>1. s \notin DOMAIN m.hitStatusMap /\ s \notin DOMAIN m.hitStatusDamageMap
      BY <2>1, <1>5 DEF Contexts, Unseen
    <3>2. Joined(m, own'[t], t)
      BY <3>1, <2>1, <1>6 DEF Joined
    <3>3. Shown(m, own'[t], t, stack)
      BY <2>1, <1>4 DEF Shown
    <3> QED
      BY <3>2, <3>3, <1>1, <1>3, ShownGrown
  <2>2. CASE t # s
    <3>1. Joined(m, own'[t], t) /\ Shown(m, own'[t], t, stack)
      BY <2>2, <1>5, <1>6 DEF Contexts
    <3> QED
      BY <3>1, <1>1, <1>3, ShownGrown
  <2> QED
    BY <2>1, <2>2
<1> QED
  BY <1>2, <1>6, <1>7, <1>8, <1>9 DEF Contexts

\* A status is set up from the hit that the info was filled by, if that has none yet.
LEMMA StatusHitSetupContexts ==
  ASSUME IInv, Nested, Lives, Records(pendingHits), Contexts,
         NEW s \in Statuses, NEW p \in Infos, StatusHitSetup(s, p)
  PROVE  Contexts' /\ Records(pendingHits)'
<1> DEFINE m  == pendingHits
           n  == pendingHits'
           id == Found(m, m.characterHitMap, p)
<1>1. /\ n = OnStatusHitSetup(m, s, p) /\ dealt' = [dealt EXCEPT ![p] = 0]
      /\ own' = [own EXCEPT ![s] = dealt[p]] /\ Construct(s) /\ UNCHANGED stack
  BY DEF StatusHitSetup
<1>2. p \in Pointers
  BY DEF Pointers
<1>3. Good(m) /\ Records(m) /\ Dealt(m, dealt) /\ dealt \in [Pointers -> Nat]
  BY DEF IInv, Contexts
<1>4. /\ Records(n) /\ Keeps(m, n)
      /\ n.hitStatusMap = Insert(m.hitStatusMap, s, id)
      /\ n.hitStatusDamageMap = m.hitStatusDamageMap
      /\ DOMAIN n.characterHitMap = DOMAIN m.characterHitMap \ {p}
      /\ \A x \in DOMAIN n.characterHitMap : n.characterHitMap[x] = m.characterHitMap[x]
      /\ id \in DOMAIN n.hits
      /\ p \in DOMAIN m.characterHitMap => id = m.characterHitMap[p]
      /\ p \notin DOMAIN m.characterHitMap => n.hits[id].dealt = FALSE
  <2>1. Records(n) /\ Keeps(m, n) /\ TakesHit(m, n, s, p, id)
    BY <1>1, <1>2, <1>3, SetupRecords
  <2> QED
    BY <2>1 DEF TakesHit
<1>5. /\ \A t \in Statuses : t # s => life'[t] = life[t]
      /\ \A i \in At(stack, "enter") : stack[i].s # s
  BY <1>1, Constructed
<1>6. /\ seen' = seen \cup {s}
      /\ reused' = IF s \in seen THEN reused \cup {s} ELSE reused
  BY <1>1 DEF Construct
<1>7. /\ own' \in [Statuses -> Nat] /\ own'[s] = dealt[p]
      /\ \A t \in Statuses : t # s => own'[t] = own[t]
      /\ dealt' \in [Pointers -> Nat] /\ dealt'[p] = 0
      /\ \A x \in Pointers : x # p => dealt'[x] = dealt[x]
  BY <1>1, <1>2, <1>3 DEF Contexts
<1>8. /\ \A t : t # s => /\ t \in DOMAIN n.hitStatusMap <=> t \in DOMAIN m.hitStatusMap
                         /\ t \in DOMAIN m.hitStatusMap
                              => n.hitStatusMap[t] = m.hitStatusMap[t]
      /\ s \in DOMAIN n.hitStatusMap
      /\ s \notin DOMAIN m.hitStatusMap => n.hitStatusMap[s] = id
  BY <1>4 DEF Insert, Assign
<1> HIDE DEF m, n, id
<1>9. Dealt(n, dealt')
  BY <1>3, <1>4, <1>7 DEF Dealt
<1>10. \A t \in Statuses : life'[t] # "none" => t \in seen'
  BY <1>5, <1>6 DEF Contexts
<1>11. Unseen(n, seen')
  BY <1>4, <1>6, <1>8 DEF Contexts, Unseen, m
\* A damage info that a hit waits at is that hit's.
<1>12. Own(n, dealt[p], id)
  <2>1. CASE p \in DOMAIN m.characterHitMap
    <3>1. id = dealt[p]
      BY <2>1, <1>2, <1>3, <1>4 DEF Dealt
    <3>2. id # 0
      BY <1>4 DEF Records
    <3> QED
      BY <3>1, <3>2, <1>4 DEF Own
  <2>2. CASE p \notin DOMAIN m.characterHitMap
    <3>1. dealt[p] = 0
      BY <2>2, <1>2, <1>3 DEF Dealt
    <3> QED
      BY <3>1, <2>2, <1>4 DEF Own
  <2> QED
    BY <2>1, <2>2
<1>13. ASSUME NEW t \in Statuses \ reused'
       PROVE  Joined(n, own'[t], t) /\ Shown(n, own'[t], t, stack')
  <2>1. CASE t = s
    <3>1. s \notin DOMAIN m.hitStatusMap /\ s \notin DOMAIN m.hitStatusDamageMap
      BY <2>1, <1>6 DEF Contexts, Unseen, m
    <3>2. Joined(n, own'[t], t)
      BY <3>1, <2>1, <1>4, <1>7, <1>8, <1>12 DEF Joined
    <3>3. Shown(n, own'[t], t, stack')
      BY <2>1, <1>1, <1>5 DEF Shown
    <3> QED
      BY <3>2, <3>3
  <2>2. CASE t # s
    <3>1. Joined(m, own'[t], t) /\ Shown(m, own'[t], t, stack)
      BY <2>2, <1>6, <1>7 DEF Contexts, m
    <3>2. Same(m, n, t)
      BY <2>2, <1>4, <1>8 DEF Same
    <3>3. Joined(n, own'[t], t)
      BY <3>1, <3>2, <1>3, <1>4, JoinedKept
    <3>4. Shown(n, own'[t], t, stack)
      BY <3>1, <1>4, ShownKept
    <3> QED
      BY <3>3, <3>4, <1>1
  <2> QED
    BY <2>1, <2>2
<1> QED
  BY <1>4, <1>7, <1>9, <1>10, <1>11, <1>13 DEF Contexts, n

\* The hit that a status is entered with is the one it was set up from.
LEMMA EnterStatusContexts ==
  ASSUME IInv, Nested, Lives, Records(pendingHits), Contexts, EnterStatus
  PROVE  Contexts' /\ Records(pendingHits)'
<1> DEFINE m  == pendingHits
           n  == pendingHits'
           s  == Top.s
           id == Found(m, m.hitStatusMap, s)
           e == [Top EXCEPT !.stage = "entered"]
           q == Append(Front(stack), e)
           f == [op |-> "enter", s |-> s, context |-> id]
<1>1. /\ stack \in Seq(Frames) /\ stack # <<>> /\ Top = stack[Len(stack)]
      /\ Top.op = "apply" /\ Top.stage = "direct" /\ Top \in ApplyFrames
      /\ Len(stack) \in At(stack, "apply")
  BY TopTyped DEF EnterStatus, TopIsAt, Nested
<1>2. id \in Nat
  BY DEF Found, IInv, Good, Numbered, SetUp
<1>3. /\ stack' = Append(q, f) /\ n = OnStatusHitEnter(m, s)
      /\ UNCHANGED <<dealt, own, seen, reused, life>>
  BY DEF EnterStatus, origins
<1>4. Good(m) /\ Records(m)
  BY DEF IInv
<1> HIDE DEF id
<1>5. /\ e \in Frames /\ e.op = "apply" /\ s \in Statuses
      /\ f \in Frames /\ f.op = "enter" /\ f.s = s /\ f.context = id
  BY <1>1, <1>2 DEF Frames, ApplyFrames, EnterFrames
<1>6. /\ Records(n) /\ Keeps(m, n)
      /\ n.hitStatusMap = m.hitStatusMap
      /\ n.hitStatusDamageMap = Insert(m.hitStatusDamageMap, s, id)
      /\ n.characterHitMap = m.characterHitMap
      /\ id \in DOMAIN n.hits /\ n.hits[id].enter = TRUE
      /\ s \in DOMAIN m.hitStatusMap =>
           id = m.hitStatusMap[s] /\ n.hits[id].dealt = m.hits[id].dealt
      /\ s \notin DOMAIN m.hitStatusMap => n.hits[id].dealt = FALSE
  <2>1. Records(n) /\ Keeps(m, n) /\ EntersHit(m, n, s, id)
    BY <1>3, <1>4, <1>5, EnterRecords DEF id
  <2> QED
    BY <2>1 DEF EntersHit
<1> HIDE DEF e, f
<1>7. q \in Seq(Frames) /\ Changed(stack, q, e)
  BY <1>1, <1>5, Replaces
<1> HIDE DEF q
<1>8. Grown(q, stack', f)
  BY <1>3, <1>5, <1>7, Pushes
<1>9. life[s] = "applied"
  BY <1>1 DEF Lives, Linked
<1>10. s \in seen
  BY <1>5, <1>9 DEF Contexts
<1>11. /\ \A t : t # s => /\ t \in DOMAIN n.hitStatusDamageMap <=> t \in DOMAIN m.hitStatusDamageMap
                          /\ t \in DOMAIN m.hitStatusDamageMap
                               => n.hitStatusDamageMap[t] = m.hitStatusDamageMap[t]
       /\ s \in DOMAIN n.hitStatusDamageMap
       /\ n.hitStatusDamageMap[s] =
            IF s \in DOMAIN m.hitStatusDamageMap THEN m.hitStatusDamageMap[s] ELSE id
  BY <1>6 DEF Insert, Assign
<1> HIDE DEF m, n, s
<1>12. Dealt(n, dealt)
  BY <1>6 DEF Contexts, Dealt, m
<1>13. Unseen(n, seen)
  BY <1>6, <1>10, <1>11 DEF Contexts, Unseen, m
<1>14. ASSUME NEW t \in Statuses \ reused
       PROVE  Joined(n, own[t], t) /\ Shown(n, own[t], t, stack')
  <2>1. Joined(m, own[t], t) /\ Shown(m, own[t], t, stack)
    BY DEF Contexts, m
  <2>2. Shown(m, own[t], t, q)
    BY <2>1, <1>5, <1>7, ShownChanged
  <2>3. Shown(n, own[t], t, q)
    BY <2>2, <1>6, <1>11, ShownKept
  <2>4. CASE t # s
    <3>1. Same(m, n, t)
      BY <2>4, <1>6, <1>11 DEF Same
    <3>2. Joined(n, own[t], t)
      BY <2>1, <3>1, <1>4, <1>6, JoinedKept
    <3>3. Shown(n, own[t], t, stack')
      BY <2>3, <2>4, <1>5, <1>8, ShownEnter
    <3> QED
      BY <3>2, <3>3
  <2>5. CASE t = s
    <3>1. Own(n, own[t], id)
      BY <2>1, <2>5, <1>6 DEF Joined, Own
    <3>2. Shown(n, own[t], t, stack')
      BY <2>3, <2>5, <3>1, <1>5, <1>6, <1>8, <1>11, ShownEnter
    <3>3. s \in DOMAIN m.hitStatusDamageMap => Own(n, own[t], m.hitStatusDamageMap[s])
      <4>1. s \in DOMAIN m.hitStatusDamageMap
              => /\ m.hitStatusDamageMap[s] \in DOMAIN m.hits
                 /\ m.hits[m.hitStatusDamageMap[s]].enter = TRUE
        BY <1>4 DEF Good, Entered
      <4> QED
        BY <4>1, <2>1, <2>5, <1>6 DEF Joined, Own, Keeps
    <3>4. Joined(n, own[t], t)
      BY <2>1, <2>5, <3>1, <3>3, <1>6, <1>11 DEF Joined
    <3> QED
      BY <3>2, <3>4
  <2> QED
    BY <2>4, <2>5
<1> QED
  BY <1>3, <1>6, <1>12, <1>13, <1>14 DEF Contexts, n

\* A later handler of the status is given what was joined with it, which is its own, too.
LEMMA CharacterApplyDamageContexts ==
  ASSUME IInv, Nested, Contexts, CharacterApplyDamage
  PROVE  Contexts'
<1> DEFINE m == pendingHits
           s == Top.s
           c == IF s \in DOMAIN m.hitStatusDamageMap THEN m.hitStatusDamageMap[s] ELSE 0
           f == [Top EXCEPT !.context = c]
<1>1. /\ stack \in Seq(Frames) /\ stack # <<>> /\ Top = stack[Len(stack)]
      /\ Top.op = "enter" /\ Top \in EnterFrames /\ Len(stack) \in At(stack, "enter")
  BY TopTyped DEF CharacterApplyDamage, Nested
<1>2. Good(m)
  BY DEF IInv
<1>3. c \in Nat
  BY <1>2 DEF Good, Numbered, Entered
<1>4. Instead(f) /\ UNCHANGED <<pendingHits, origins, life>>
  BY DEF CharacterApplyDamage
<1> HIDE DEF c
<1>5. f \in Frames /\ f.s = s /\ f.context = c
  BY <1>1, <1>3 DEF Frames, EnterFrames
<1> HIDE DEF f
<1>6. Changed(stack, stack', f)
  BY <1>1, <1>4, <1>5, Replaces DEF Instead
<1>7. ASSUME NEW t \in Statuses \ reused
      PROVE  Shown(m, own[t], t, stack')
  <2>1. Joined(m, own[t], t) /\ Shown(m, own[t], t, stack)
    BY DEF Contexts
  <2>2. t = s => s \in DOMAIN m.hitStatusDamageMap
    BY <2>1, <1>1 DEF Shown
  <2>3. t = s => Own(m, own[t], c) /\ m.hits[c].enter = TRUE
    BY <2>1, <2>2, <1>2 DEF Joined, Good, Entered, c
  <2> HIDE DEF m, s
  <2> QED
    BY <2>1, <2>2, <2>3, <1>5, <1>6, ShownChanged
<1>8. \A t \in Statuses : life'[t] # "none" => life[t] # "none"
  BY <1>4
<1> QED
  BY <1>4, <1>7, <1>8, StillContexts

LEMMA NothingContexts ==
  /\ \A d : d = NoneDealt => Dealt(NoHits, d) /\ d \in [Pointers -> Nat]
  /\ Unseen(NoHits, {})
  /\ \A s : Joined(NoHits, 0, s) /\ Shown(NoHits, 0, s, <<>>)
<1>1. /\ DOMAIN NoHits.characterHitMap = {} /\ DOMAIN NoHits.hitStatusMap = {}
      /\ DOMAIN NoHits.hitStatusDamageMap = {}
  BY DEF NoHits, Empty
<1>2. At(<<>>, "enter") = {}
  BY DEF At
<1>3. \A d : d = NoneDealt => Dealt(NoHits, d) /\ d \in [Pointers -> Nat]
  BY <1>1 DEF Dealt, NoneDealt
<1> QED
  BY <1>1, <1>2, <1>3 DEF Unseen, Joined, Shown

LEMMA InitContexts == Init => Contexts
<1> SUFFICES ASSUME Init PROVE Contexts
  OBVIOUS
<1>1. /\ pendingHits = NoHits /\ dealt = NoneDealt /\ stack = <<>> /\ seen = {}
  BY DEF Init
<1>2. own \in [Statuses -> Nat] /\ \A s \in Statuses : own[s] = 0 /\ life[s] = "none"
  BY DEF Init, NoOrigin, Nowhere
<1> QED
  BY <1>1, <1>2, NothingContexts DEF Contexts

LEMMA NewSessionContexts ==
  ASSUME NewSession
  PROVE  Contexts' /\ Records(pendingHits)'
<1>1. /\ pendingHits' = NoHits /\ dealt' = NoneDealt /\ stack' = <<>> /\ seen' = {}
  BY DEF NewSession
<1>2. own' \in [Statuses -> Nat] /\ \A s \in Statuses : own'[s] = 0 /\ life'[s] = "none"
  BY DEF NewSession, NoOrigin, Nowhere
<1> QED
  BY <1>1, <1>2, NothingContexts, NoHitsRecords DEF Contexts

-----------------------------------------------------------------------------
(* The specification. *)

SInv == NInv /\ Flags /\ Records(pendingHits) /\ Contexts /\ (Lives \/ Doomed)

LEMMA InitStatuses == Init => SInv
<1> SUFFICES ASSUME Init PROVE SInv
  OBVIOUS
<1>1. Flags
  BY DEF Init, Flags
<1> QED
  BY <1>1, InitNests, InitLives, InitContexts, NoHitsRecords DEF SInv, Init

\* The sets take in the status that the operation is about.
LEMMA HitsFlags == Flags /\ Nested /\ Hits => Flags'
<1> SUFFICES ASSUME Flags, Nested, Hits PROVE Flags'
  OBVIOUS
<1>1. CASE \/ \E p \in Infos : CharacterHit(p)
           \/ CharacterHitReturns \/ HitPrepare \/ ExecuteHit \/ ExecuteReturns
           \/ \E h \in DOMAIN helpers : HitExecuteFails(h)
  BY <1>1 DEF CharacterHit, CharacterHitReturns, HitPrepare, ExecuteHit, ExecuteReturns,
              HitExecuteFails, statusVars, origins, Flags
<1>2. CASE ExecuteApply
  BY <1>2 DEF ExecuteApply, OnApplyStatus, origins, Flags
<1>3. CASE \E h \in DOMAIN helpers, s \in Statuses, simulate \in BOOLEAN :
             HitExecute(h, s, simulate)
  BY <1>3 DEF HitExecute, Construct, statusVars, Flags
<1>4. CASE \E s \in Statuses, p \in Infos : StatusHitSetup(s, p)
  BY <1>4 DEF StatusHitSetup, Construct, statusVars, Flags
<1> QED
  BY <1>1, <1>2, <1>3, <1>4 DEF Hits

LEMMA MachineFlags == Flags /\ Nested /\ Machine => Flags'
<1> SUFFICES ASSUME Flags, Nested, Machine PROVE Flags'
  OBVIOUS
<1>1. CASE \/ \E s \in Statuses : DeleteStatus(s) \/ Update(s)
           \/ StatusAttempted \/ EnterStatus \/ CharacterApplyDamage \/ EnterStatusReturns
           \/ ApplyStatusReturns \/ DeletedTwice \/ Activate
  BY <1>1 DEF DeleteStatus, Update, StatusAttempted, EnterStatus, CharacterApplyDamage,
              EnterStatusReturns, ApplyStatusReturns, DeletedTwice, Activate, statusVars,
              origins, Flags
<1>2. CASE \E s \in Statuses : ApplyStatus(s)
  BY <1>2 DEF ApplyStatus, OnApplyStatus, origins, Flags
<1>3. CASE \E s \in Statuses, b \in BOOLEAN : PreventApply(s, b)
  BY <1>3 DEF PreventApply, origins, Flags
<1>4. CASE \E b \in BOOLEAN : BeforeStatusApply(b)
  <2>1. Top.s \in Statuses
    BY <1>4, TopTyped DEF BeforeStatusApply, TopIsAt, Nested, ApplyFrames
  <2> QED
    BY <2>1, <1>4 DEF BeforeStatusApply, origins, Flags
<1>5. CASE DeleteStatusReturns
  <2>1. Top.s \in Statuses
    BY <1>5, TopTyped DEF DeleteStatusReturns, Nested, DeleteFrames
  <2>2. UNCHANGED <<active, asked, seen, reused>>
    BY <1>5 DEF DeleteStatusReturns, origins
  <2>3. requested' \subseteq requested \cup {Top.s}
    BY <1>5 DEF DeleteStatusReturns, DeleteStatusByHandle
  <2>4. crashed' = crashed \/ crashed' = Held(Top.s)
    BY <1>5 DEF DeleteStatusReturns, DeleteStatusByHandle
  <2>5. Held(Top.s) \in BOOLEAN
    BY DEF Held
  <2> QED
    BY <2>1, <2>2, <2>3, <2>4, <2>5 DEF Flags
<1>6. CASE NewSession
  BY <1>6 DEF NewSession, Flags
<1> QED
  BY <1>1, <1>2, <1>3, <1>4, <1>5, <1>6 DEF Machine

LEMMA HitsStatuses == SInv /\ Lives /\ Hits => Lives' /\ Records(pendingHits)' /\ Contexts'
<1> SUFFICES ASSUME SInv, Lives, Hits PROVE Lives' /\ Records(pendingHits)' /\ Contexts'
  OBVIOUS
<1>1. IInv /\ Nested /\ Lives /\ Records(pendingHits) /\ Contexts
  BY DEF SInv, NInv
<1>2. CASE \E p \in Infos : CharacterHit(p)
  <2>1. UNCHANGED pendingHits
    BY <1>2 DEF CharacterHit
  <2> QED
    BY <1>1, <1>2, <2>1, CharacterHitLives, CallsContexts
<1>3. CASE CharacterHitReturns
  BY <1>1, <1>3, ReturnsLive, CharacterHitReturnsContexts
<1>4. CASE HitPrepare \/ \E h \in DOMAIN helpers : HitExecuteFails(h)
  <2>1. UNCHANGED <<pendingHits, origins, stack, list, life, pendingApply, requested>>
    BY <1>4 DEF HitPrepare, HitExecuteFails, statusVars
  <2> QED
    BY <1>1, <2>1, StillLive, StillContexts DEF Lives, Contexts
<1>5. CASE ExecuteHit \/ ExecuteApply
  <2>1. UNCHANGED pendingHits
    BY <1>5 DEF ExecuteHit, ExecuteApply, OnApplyStatus
  <2> QED
    BY <1>1, <1>5, <2>1, ExecuteHitLives, ExecuteApplyLives, ExecutesContexts
<1>6. CASE ExecuteReturns
  <2>1. UNCHANGED pendingHits
    BY <1>6 DEF ExecuteReturns
  <2> QED
    BY <1>1, <1>6, <2>1, ReturnsLive, ReturnsContexts
<1>7. CASE \E h \in DOMAIN helpers, s \in Statuses, simulate \in BOOLEAN :
             HitExecute(h, s, simulate)
  <2>1. UNCHANGED pendingHits
    BY <1>7 DEF HitExecute
  <2> QED
    BY <1>1, <1>7, <2>1, HitExecuteLives, HitExecuteContexts
<1>8. CASE \E s \in Statuses, p \in Infos : StatusHitSetup(s, p)
  BY <1>1, <1>8, StatusHitSetupLives, StatusHitSetupContexts
<1> QED
  BY <1>2, <1>3, <1>4, <1>5, <1>6, <1>7, <1>8 DEF Hits

LEMMA MachineStatuses ==
  SInv /\ Lives /\ Machine => (Lives \/ Doomed)' /\ Records(pendingHits)' /\ Contexts'
<1> SUFFICES ASSUME SInv, Lives, Machine
             PROVE  (Lives' \/ Doomed') /\ Records(pendingHits)' /\ Contexts'
  OBVIOUS
<1>1. IInv /\ Nested /\ Lives /\ Records(pendingHits) /\ Contexts
  BY DEF SInv, NInv
<1>2. CASE \E s \in Statuses : ApplyStatus(s) \/ DeleteStatus(s)
  <2>1. UNCHANGED pendingHits
    BY <1>2 DEF ApplyStatus, OnApplyStatus, DeleteStatus
  <2> QED
    BY <1>1, <1>2, <2>1, ApplyStatusLives, DeleteStatusLives, CallsContexts
<1>3. CASE \E s \in Statuses : Update(s)
  <2>1. UNCHANGED pendingHits
    BY <1>3 DEF Update
  <2> QED
    BY <1>1, <1>3, <2>1, UpdateLives, QuietContexts
<1>4. CASE (\E s \in Statuses, b \in BOOLEAN : PreventApply(s, b)) \/ Activate
  <2>1. UNCHANGED <<pendingHits, origins, stack, list, life, pendingApply, requested>>
    BY <1>4 DEF PreventApply, Activate
  <2> QED
    BY <1>1, <2>1, StillLive, StillContexts DEF Lives, Contexts
<1>5. CASE StatusAttempted \/ \E b \in BOOLEAN : BeforeStatusApply(b)
  <2>1. UNCHANGED pendingHits
    BY <1>5 DEF StatusAttempted, BeforeStatusApply
  <2> QED
    BY <1>1, <1>5, <2>1, StatusAttemptedLives, BeforeStatusApplyLives, AppliesContexts
<1>6. CASE EnterStatus
  BY <1>1, <1>6, EnterStatusLives, EnterStatusContexts
<1>7. CASE CharacterApplyDamage
  <2>1. UNCHANGED pendingHits
    BY <1>7 DEF CharacterApplyDamage
  <2> QED
    BY <1>1, <1>7, <2>1, CharacterApplyDamageLives, CharacterApplyDamageContexts
<1>8. CASE EnterStatusReturns \/ ApplyStatusReturns \/ DeleteStatusReturns \/ DeletedTwice
  <2>1. UNCHANGED pendingHits
    BY <1>8 DEF EnterStatusReturns, ApplyStatusReturns, DeleteStatusReturns, DeletedTwice
  <2>2. Lives' \/ Doomed'
    BY <1>1, <1>8, EnterStatusReturnsLives, ApplyStatusReturnsLives, DeleteStatusReturnsLives,
       ReturnsLive
  <2> QED
    BY <1>1, <1>8, <2>1, <2>2, ReturnsContexts
<1>9. CASE NewSession
  BY <1>9, NewSessionLives, NewSessionContexts
<1> QED
  BY <1>2, <1>3, <1>4, <1>5, <1>6, <1>7, <1>8, <1>9 DEF Machine

LEMMA StepStatuses == SInv /\ [Next]_vars => SInv'
<1> SUFFICES ASSUME SInv, [Next]_vars PROVE SInv'
  OBVIOUS
<1>1. NInv'
  BY StepNests DEF SInv
<1>2. CASE Next
  <2>1. Flags /\ Nested
    BY DEF SInv, NInv
  <2>2. Lives
    BY <1>2 DEF Next, SInv, Doomed
  <2>3. Flags'
    BY <1>2, <2>1, HitsFlags, MachineFlags DEF Next
  <2>4. (Lives' \/ Doomed') /\ Records(pendingHits)' /\ Contexts'
    BY <1>2, <2>2, HitsStatuses, MachineStatuses DEF Next
  <2> QED
    BY <1>1, <2>3, <2>4 DEF SInv
<1>3. CASE UNCHANGED vars
  <2>1. UNCHANGED <<pendingHits, origins, stack, list, life, pendingApply, requested, crashed,
                    active, asked, seen, reused>>
    BY <1>3 DEF vars, statusVars, origins
  <2>2. Flags' /\ Records(pendingHits)'
    BY <2>1 DEF SInv, Flags
  <2>3. Contexts'
    BY <2>1, StillContexts DEF SInv, Contexts
  <2>4. CASE Lives
    BY <1>1, <2>1, <2>2, <2>3, <2>4, StillLive DEF SInv, Lives
  <2>5. CASE Doomed
    <3>1. Doomed'
      BY <2>1, <2>5 DEF Doomed, DeletionWaits
    <3> QED
      BY <3>1, <1>1, <2>2, <2>3 DEF SInv
  <2> QED
    BY <2>4, <2>5 DEF SInv
<1> QED
  BY <1>2, <1>3

-----------------------------------------------------------------------------
(* The properties. *)

\* An id of a hit was given out.
LEMMA GivenOut ==
  ASSUME SInv
  PROVE  LET m == pendingHits
             ids == 1 .. m.nextHitId - 1
         IN /\ m.nextHitId \in Nat \ {0}
            /\ Maps(m.hits, ids, HitRecords) /\ Maps(m.characterHitMap, Pointers, ids)
            /\ Maps(m.hitStatusMap, Statuses, ids) /\ Maps(m.hitStatusDamageMap, Statuses, ids)
<1> DEFINE m == pendingHits
<1>1. Records(m) /\ Good(m)
  BY DEF SInv, NInv, IInv
<1>2. m.nextHitId \in Nat \ {0}
  BY <1>1 DEF Records, Good, Numbered
<1>3. \A id \in DOMAIN m.hits : id \in Nat /\ id # 0 /\ id < m.nextHitId
  BY <1>1 DEF Records, Good, Numbered
<1>4. \A id \in DOMAIN m.hits : id \in 1 .. m.nextHitId - 1 /\ m.hits[id] \in HitRecords
  BY <1>1, <1>2, <1>3 DEF Records
<1>5. /\ \A k \in DOMAIN m.characterHitMap : m.characterHitMap[k] \in DOMAIN m.hits
      /\ \A k \in DOMAIN m.hitStatusMap : m.hitStatusMap[k] \in DOMAIN m.hits
      /\ \A k \in DOMAIN m.hitStatusDamageMap : m.hitStatusDamageMap[k] \in DOMAIN m.hits
  BY <1>1 DEF Good, Waiting, SetUp, Entered
<1> HIDE DEF m
<1> QED
  BY <1>1, <1>2, <1>4, <1>5 DEF Maps, Records, m

\* What is pending is of a status that a hook has in hand.
LEMMA PendingTyped ==
  ASSUME Nested
  PROVE  Maps(pendingStatuses, Statuses, BOOLEAN) /\ Maps(pendingApply, Statuses, BOOLEAN)
<1>1. \A i \in At(stack, "apply") \cup At(stack, "enter") : stack[i].s \in Statuses
  BY Stack, FrameStatus DEF At
<1>2. DOMAIN pendingStatuses \subseteq Statuses /\ DOMAIN pendingApply \subseteq Statuses
  BY <1>1 DEF Nested, Known
<1> QED
  BY <1>2 DEF Nested, Typed, Maps

LEMMA HelpersTyped ==
  ASSUME Nested
  PROVE  nextHelperId \in Nat /\ Maps(helpers, 0 .. nextHelperId - 1, {"prepare", "custom"})
<1>1. /\ nextHelperId \in Nat
      /\ \A h \in DOMAIN helpers : h \in Nat /\ h < nextHelperId
      /\ \A h \in DOMAIN helpers : helpers[h] \in {"prepare", "custom"}
  BY DEF Nested, HeldBy
<1>2. \A h \in DOMAIN helpers : h \in 0 .. nextHelperId - 1
  BY <1>1
<1> QED
  BY <1>1, <1>2 DEF Maps

LEMMA StatusesTyped == SInv => TypeOK
<1> SUFFICES ASSUME SInv PROVE TypeOK
  OBVIOUS
<1>1. Nested /\ Flags /\ Contexts
  BY DEF SInv, NInv
<1>2. list \in Seq(Statuses) /\ life \in [Statuses -> {"none", "made", "applied"}]
  BY DEF SInv, Lives, Doomed
<1>3. stack \in Seq(Frames) /\ prevent \in BOOLEAN
  BY <1>1 DEF Nested, Typed
<1>4. /\ active \in BOOLEAN /\ crashed \in BOOLEAN
      /\ UNION {requested, asked, seen, reused} \subseteq Statuses
  BY <1>1 DEF Flags
<1>5. own \in [Statuses -> Nat] /\ dealt \in [Pointers -> Nat]
  BY <1>1 DEF Contexts
<1> QED
  BY <1>1, <1>2, <1>3, <1>4, <1>5, GivenOut, PendingTyped, HelpersTyped DEF TypeOK

LEMMA StatusesWait == SInv => DeletionWaits
<1> SUFFICES ASSUME SInv, Lives PROVE DeletionWaits
  BY DEF SInv, Doomed
<1>1. ToSet(stack) = {stack[i] : i \in 1 .. Len(stack)}
  BY Stack, InStack DEF SInv, NInv
<1>2. \A f \in ToSet(stack) : f.op = "enter" => life[f.s] = "applied"
  BY <1>1 DEF Lives, Entering, At
<1> QED
  BY <1>1, <1>2 DEF DeletionWaits, Lives, Marked

LEMMA StatusesOwn == SInv => ContextIsOwn
<1> SUFFICES ASSUME SInv PROVE ContextIsOwn
  OBVIOUS
<1>0. ToSet(stack) = {stack[i] : i \in 1 .. Len(stack)}
  BY Stack, InStack DEF SInv, NInv
<1> SUFFICES ASSUME NEW i \in 1 .. Len(stack), stack[i].op = "enter", stack[i].s \notin reused
             PROVE  LET f == stack[i]
                    IN  IF own[f.s] # 0 THEN f.context = own[f.s]
                        ELSE f.context # 0 /\ ~pendingHits.hits[f.context].dealt
  BY <1>0 DEF ContextIsOwn
<1>1. stack[i].s \in Statuses
  BY Stack, FrameStatus DEF SInv, NInv
<1>2. Shown(pendingHits, own[stack[i].s], stack[i].s, stack) /\ i \in At(stack, "enter")
  BY <1>1 DEF SInv, Contexts, At
<1>3. Own(pendingHits, own[stack[i].s], stack[i].context)
  BY <1>2 DEF Shown
<1>4. 0 \notin DOMAIN pendingHits.hits
  BY DEF SInv, Records
<1> QED
  BY <1>3, <1>4 DEF Own

LEMMA AlwaysStatuses == Spec => []SInv
BY InitStatuses, StepStatuses, PTL DEF Spec

\* The types of the model's state: the ids of hits_ and of the maps were given out, the maps
\* have damage infos and statuses, what is pending has statuses, every frame is a hook's.
THEOREM TypeCorrect == Spec => []TypeOK
BY AlwaysStatuses, StatusesTyped, PTL

\* A status whose Enter is running is not freed, unless it is marked and deleted once more
\* (StatusHelpers.inl:79), and a deletion that a handler asked for meanwhile is not lost: the
\* status is put back for the machine's Update (Status.cpp:62-98).
THEOREM Deletions == Spec => []DeletionWaits
BY AlwaysStatuses, StatusesWait, PTL

\* The hit that handlers of StatusHitEnter and BeforeCharacterApplyDamage are given is the
\* one that the status was set up from (Hit.cpp:128-190), however hits and applies nest.
THEOREM Contextual == Spec => []ContextIsOwn
BY AlwaysStatuses, StatusesOwn, PTL
============================================================================
