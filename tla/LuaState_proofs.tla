--------------------------- MODULE LuaState_proofs ---------------------------
(***************************************************************************)
(* Proofs about LuaState, for any set of threads and any bounds: luaRefs_  *)
(* counts the pins, although LuaReset reads it without the mutex, and a VM *)
(* is never destroyed under a pin; and while one thread uses the state, no *)
(* reset leaves a VM without its bootstraps or a callback without a reset. *)
(***************************************************************************)
EXTENDS LuaState, FiniteSetTheorems, TLAPS

\* The mutex: at most one thread is past the point where it locks.
OneHolder == \A t, u \in Threads : Holds(t) /\ Holds(u) => t = u

\* Below the innermost frame there are only scripts and the callers of the frames above.
UnderTop ==
  \A t \in Threads : \A i \in DOMAIN stack[t] :
    i # Len(stack[t]) => stack[t][i] \in Scripts \cup {"unlock", "inc", "callbacks"}

\* A thread that is about to reset the VM has no pin of its own further down.
EntersUnpinned ==
  \A t \in Threads : At(t, "enter") \/ At(t, "locked") =>
    \A i \in DOMAIN stack[t] : stack[t][i] \notin Counted

\* The inductive invariant.
IInv ==
  /\ TypeOK
  /\ IsFiniteSet(PinFrames) /\ RefsArePins
  /\ OneHolder
  /\ UnderTop
  /\ EntersUnpinned

-----------------------------------------------------------------------------
(* Call stacks. *)

\* Adding a frame.
LEMMA PushTop ==
  ASSUME NEW s \in Seq(Frames), NEW f \in Frames
  PROVE  LET r == Append(s, f) IN
         /\ Len(s) \in Nat /\ r \in Seq(Frames) /\ Len(r) = Len(s) + 1 /\ r # <<>> /\ Last(r) = f
         /\ DOMAIN r = DOMAIN s \cup {Len(s) + 1} /\ DOMAIN s = 1..Len(s)
         /\ \A i \in DOMAIN r : r[i] = IF i = Len(s) + 1 THEN f ELSE s[i]
BY DEF Last

\* Replacing the innermost frame.
LEMMA ReplaceTop ==
  ASSUME NEW s \in Seq(Frames), s # <<>>, NEW f \in Frames
  PROVE  LET r == Append(Front(s), f) IN
         /\ Len(s) \in Nat \ {0} /\ Last(s) = s[Len(s)]
         /\ r \in Seq(Frames) /\ Len(r) = Len(s) /\ r # <<>> /\ Last(r) = f
         /\ DOMAIN r = DOMAIN s /\ DOMAIN s = 1..Len(s)
         /\ \A i \in DOMAIN s : r[i] = IF i = Len(s) THEN f ELSE s[i]
<1>1. Len(s) \in Nat /\ Len(s) > 0 /\ DOMAIN s = 1..Len(s)
  OBVIOUS
<1>2. Front(s) = SubSeq(s, 1, Len(s) - 1)
  BY DEF Front
<1>3. /\ Front(s) \in Seq(Frames) /\ Len(Front(s)) = Len(s) - 1
      /\ \A i \in 1..(Len(s) - 1) : Front(s)[i] = s[i]
  BY <1>1, <1>2
<1> DEFINE F == Front(s)
           r == Append(F, f)
<1>4. F \in Seq(Frames) /\ Len(F) = Len(s) - 1
  BY <1>3
<1>5. /\ r \in Seq(Frames) /\ Len(r) = Len(F) + 1 /\ r # <<>> /\ Last(r) = f
      /\ DOMAIN r = DOMAIN F \cup {Len(F) + 1} /\ DOMAIN F = 1..Len(F)
      /\ \A i \in DOMAIN r : r[i] = IF i = Len(F) + 1 THEN f ELSE F[i]
  <2> HIDE DEF F
  <2> QED
    BY <1>4, PushTop
<1> HIDE DEF F, r
<1>6. Len(r) = Len(s) /\ DOMAIN r = DOMAIN s
  BY <1>1, <1>4, <1>5
<1>7. \A i \in DOMAIN s : r[i] = IF i = Len(s) THEN f ELSE s[i]
  BY <1>1, <1>3, <1>4, <1>5, <1>6 DEF F
<1>8. Last(s) = s[Len(s)]
  BY DEF Last
<1> QED
  <2>1. Len(s) \in Nat \ {0}
    BY <1>1
  <2>2. r = Append(Front(s), f)
    BY DEF F, r
  <2> QED
    BY <1>1, <1>5, <1>6, <1>7, <1>8, <2>1, <2>2

\* Dropping one.
LEMMA DropTop ==
  ASSUME NEW s \in Seq(Frames), s # <<>>
  PROVE  /\ Front(s) \in Seq(Frames) /\ Len(s) \in Nat \ {0}
         /\ DOMAIN Front(s) = DOMAIN s \ {Len(s)} /\ DOMAIN s = 1..Len(s)
         /\ \A i \in DOMAIN Front(s) : Front(s)[i] = s[i]
<1>1. Len(s) \in Nat /\ Len(s) > 0 /\ DOMAIN s = 1..Len(s)
  OBVIOUS
<1>2. Front(s) = SubSeq(s, 1, Len(s) - 1)
  BY DEF Front
<1> QED
  BY <1>1, <1>2

Typed == stack \in [Threads -> Seq(Frames)]

\* What is a pin, frame by frame.
LEMMA PinFrame ==
  ASSUME NEW t \in Threads, NEW i
  PROVE  <<t, i>> \in PinFrames <=> i \in DOMAIN stack[t] /\ stack[t][i] \in Counted
BY DEF PinFrames

\* The pins after the stack of one thread has changed.
LEMMA PinChange ==
  ASSUME NEW t \in Threads, \A u \in Threads \ {t} : stack'[u] = stack[u]
  PROVE  PinFrames' = {x \in PinFrames : x[1] # t}
                        \cup ({t} \X {i \in DOMAIN stack'[t] : stack'[t][i] \in Counted})
BY DEF PinFrames

\* Which thread may hold the mutex after a step of t.
LEMMA HolderChange ==
  ASSUME OneHolder, NEW t \in Threads, \A u \in Threads \ {t} : stack'[u] = stack[u],
         Holds(t)' => Holds(t) \/ CanLock(t)
  PROVE  OneHolder'
<1>1. \A u \in Threads \ {t} : Holds(u)' = Holds(u)
  BY DEF Holds
<1> QED
  BY <1>1 DEF OneHolder, CanLock

\* Goto: the innermost frame of t changes from `old' to `new'.
LEMMA GotoEffect ==
  ASSUME Typed, UnderTop, NEW t \in Threads, NEW old \in Frames, NEW new \in Frames,
         At(t, old), Goto(t, new)
  PROVE  LET n == Len(stack[t]) IN
         /\ Typed' /\ UnderTop'
         /\ \A u \in Threads \ {t} : stack'[u] = stack[u]
         /\ \A l : At(t, l)' <=> l = new
         /\ <<t, n>> \in PinFrames <=> old \in Counted
         /\ PinFrames' = IF new \in Counted THEN PinFrames \cup {<<t, n>>} ELSE PinFrames \ {<<t, n>>}
         /\ old \notin Waiting => Holds(t)
         /\ Holds(t)' => Holds(t) \/ new \notin Waiting
         /\ \A i \in DOMAIN stack'[t] : i # n => i \in DOMAIN stack[t] /\ stack'[t][i] = stack[t][i]
         /\ n \in DOMAIN stack'[t] /\ stack'[t][n] = new
<1> DEFINE s == stack[t]
           n == Len(s)
           r == Append(Front(s), new)
<1>1. s \in Seq(Frames) /\ s # <<>> /\ Last(s) = old
  BY DEF Typed, At
<1>2. stack' = [stack EXCEPT ![t] = r]
  BY DEF Goto
<1>3. /\ n \in Nat \ {0} /\ Last(s) = s[n]
      /\ r \in Seq(Frames) /\ Len(r) = n /\ r # <<>> /\ Last(r) = new
      /\ DOMAIN r = DOMAIN s /\ DOMAIN s = 1..n
      /\ \A i \in DOMAIN s : r[i] = IF i = n THEN new ELSE s[i]
  BY <1>1, ReplaceTop
<1> HIDE DEF r
<1>4. stack'[t] = r /\ \A u \in Threads \ {t} : stack'[u] = stack[u]
  BY <1>2 DEF Typed
<1>5. Typed'
  BY <1>2, <1>3 DEF Typed
<1>6. UnderTop'
  BY <1>3, <1>4 DEF UnderTop
<1>7. n \in DOMAIN s /\ s[n] = old
  BY <1>1, <1>3
<1>8. <<t, n>> \in PinFrames <=> old \in Counted
  BY <1>7, PinFrame
<1>9. PinFrames' = IF new \in Counted THEN PinFrames \cup {<<t, n>>} ELSE PinFrames \ {<<t, n>>}
  <2>1. PinFrames' = {x \in PinFrames : x[1] # t}
                       \cup ({t} \X {i \in DOMAIN r : r[i] \in Counted})
    BY <1>4, PinChange
  <2>2. PinFrames = {x \in PinFrames : x[1] # t}
                      \cup ({t} \X {i \in DOMAIN s : s[i] \in Counted})
    BY DEF PinFrames
  <2>3. {i \in DOMAIN r : r[i] \in Counted} =
          IF new \in Counted THEN {i \in DOMAIN s : s[i] \in Counted} \cup {n}
                             ELSE {i \in DOMAIN s : s[i] \in Counted} \ {n}
    BY <1>3, <1>7
  <2> DEFINE P == {x \in PinFrames : x[1] # t}
             I == {i \in DOMAIN s : s[i] \in Counted}
  <2>4. <<t, n>> \notin P
    OBVIOUS
  <2> HIDE DEF P, I
  <2> QED
    BY <2>1, <2>2, <2>3, <2>4 DEF P, I
<1>10. old \notin Waiting => Holds(t)
  BY <1>7 DEF Holds
<1>11. Holds(t)' => Holds(t) \/ new \notin Waiting
  BY <1>3, <1>4 DEF Holds
<1>12. \A l : At(t, l)' <=> l = new
  BY <1>3, <1>4 DEF At
<1> QED
  BY <1>3, <1>4, <1>5, <1>6, <1>7, <1>8, <1>9, <1>10, <1>11, <1>12

\* Call: `new' is called; the innermost frame of t stays as it is.
LEMMA CallEffect ==
  ASSUME Typed, UnderTop, NEW t \in Threads, NEW new \in Frames, Call(t, new),
         stack[t] = <<>> \/ \E f \in Scripts \cup {"unlock", "inc", "callbacks"} : At(t, f)
  PROVE  LET n == Len(stack[t]) + 1 IN
         /\ Typed' /\ UnderTop'
         /\ \A u \in Threads \ {t} : stack'[u] = stack[u]
         /\ \A l : At(t, l)' <=> l = new
         /\ <<t, n>> \notin PinFrames
         /\ PinFrames' = IF new \in Counted THEN PinFrames \cup {<<t, n>>} ELSE PinFrames
         /\ Holds(t)' => Holds(t) \/ new \notin Waiting
         /\ \A i \in DOMAIN stack'[t] : i # n => i \in DOMAIN stack[t] /\ stack'[t][i] = stack[t][i]
         /\ n \in DOMAIN stack'[t] /\ stack'[t][n] = new
<1> DEFINE s == stack[t]
           n == Len(s) + 1
           r == Append(s, new)
<1>1. s \in Seq(Frames)
  BY DEF Typed
<1>2. stack' = [stack EXCEPT ![t] = r]
  BY DEF Call
<1>3. /\ Len(s) \in Nat /\ r \in Seq(Frames) /\ Len(r) = n /\ r # <<>> /\ Last(r) = new
      /\ DOMAIN r = DOMAIN s \cup {n} /\ DOMAIN s = 1..Len(s)
      /\ \A i \in DOMAIN r : r[i] = IF i = n THEN new ELSE s[i]
  BY <1>1, PushTop
<1> HIDE DEF r
<1>4. stack'[t] = r /\ \A u \in Threads \ {t} : stack'[u] = stack[u]
  BY <1>2 DEF Typed
<1>5. Typed'
  BY <1>2, <1>3 DEF Typed
<1>6. UnderTop'
  <2>1. ASSUME NEW i \in DOMAIN r, i # n
        PROVE  r[i] \in Scripts \cup {"unlock", "inc", "callbacks"}
    <3>1. i \in DOMAIN s /\ r[i] = s[i]
      BY <1>3, <2>1
    <3>2. CASE i # Len(s)
      BY <3>1, <3>2 DEF UnderTop
    <3>3. CASE i = Len(s)
      BY <1>1, <1>3, <3>1, <3>3 DEF At, Last
    <3> QED
      BY <3>2, <3>3
  <2> QED
    BY <1>3, <1>4, <2>1 DEF UnderTop
<1>7. n \notin DOMAIN s
  BY <1>3
<1>8. <<t, n>> \notin PinFrames
  BY <1>7, PinFrame
<1>9. PinFrames' = IF new \in Counted THEN PinFrames \cup {<<t, n>>} ELSE PinFrames
  <2>1. PinFrames' = {x \in PinFrames : x[1] # t}
                       \cup ({t} \X {i \in DOMAIN r : r[i] \in Counted})
    BY <1>4, PinChange
  <2>2. PinFrames = {x \in PinFrames : x[1] # t}
                      \cup ({t} \X {i \in DOMAIN s : s[i] \in Counted})
    BY DEF PinFrames
  <2>3. {i \in DOMAIN r : r[i] \in Counted} =
          IF new \in Counted THEN {i \in DOMAIN s : s[i] \in Counted} \cup {n}
                             ELSE {i \in DOMAIN s : s[i] \in Counted}
    BY <1>3, <1>7
  <2> DEFINE P == {x \in PinFrames : x[1] # t}
             I == {i \in DOMAIN s : s[i] \in Counted}
  <2> HIDE DEF P, I
  <2> QED
    BY <2>1, <2>2, <2>3 DEF P, I
<1>10. Holds(t)' => Holds(t) \/ new \notin Waiting
  BY <1>3, <1>4 DEF Holds
<1>11. \A l : At(t, l)' <=> l = new
  BY <1>3, <1>4 DEF At
<1> QED
  BY <1>3, <1>4, <1>5, <1>6, <1>8, <1>9, <1>10, <1>11

\* Return: the innermost frame `old' of t ends.
LEMMA ReturnEffect ==
  ASSUME Typed, UnderTop, NEW t \in Threads, NEW old \in Frames, At(t, old), Return(t)
  PROVE  LET n == Len(stack[t]) IN
         /\ Typed' /\ UnderTop'
         /\ \A u \in Threads \ {t} : stack'[u] = stack[u]
         /\ \A l : At(t, l)' => l \in Scripts \cup {"unlock", "inc", "callbacks"}
         /\ <<t, n>> \in PinFrames <=> old \in Counted
         /\ PinFrames' = PinFrames \ {<<t, n>>}
         /\ Holds(t)' => Holds(t)
<1> DEFINE s == stack[t]
           n == Len(s)
           r == Front(s)
<1>1. s \in Seq(Frames) /\ s # <<>> /\ Last(s) = old
  BY DEF Typed, At
<1>2. stack' = [stack EXCEPT ![t] = r]
  BY DEF Return
<1>3. /\ r \in Seq(Frames) /\ n \in Nat \ {0}
      /\ DOMAIN r = DOMAIN s \ {n} /\ DOMAIN s = 1..n
      /\ \A i \in DOMAIN r : r[i] = s[i]
  BY <1>1, DropTop
<1> HIDE DEF r
<1>4. stack'[t] = r /\ \A u \in Threads \ {t} : stack'[u] = stack[u]
  BY <1>2 DEF Typed
<1>5. Typed'
  BY <1>2, <1>3 DEF Typed
<1>6. \A i \in DOMAIN r : r[i] \in Scripts \cup {"unlock", "inc", "callbacks"}
  BY <1>3 DEF UnderTop
<1>7. UnderTop'
  BY <1>4, <1>6 DEF UnderTop
<1>8. n \in DOMAIN s /\ s[n] = old
  BY <1>1, <1>3 DEF Last
<1>9. <<t, n>> \in PinFrames <=> old \in Counted
  BY <1>8, PinFrame
<1>10. PinFrames' = PinFrames \ {<<t, n>>}
  <2>1. PinFrames' = {x \in PinFrames : x[1] # t}
                       \cup ({t} \X {i \in DOMAIN r : r[i] \in Counted})
    BY <1>4, PinChange
  <2>2. PinFrames = {x \in PinFrames : x[1] # t}
                      \cup ({t} \X {i \in DOMAIN s : s[i] \in Counted})
    BY DEF PinFrames
  <2>3. {i \in DOMAIN r : r[i] \in Counted} = {i \in DOMAIN s : s[i] \in Counted} \ {n}
    BY <1>3
  <2> DEFINE P == {x \in PinFrames : x[1] # t}
             I == {i \in DOMAIN s : s[i] \in Counted}
  <2>4. <<t, n>> \notin P
    OBVIOUS
  <2> HIDE DEF P, I
  <2> QED
    BY <2>1, <2>2, <2>3, <2>4 DEF P, I
<1>11. Holds(t)' => Holds(t)
  BY <1>3, <1>4 DEF Holds
<1>12. ASSUME NEW l, At(t, l)' PROVE l \in Scripts \cup {"unlock", "inc", "callbacks"}
  <2>1. r # <<>> /\ l = Last(r)
    BY <1>4, <1>12 DEF At
  <2>2. Len(r) \in DOMAIN r
    <3>1. \A q \in Seq(Frames) : q # <<>> => Len(q) \in DOMAIN q
      OBVIOUS
    <3> QED
      BY <1>3, <2>1, <3>1
  <2> QED
    BY <1>6, <2>1, <2>2 DEF Last
<1> QED
  BY <1>4, <1>5, <1>7, <1>9, <1>10, <1>11, <1>12

\* GotoAndCall: the innermost frame becomes `next', and `new' is called from there.
LEMMA GotoAndCallEffect ==
  ASSUME Typed, UnderTop, NEW t \in Threads, NEW old \in Frames, NEW new \in Frames,
         NEW next \in Scripts \cup {"unlock", "inc", "callbacks"},
         At(t, old), GotoAndCall(t, next, new)
  PROVE  LET n == Len(stack[t])
             P == IF next \in Counted THEN PinFrames \cup {<<t, n>>} ELSE PinFrames \ {<<t, n>>}
         IN
         /\ Typed' /\ UnderTop'
         /\ \A u \in Threads \ {t} : stack'[u] = stack[u]
         /\ \A l : At(t, l)' <=> l = new
         /\ <<t, n>> \in PinFrames <=> old \in Counted
         /\ <<t, n + 1>> \notin P
         /\ PinFrames' = IF new \in Counted THEN P \cup {<<t, n + 1>>} ELSE P
         /\ old \notin Waiting => Holds(t)
<1> DEFINE s == stack[t]
           n == Len(s)
           m == n + 1
           q == Append(Front(s), next)
           r == Append(q, new)
           C == Scripts \cup {"unlock", "inc", "callbacks"}
<1>0. next \in Frames
  BY DEF Frames, Counted, Resetting, Scripts
<1>1. s \in Seq(Frames) /\ s # <<>> /\ Last(s) = old
  BY DEF Typed, At
<1>2. stack' = [stack EXCEPT ![t] = r]
  BY DEF GotoAndCall
<1>3. /\ n \in Nat \ {0} /\ Last(s) = s[n]
      /\ q \in Seq(Frames) /\ Len(q) = n
      /\ DOMAIN q = DOMAIN s /\ DOMAIN s = 1..n
      /\ \A i \in DOMAIN s : q[i] = IF i = n THEN next ELSE s[i]
  BY <1>0, <1>1, ReplaceTop
<1> HIDE DEF q
<1>4. /\ r \in Seq(Frames) /\ Len(r) = Len(q) + 1 /\ r # <<>> /\ Last(r) = new
      /\ DOMAIN r = DOMAIN q \cup {Len(q) + 1}
      /\ \A i \in DOMAIN r : r[i] = IF i = Len(q) + 1 THEN new ELSE q[i]
  BY <1>3, PushTop
<1> HIDE DEF r
<1>5. /\ Len(r) = m /\ DOMAIN r = DOMAIN s \cup {m} /\ m \notin DOMAIN s /\ n \in DOMAIN s
      /\ n # m /\ r[m] = new /\ r[n] = next
      /\ \A i \in DOMAIN s : i # n => r[i] = s[i]
  BY <1>3, <1>4
<1>6. stack'[t] = r /\ \A u \in Threads \ {t} : stack'[u] = stack[u]
  BY <1>2 DEF Typed
<1>7. Typed'
  BY <1>2, <1>4 DEF Typed
<1>8. UnderTop'
  <2>1. ASSUME NEW i \in DOMAIN r, i # m PROVE r[i] \in C
    BY <1>5, <2>1 DEF UnderTop
  <2> QED
    BY <1>5, <1>6, <2>1 DEF UnderTop
<1>9. <<t, n>> \in PinFrames <=> old \in Counted
  BY <1>1, <1>3, <1>5, PinFrame
<1> DEFINE P == IF next \in Counted THEN PinFrames \cup {<<t, n>>} ELSE PinFrames \ {<<t, n>>}
<1>10. <<t, m>> \notin PinFrames
  BY <1>5, PinFrame
<1>11. <<t, m>> \notin P
  BY <1>5, <1>10
<1>12. PinFrames' = IF new \in Counted THEN P \cup {<<t, m>>} ELSE P
  <2>1. PinFrames' = {x \in PinFrames : x[1] # t}
                       \cup ({t} \X {i \in DOMAIN r : r[i] \in Counted})
    BY <1>6, PinChange
  <2>2. PinFrames = {x \in PinFrames : x[1] # t}
                      \cup ({t} \X {i \in DOMAIN s : s[i] \in Counted})
    BY DEF PinFrames
  <2> DEFINE O == {x \in PinFrames : x[1] # t}
             I == {i \in DOMAIN s : s[i] \in Counted}
             J == IF next \in Counted THEN I \cup {n} ELSE I \ {n}
             K == {i \in DOMAIN r : r[i] \in Counted}
  <2>3. K = IF new \in Counted THEN J \cup {m} ELSE J
    BY <1>5
  <2>4. <<t, n>> \notin O /\ <<t, m>> \notin O
    OBVIOUS
  <2>5. P = O \cup ({t} \X J)
    <3> HIDE DEF O, I
    <3>1. PinFrames = O \cup ({t} \X I)
      BY <2>2 DEF O, I
    <3>2. CASE next \in Counted
      BY <3>1, <3>2
    <3>3. CASE next \notin Counted
      BY <2>4, <3>1, <3>3
    <3> QED
      BY <3>2, <3>3
  <2> HIDE DEF O, I, J, P, K
  <2>6. PinFrames' = O \cup ({t} \X K)
    BY <2>1 DEF O, K
  <2> QED
    BY <2>3, <2>5, <2>6
<1>13. old \notin Waiting => Holds(t)
  BY <1>1, <1>3, <1>5 DEF Holds
<1>14. \A l : At(t, l)' <=> l = new
  BY <1>4, <1>6 DEF At
<1> HIDE DEF P
<1> QED
  BY <1>6, <1>7, <1>8, <1>9, <1>11, <1>12, <1>13, <1>14 DEF P

-----------------------------------------------------------------------------
(* Counting. *)

Counts == IsFiniteSet(PinFrames) /\ RefsArePins

\* One more pin.
LEMMA CountUp ==
  ASSUME Counts, NEW x, x \notin PinFrames, PinFrames' = PinFrames \cup {x}, refs' = refs + 1
  PROVE  Counts' /\ refs' \in Nat
BY FS_AddElement, FS_CardinalityType DEF Counts, RefsArePins

\* One pin less.
LEMMA CountDown ==
  ASSUME Counts, NEW x, x \in PinFrames, PinFrames' = PinFrames \ {x}, refs' = refs - 1
  PROVE  Counts' /\ refs' \in Nat
<1>1. IsFiniteSet(PinFrames') /\ Cardinality(PinFrames') = Cardinality(PinFrames) - 1
  BY FS_RemoveElement DEF Counts
<1>2. Cardinality(PinFrames') \in Nat
  BY <1>1, FS_CardinalityType
<1> QED
  BY <1>1, <1>2 DEF Counts, RefsArePins

\* As many as before.
LEMMA CountSame ==
  ASSUME Counts, PinFrames' = PinFrames, refs' = refs
  PROVE  Counts' /\ refs' \in Nat
BY FS_CardinalityType DEF Counts, RefsArePins

\* A step of t that does not bring it to the reset itself.
LEMMA UnpinnedChange ==
  ASSUME EntersUnpinned, NEW t \in Threads, \A u \in Threads \ {t} : stack'[u] = stack[u],
         ~At(t, "enter")' /\ ~At(t, "locked")'
  PROVE  EntersUnpinned'
BY DEF EntersUnpinned, At

\* No pin at all.
LEMMA NoPinsUnpinned ==
  ASSUME PinFrames' = {}
  PROVE  EntersUnpinned'
<1>1. \A u \in Threads : \A i \in DOMAIN stack'[u] :
        stack'[u][i] \in Counted => <<u, i>> \in PinFrames'
  BY DEF PinFrames
<1> QED
  BY <1>1 DEF EntersUnpinned

\* What the types of the other variables are.
OthersOK ==
  /\ pendingDelete \in BOOLEAN /\ pendingStartup \in BOOLEAN
  /\ callbacks \subseteq {"early", "late"}
  /\ vm \in {"none", "fresh", "booted"}
  /\ requests \in 0..MaxRequests
  /\ users \subseteq Threads

\* The inductive invariant in the parts that the steps below establish.
LEMMA Parts ==
  IInv <=> Typed /\ refs \in Nat /\ OthersOK /\ Counts /\ OneHolder /\ UnderTop /\ EntersUnpinned
BY DEF IInv, TypeOK, Typed, OthersOK, Counts

\* The same of the next state.
LEMMA PartsNext ==
  ASSUME Typed', refs' \in Nat, OthersOK', Counts', OneHolder', UnderTop', EntersUnpinned'
  PROVE  IInv'
BY DEF IInv, TypeOK, Typed, OthersOK, Counts

\* A thread that has the mutex, and no pin of its own, is alone with the VM.
LEMMA LockedUnpinned ==
  ASSUME IInv, NEW t \in Threads, At(t, "locked")
  PROVE  PinFrames = {} /\ refs = 0
<1> USE Parts
<1>1. Holds(t)
  <2>1. \A s \in Seq(Frames) : s # <<>> => Len(s) \in DOMAIN s /\ Last(s) = s[Len(s)]
    BY DEF Last
  <2> QED
    BY <2>1 DEF Typed, At, Holds, Waiting, Asking
<1>2. \A u \in Threads : \A i \in DOMAIN stack[u] : stack[u][i] \notin Counted
  <2>1. Counted \cap Waiting = {}
    BY DEF Counted, Scripts, Waiting, Asking
  <2>2. \A i \in DOMAIN stack[t] : stack[t][i] \notin Counted
    BY DEF EntersUnpinned
  <2>3. \A u \in Threads \ {t} : ~Holds(u)
    BY <1>1 DEF OneHolder
  <2> QED
    BY <2>1, <2>2, <2>3 DEF Holds
<1>3. PinFrames = {}
  BY <1>2 DEF PinFrames
<1> QED
  BY <1>3, FS_EmptySet DEF Counts, RefsArePins

\* Any step that only replaces the innermost frame, and counts what it replaces.
LEMMA GotoInv ==
  ASSUME IInv, NEW t \in Threads, NEW old \in Frames, NEW new \in Frames,
         At(t, old), Goto(t, new), OthersOK',
         new \notin {"enter", "locked"}, old \in Waiting => new \in Waiting,
         refs' = IF new \in Counted /\ old \notin Counted THEN refs + 1
                 ELSE IF new \notin Counted /\ old \in Counted THEN refs - 1
                 ELSE refs
  PROVE  IInv'
<1> USE Parts
<1> DEFINE n == Len(stack[t])
<1>1. /\ Typed' /\ UnderTop' /\ \A u \in Threads \ {t} : stack'[u] = stack[u]
      /\ \A l : At(t, l)' <=> l = new
      /\ <<t, n>> \in PinFrames <=> old \in Counted
      /\ PinFrames' = IF new \in Counted THEN PinFrames \cup {<<t, n>>} ELSE PinFrames \ {<<t, n>>}
      /\ old \notin Waiting => Holds(t)
      /\ Holds(t)' => Holds(t) \/ new \notin Waiting
  BY GotoEffect
<1>2. Counts' /\ refs' \in Nat
  <2>1. CASE new \in Counted /\ old \notin Counted
    BY <1>1, <2>1, CountUp
  <2>2. CASE new \notin Counted /\ old \in Counted
    BY <1>1, <2>2, CountDown
  <2>3. CASE new \in Counted <=> old \in Counted
    <3>1. PinFrames' = PinFrames /\ refs' = refs
      BY <1>1, <2>3
    <3> QED
      BY <3>1, CountSame
  <2> QED
    BY <2>1, <2>2, <2>3
<1>3. OneHolder'
  BY <1>1, HolderChange
<1>4. EntersUnpinned'
  BY <1>1, UnpinnedChange
<1> QED
  BY <1>1, <1>2, <1>3, <1>4, PartsNext

-----------------------------------------------------------------------------
(* The actions. *)

\* A new pin.
LEMMA IncLuaRefsInv ==
  ASSUME IInv, NEW t \in Threads, IncLuaRefs(t)
  PROVE  IInv'
<1> USE Parts
<1> DEFINE n == Len(stack[t])
<1>1. /\ MayAct(t) /\ CanLock(t) /\ refs' = refs + 1
      /\ IF stack[t] = <<>> THEN Call(t, "body")
                            ELSE At(t, "body") /\ GotoAndCall(t, "rest", "body")
      /\ OthersOK'
  BY DEF IncLuaRefs, OthersOK
<1>2. {"body", "rest"} \subseteq Frames \cap Counted
  BY DEF Frames, Counted, Scripts
<1>3. /\ Typed' /\ UnderTop' /\ \A u \in Threads \ {t} : stack'[u] = stack[u]
      /\ \A l : At(t, l)' <=> l = "body"
      /\ <<t, n + 1>> \notin PinFrames /\ PinFrames' = PinFrames \cup {<<t, n + 1>>}
  <2>1. CASE stack[t] = <<>>
    BY <1>1, <1>2, <2>1, CallEffect
  <2>2. CASE stack[t] # <<>>
    <3>1. At(t, "body") /\ GotoAndCall(t, "rest", "body")
      BY <1>1, <2>2
    <3>2. "rest" \in Scripts \cup {"unlock", "inc", "callbacks"}
      BY DEF Scripts
    <3> DEFINE P == IF "rest" \in Counted THEN PinFrames \cup {<<t, n>>} ELSE PinFrames \ {<<t, n>>}
    <3>3. /\ Typed' /\ UnderTop' /\ \A u \in Threads \ {t} : stack'[u] = stack[u]
          /\ \A l : At(t, l)' <=> l = "body"
          /\ <<t, n>> \in PinFrames <=> "body" \in Counted
          /\ <<t, n + 1>> \notin P
          /\ PinFrames' = IF "body" \in Counted THEN P \cup {<<t, n + 1>>} ELSE P
      BY <1>2, <3>1, <3>2, GotoAndCallEffect
    <3>4. P = PinFrames
      BY <1>2, <3>3
    <3> HIDE DEF P
    <3> QED
      BY <1>2, <3>3, <3>4
  <2> QED
    BY <2>1, <2>2
<1>4. Counts' /\ refs' \in Nat
  BY <1>1, <1>3, CountUp
<1>5. OneHolder'
  BY <1>1, <1>3, HolderChange
<1>6. EntersUnpinned'
  BY <1>3, UnpinnedChange
<1> QED
  BY <1>1, <1>3, <1>4, <1>5, <1>6, PartsNext

\* The end of a pin.
LEMMA DecLuaRefsInv ==
  ASSUME IInv, NEW t \in Threads, DecLuaRefs(t)
  PROVE  IInv'
<1> USE Parts
<1> DEFINE n == Len(stack[t])
<1>1. PICK s \in Scripts \cup {"init"} : At(t, s)
  BY DEF DecLuaRefs
<1>2. Goto(t, "dec") /\ refs' = refs - 1 /\ OthersOK'
  BY DEF DecLuaRefs, OthersOK
<1>3. s \in Frames /\ s \in Counted /\ s \notin Waiting /\ "dec" \in Frames /\ "dec" \notin Counted
  BY DEF Frames, Counted, Scripts, Waiting, Asking
<1>4. /\ Typed' /\ UnderTop' /\ \A u \in Threads \ {t} : stack'[u] = stack[u]
      /\ \A l : At(t, l)' <=> l = "dec"
      /\ <<t, n>> \in PinFrames /\ PinFrames' = PinFrames \ {<<t, n>>}
      /\ Holds(t)
  BY <1>1, <1>2, <1>3, GotoEffect
<1>5. Counts' /\ refs' \in Nat
  BY <1>2, <1>4, CountDown
<1>6. OneHolder' /\ EntersUnpinned'
  BY <1>4, HolderChange, UnpinnedChange
<1> QED
  BY <1>2, <1>4, <1>5, <1>6, PartsNext

\* DecLuaRefs after the decrement: it goes on to a reset only if no pin is left at all.
LEMMA CheckPendingInv ==
  ASSUME IInv, NEW t \in Threads, CheckPending(t)
  PROVE  IInv'
<1> USE Parts
<1> DEFINE n == Len(stack[t])
<1>1. At(t, "dec") /\ refs' = refs /\ OthersOK'
  BY DEF CheckPending, OthersOK
<1>2. /\ {"dec", "unlock", "enter"} \subseteq Frames
      /\ {"dec", "unlock", "enter"} \cap Counted = {} /\ "dec" \notin Waiting
  BY DEF Frames, Counted, Scripts, Waiting, Asking
<1>3. CASE refs = 0 /\ pendingDelete
  <2> DEFINE P == IF "unlock" \in Counted THEN PinFrames \cup {<<t, n>>} ELSE PinFrames \ {<<t, n>>}
  <2>1. GotoAndCall(t, "unlock", "enter")
    BY <1>3 DEF CheckPending
  <2>2. /\ Typed' /\ UnderTop' /\ \A u \in Threads \ {t} : stack'[u] = stack[u]
        /\ \A l : At(t, l)' <=> l = "enter"
        /\ <<t, n>> \in PinFrames <=> "dec" \in Counted
        /\ PinFrames' = IF "enter" \in Counted THEN P \cup {<<t, n + 1>>} ELSE P
        /\ Holds(t)
    BY <1>1, <1>2, <2>1, GotoAndCallEffect
  <2>3. PinFrames' = PinFrames
    BY <1>2, <2>2
  <2>4. Counts' /\ refs' \in Nat
    BY <1>1, <2>3, CountSame
  <2>5. PinFrames' = {}
    BY <1>3, <2>3, FS_EmptySet DEF Counts, RefsArePins
  <2>6. EntersUnpinned'
    BY <2>5, NoPinsUnpinned
  <2> QED
    BY <1>1, <2>2, <2>4, <2>6, HolderChange, PartsNext
<1>4. CASE ~(refs = 0 /\ pendingDelete)
  <2>1. Return(t)
    BY <1>4 DEF CheckPending
  <2>2. /\ Typed' /\ UnderTop' /\ \A u \in Threads \ {t} : stack'[u] = stack[u]
        /\ \A l : At(t, l)' => l \in Scripts \cup {"unlock", "inc", "callbacks"}
        /\ <<t, n>> \notin PinFrames /\ PinFrames' = PinFrames \ {<<t, n>>}
        /\ Holds(t)' => Holds(t)
    BY <1>1, <1>2, <2>1, ReturnEffect
  <2>3. PinFrames' = PinFrames
    BY <2>2
  <2>4. ~At(t, "enter")' /\ ~At(t, "locked")'
    BY <2>2 DEF Scripts
  <2> QED
    BY <1>1, <2>2, <2>3, <2>4, CountSame, HolderChange, UnpinnedChange, PartsNext
<1> QED
  BY <1>3, <1>4

\* The innermost frame returns, and was not a pin.
LEMMA ReturnInv ==
  ASSUME IInv, NEW t \in Threads, NEW old \in Frames \ Counted, At(t, old), Return(t),
         OthersOK', refs' = refs
  PROVE  IInv'
<1> USE Parts
<1> DEFINE n == Len(stack[t])
<1>1. /\ Typed' /\ UnderTop' /\ \A u \in Threads \ {t} : stack'[u] = stack[u]
      /\ \A l : At(t, l)' => l \in Scripts \cup {"unlock", "inc", "callbacks"}
      /\ <<t, n>> \notin PinFrames /\ PinFrames' = PinFrames \ {<<t, n>>}
      /\ Holds(t)' => Holds(t)
  BY ReturnEffect
<1>2. PinFrames' = PinFrames
  BY <1>1
<1>3. ~At(t, "enter")' /\ ~At(t, "locked")'
  BY <1>1 DEF Scripts
<1> QED
  BY <1>1, <1>2, <1>3, CountSame, HolderChange, UnpinnedChange, PartsNext

\* A script or a state without scripts calls something that is no pin.
LEMMA LuaResetInv ==
  ASSUME IInv, NEW t \in Threads, LuaReset(t)
  PROVE  IInv'
<1> USE Parts
<1> DEFINE n == Len(stack[t]) + 1
<1>1. OthersOK'
  BY LuaStateAssumption DEF LuaReset, OthersOK
<1>2. stack[t] = <<>> \/ \E f \in Scripts \cup {"unlock", "inc", "callbacks"} : At(t, f)
  BY DEF LuaReset, MayAct
<1>3. "reset" \in Frames /\ "reset" \notin Counted /\ "reset" \in Waiting
  BY DEF Frames, Counted, Scripts, Waiting, Asking
<1>4. Call(t, "reset") /\ refs' = refs
  BY DEF LuaReset
<1>5. /\ Typed' /\ UnderTop' /\ \A u \in Threads \ {t} : stack'[u] = stack[u]
      /\ \A l : At(t, l)' <=> l = "reset"
      /\ PinFrames' = PinFrames
      /\ Holds(t)' => Holds(t)
  BY <1>2, <1>3, <1>4, CallEffect
<1> QED
  BY <1>1, <1>4, <1>5, CountSame, HolderChange, UnpinnedChange, PartsNext

\* LuaReset goes on to the reset only if it sees no pin at all.
LEMMA CheckRefsInv ==
  ASSUME IInv, NEW t \in Threads, CheckRefs(t)
  PROVE  IInv'
<1> USE Parts
<1> DEFINE n == Len(stack[t])
<1>1. At(t, "asked") /\ refs' = refs /\ OthersOK'
  BY DEF CheckRefs, OthersOK
<1>2. {"asked", "enter"} \subseteq (Frames \cap Waiting) \ Counted
  BY DEF Frames, Counted, Scripts, Waiting, Asking
<1>3. CASE refs = 0
  <2>1. Goto(t, "enter")
    BY <1>3 DEF CheckRefs
  <2>2. /\ Typed' /\ UnderTop' /\ \A u \in Threads \ {t} : stack'[u] = stack[u]
        /\ <<t, n>> \notin PinFrames
        /\ PinFrames' = PinFrames \ {<<t, n>>}
        /\ Holds(t)' => Holds(t)
    BY <1>1, <1>2, <2>1, GotoEffect
  <2>3. PinFrames' = PinFrames
    BY <2>2
  <2>4. Counts' /\ refs' \in Nat
    BY <1>1, <2>3, CountSame
  <2>5. PinFrames' = {}
    BY <1>3, <2>3, FS_EmptySet DEF Counts, RefsArePins
  <2> QED
    BY <1>1, <2>2, <2>4, <2>5, HolderChange, NoPinsUnpinned, PartsNext
<1>4. CASE refs # 0
  <2>1. Return(t)
    BY <1>4 DEF CheckRefs
  <2> QED
    BY <1>1, <1>2, <2>1, ReturnInv
<1> QED
  BY <1>3, <1>4

\* With the mutex, the thread is still without a pin of its own.
LEMMA LockInv ==
  ASSUME IInv, NEW t \in Threads, Lock(t)
  PROVE  IInv'
<1> USE Parts
<1> DEFINE n == Len(stack[t])
<1>1. At(t, "enter") /\ CanLock(t) /\ Goto(t, "locked") /\ refs' = refs /\ OthersOK'
  BY DEF Lock, OthersOK
<1>2. {"locked", "enter"} \subseteq Frames \ Counted
  BY DEF Frames, Counted, Scripts, Waiting, Asking, Resetting
<1>3. /\ Typed' /\ UnderTop' /\ \A u \in Threads \ {t} : stack'[u] = stack[u]
      /\ <<t, n>> \notin PinFrames /\ PinFrames' = PinFrames \ {<<t, n>>}
      /\ \A i \in DOMAIN stack'[t] : i # n => i \in DOMAIN stack[t] /\ stack'[t][i] = stack[t][i]
      /\ stack'[t][n] = "locked"
  BY <1>1, <1>2, GotoEffect
<1>4. PinFrames' = PinFrames
  BY <1>3
<1>5. EntersUnpinned'
  <2>1. \A i \in DOMAIN stack'[t] : stack'[t][i] \notin Counted
    BY <1>1, <1>2, <1>3 DEF EntersUnpinned
  <2> QED
    BY <1>3, <2>1 DEF EntersUnpinned, At
<1> QED
  BY <1>1, <1>3, <1>4, <1>5, CountSame, HolderChange, PartsNext

\* The new VM; the server pins it while it initialises it.
LEMMA CreateInv ==
  ASSUME IInv, NEW t \in Threads, Create(t)
  PROVE  IInv'
<1> USE Parts
<1> DEFINE n == Len(stack[t])
<1>1. At(t, "create") /\ OthersOK'
  BY DEF Create, OthersOK
<1>2. /\ {"create", "inc", "init"} \subseteq Frames \ Waiting
      /\ "create" \notin Counted /\ "inc" \notin Counted /\ "init" \in Counted
  BY DEF Frames, Counted, Scripts, Waiting, Asking, Resetting
<1>3. CASE IsServer
  <2> DEFINE P == IF "inc" \in Counted THEN PinFrames \cup {<<t, n>>} ELSE PinFrames \ {<<t, n>>}
  <2>1. GotoAndCall(t, "inc", "init") /\ refs' = refs + 1
    BY <1>3 DEF Create
  <2>2. /\ Typed' /\ UnderTop' /\ \A u \in Threads \ {t} : stack'[u] = stack[u]
        /\ \A l : At(t, l)' <=> l = "init"
        /\ <<t, n>> \notin PinFrames
        /\ <<t, n + 1>> \notin P
        /\ PinFrames' = P \cup {<<t, n + 1>>}
        /\ Holds(t)
    BY <1>1, <1>2, <2>1, GotoAndCallEffect
  <2>3. P = PinFrames
    BY <1>2, <2>2
  <2> HIDE DEF P
  <2>4. Counts' /\ refs' \in Nat
    BY <2>1, <2>2, <2>3, CountUp
  <2> QED
    BY <1>1, <2>2, <2>4, HolderChange, UnpinnedChange, PartsNext
<1>4. CASE ~IsServer
  <2>1. Goto(t, "inc") /\ refs' = refs
    BY <1>4 DEF Create
  <2> QED
    BY <1>1, <1>2, <2>1, GotoInv
<1> QED
  BY <1>3, <1>4

\* The bootstrap scripts run under a pin of their own.
LEMMA LuaStartupInv ==
  ASSUME IInv, NEW t \in Threads, LuaStartup(t)
  PROVE  IInv'
<1> USE Parts
<1> DEFINE n == Len(stack[t])
<1>1. At(t, "startup") /\ OthersOK'
  BY DEF LuaStartup, OthersOK
<1>2. {"startup", "callbacks", "body"} \subseteq (Frames \cap Counted) \ Waiting
  BY DEF Frames, Counted, Scripts, Waiting, Asking, Resetting
<1>3. CASE pendingStartup
  <2> DEFINE P == IF "callbacks" \in Counted THEN PinFrames \cup {<<t, n>>} ELSE PinFrames \ {<<t, n>>}
  <2>1. GotoAndCall(t, "callbacks", "body") /\ refs' = refs + 1
    BY <1>3 DEF LuaStartup
  <2>2. /\ Typed' /\ UnderTop' /\ \A u \in Threads \ {t} : stack'[u] = stack[u]
        /\ \A l : At(t, l)' <=> l = "body"
        /\ <<t, n>> \in PinFrames
        /\ <<t, n + 1>> \notin P
        /\ PinFrames' = P \cup {<<t, n + 1>>}
        /\ Holds(t)
    BY <1>1, <1>2, <2>1, GotoAndCallEffect
  <2>3. P = PinFrames
    BY <1>2, <2>2
  <2> HIDE DEF P
  <2>4. Counts' /\ refs' \in Nat
    BY <2>1, <2>2, <2>3, CountUp
  <2> QED
    BY <1>1, <2>2, <2>4, HolderChange, UnpinnedChange, PartsNext
<1>4. CASE ~pendingStartup
  <2>1. Goto(t, "callbacks") /\ refs' = refs
    BY <1>4 DEF LuaStartup
  <2> QED
    BY <1>1, <1>2, <2>1, GotoInv
<1> QED
  BY <1>3, <1>4

\* A post-reset callback pins the VM above the loop that calls it.
LEMMA RunCallbackInv ==
  ASSUME IInv, NEW t \in Threads, RunCallback(t)
  PROVE  IInv'
<1> USE Parts
<1> DEFINE n == Len(stack[t]) + 1
<1>1. At(t, "callbacks") /\ Call(t, "body") /\ refs' = refs + 1 /\ OthersOK'
  BY DEF RunCallback, OthersOK
<1>2. {"callbacks", "body"} \subseteq (Frames \cap Counted) \ Waiting
  BY DEF Frames, Counted, Scripts, Waiting, Asking, Resetting
<1>3. Holds(t)
  <2>1. \A s \in Seq(Frames) : s # <<>> => Len(s) \in DOMAIN s /\ Last(s) = s[Len(s)]
    BY DEF Last
  <2> QED
    BY <1>1, <1>2, <2>1 DEF Typed, At, Holds
<1>4. /\ Typed' /\ UnderTop' /\ \A u \in Threads \ {t} : stack'[u] = stack[u]
      /\ \A l : At(t, l)' <=> l = "body"
      /\ <<t, n>> \notin PinFrames /\ PinFrames' = PinFrames \cup {<<t, n>>}
  BY <1>1, <1>2, CallEffect
<1> QED
  BY <1>1, <1>3, <1>4, CountUp, HolderChange, UnpinnedChange, PartsNext

-----------------------------------------------------------------------------
(* The theorems. *)

\* The invariant holds initially.
LEMMA InitInv == Init => IInv
<1> SUFFICES ASSUME Init PROVE IInv
  OBVIOUS
<1>1. \A t \in Threads : stack[t] = <<>>
  BY DEF Init
<1>2. TypeOK
  <2>1. << >> \in Seq(Frames)
    OBVIOUS
  <2>2. stack \in [Threads -> Seq(Frames)]
    BY <2>1 DEF Init
  <2>3. 0 \in 0..MaxRequests
    BY LuaStateAssumption
  <2> QED
    BY <2>2, <2>3 DEF Init, TypeOK
<1>3. PinFrames = {}
  BY <1>1 DEF PinFrames
<1>4. IsFiniteSet(PinFrames) /\ RefsArePins
  BY <1>3, FS_EmptySet DEF Init, RefsArePins
<1>5. OneHolder /\ UnderTop /\ EntersUnpinned
  BY <1>1 DEF OneHolder, UnderTop, EntersUnpinned, Holds, At
<1> QED
  BY <1>2, <1>4, <1>5 DEF IInv

\* Every step preserves it.
LEMMA NextInv == IInv /\ [Next]_vars => IInv'
<1> SUFFICES ASSUME IInv, [Next]_vars PROVE IInv'
  OBVIOUS
<1> USE Parts
<1>1. ASSUME UNCHANGED vars PROVE IInv'
  BY <1>1 DEF vars, IInv, TypeOK, PinFrames, RefsArePins, OneHolder, Holds, UnderTop,
              EntersUnpinned, At
<1>2. ASSUME NEW t \in Threads,
             IncLuaRefs(t) \/ DecLuaRefs(t) \/ LuaReset(t) \/ Continue(t)
      PROVE  IInv'
  <2> DEFINE Steps == {"reset", "delete", "asked", "locked", "create", "inc", "startup",
                       "callbacks", "weird", "dec", "unlock"}
  <2>0. /\ Steps \subseteq Frames
        /\ Steps \cap Counted = {"startup", "callbacks", "weird"}
        /\ Steps \cap Waiting = {"reset", "delete", "asked"}
    BY DEF Frames, Counted, Scripts, Waiting, Asking, Resetting
  <2>1. CASE IncLuaRefs(t)
    BY <2>1, IncLuaRefsInv
  <2>2. CASE DecLuaRefs(t)
    BY <2>2, DecLuaRefsInv
  <2>3. CASE LuaReset(t)
    BY <2>3, LuaResetInv
  <2>4. CASE CheckPending(t)
    BY <2>4, CheckPendingInv
  <2>5. CASE Unlock(t)
    BY <2>0, <2>5, ReturnInv DEF Unlock, OthersOK
  <2>6. CASE RequestDelete(t)
    BY <2>0, <2>6, GotoInv DEF RequestDelete, OthersOK
  <2>7. CASE RequestStartup(t)
    BY <2>0, <2>7, GotoInv DEF RequestStartup, OthersOK
  <2>8. CASE CheckRefs(t)
    BY <2>8, CheckRefsInv
  <2>9. CASE Lock(t)
    BY <2>9, LockInv
  <2>10. CASE Destroy(t)
    BY <2>0, <2>10, GotoInv DEF Destroy, OthersOK
  <2>11. CASE Create(t)
    BY <2>11, CreateInv
  <2>12. CASE Protect(t)
    BY <2>0, <2>12, GotoInv DEF Protect, OthersOK
  <2>13. CASE LuaStartup(t)
    BY <2>13, LuaStartupInv
  <2>14. CASE RunCallback(t)
    BY <2>14, RunCallbackInv
  <2>15. CASE EndCallbacks(t)
    BY <2>0, <2>15, GotoInv DEF EndCallbacks, OthersOK
  <2>16. CASE Weird(t)
    BY <2>0, <2>16, GotoInv DEF Weird, OthersOK
  <2> QED
    BY <1>2, <2>1, <2>2, <2>3, <2>4, <2>5, <2>6, <2>7, <2>8, <2>9, <2>10, <2>11, <2>12,
       <2>13, <2>14, <2>15, <2>16 DEF Continue, LuaResetInternal
<1> QED
  BY <1>1, <1>2 DEF Next

\* The invariant is one of the specification.
LEMMA Invariant == Spec => []IInv
BY InitInv, NextInv, PTL DEF Spec

\* The shape of the state; luaRefs_ never goes below zero, so the assertion of
\* DecLuaRefs holds.
THEOREM Types == Spec => []TypeOK
<1>1. IInv => TypeOK
  BY DEF IInv
<1> QED
  BY <1>1, Invariant, PTL

\* luaRefs_ is the number of pins, whatever the threads do.
THEOREM RefsCountPins == Spec => []RefsArePins
<1>1. IInv => RefsArePins
  BY DEF IInv
<1> QED
  BY <1>1, Invariant, PTL

\* assert(luaRefs_ == 0) of LuaResetInternal holds, although LuaReset looks at
\* luaRefs_ without the mutex.
THEOREM ResetFindsNoRefs == Spec => []AssertNoRefs
<1>1. IInv => AssertNoRefs
  BY LockedUnpinned DEF AssertNoRefs
<1> QED
  BY <1>1, Invariant, PTL

\* No VM is destroyed under a thread that runs scripts in it or starts it up.
THEOREM PinsKeepVM == Spec => PinnedVMStays
<1>1. IInv /\ [Next]_vars => [vm # "none" /\ vm' = "none" => PinFrames = {}]_vars
  <2> SUFFICES ASSUME IInv, Next, vm # "none", vm' = "none" PROVE PinFrames = {}
    BY DEF vars
  <2>1. PICK t \in Threads : IncLuaRefs(t) \/ DecLuaRefs(t) \/ LuaReset(t) \/ Continue(t)
    BY DEF Next
  <2>2. At(t, "locked")
    BY <2>1 DEF IncLuaRefs, DecLuaRefs, LuaReset, Continue, LuaResetInternal, CheckPending,
       Unlock, RequestDelete, RequestStartup, CheckRefs, Lock, Destroy, Create, Protect,
       LuaStartup, RunCallback, EndCallbacks, Weird
  <2> QED
    BY <2>2, LockedUnpinned
<1> QED
  BY <1>1, Invariant, PTL DEF Spec, PinnedVMStays
-----------------------------------------------------------------------------
(* One thread.                                                              *)
(*                                                                          *)
(* As long as one thread uses the state, its stack says how far a reset is. *)

\* A caller of the innermost frame of t is one of labels.
Below(t, labels) ==
  \E i \in DOMAIN stack[t] : i # Len(stack[t]) /\ stack[t][i] \in labels

\* A VM was made, and nobody has looked at LuaPendingStartup since.
Starting(t) == At(t, "inc") \/ At(t, "startup") \/ Below(t, {"inc"})

\* A reset has been asked for and has not set LuaPendingDelete, or is past clearing it.
Underway(t) ==
  (\E l \in Asking \cup Resetting : At(t, l)) \/ Below(t, {"inc", "callbacks"})

\* The frame that made a VM is the innermost one or has called it.
Tight(t) == \A i \in DOMAIN stack[t] : stack[t][i] = "inc" => i >= Len(stack[t]) - 1

\* Between LuaReset and the reset both requests stay, and nothing but the reset takes them;
\* the only call from below the pin of a new VM is State::Initialize, which asks for nothing.
Solo(t) ==
  /\ At(t, "delete") => pendingDelete
  /\ \A l \in {"asked", "enter", "locked"} : At(t, l) => pendingDelete /\ pendingStartup
  /\ pendingDelete => pendingStartup \/ At(t, "delete")
  /\ At(t, "create") \/ Starting(t) => pendingStartup /\ ~pendingDelete
  /\ Starting(t) <=> vm = "fresh"
  /\ At(t, "weird") => callbacks = {}
  /\ callbacks # {} => pendingDelete \/ Underway(t)
  /\ Below(t, {"inc"}) => At(t, "init") \/ At(t, "dec")
  /\ Tight(t)

\* Of a state that one thread uses, all of that; one that nobody has used is untouched.
SoloInv ==
  /\ \A t \in Threads \ users : stack[t] = <<>>
  /\ users = {} => vm = "none" /\ callbacks = {}
  /\ \A t \in Threads : users \subseteq {t} => Solo(t)

\* There is one innermost frame.
LEMMA OneTop == ASSUME NEW t, NEW l, NEW m, At(t, l), At(t, m) PROVE l = m
BY DEF At

\* Callers are scripts, DecLuaRefs, and LuaResetInternal at its two calls.
LEMMA Callers ==
  ASSUME UnderTop, NEW t \in Threads, NEW labels, Below(t, labels)
  PROVE  \E l \in labels : l \in Scripts \cup {"unlock", "inc", "callbacks"}
BY DEF UnderTop, Below

\* Goto leaves the callers as they are.
LEMMA GotoBelow ==
  ASSUME Typed, NEW t \in Threads, NEW old, NEW new \in Frames, At(t, old), Goto(t, new)
  PROVE  /\ \A l : At(t, l)' <=> l = new
         /\ \A labels : Below(t, labels)' <=> Below(t, labels)
         /\ Tight(t) => Tight(t)'
<1> DEFINE s == stack[t]
           r == Append(Front(s), new)
<1>1. s \in Seq(Frames) /\ s # <<>>
  BY DEF Typed, At
<1>2. stack'[t] = r
  BY DEF Goto, Typed
<1>3. /\ Len(s) \in Nat \ {0} /\ Len(r) = Len(s) /\ r # <<>> /\ Last(r) = new
      /\ DOMAIN r = DOMAIN s /\ DOMAIN s = 1..Len(s)
      /\ \A i \in DOMAIN s : r[i] = IF i = Len(s) THEN new ELSE s[i]
  BY <1>1, ReplaceTop
<1> HIDE DEF r
<1>4. \A l : At(t, l)' <=> l = new
  BY <1>2, <1>3 DEF At
<1>5. \A labels : Below(t, labels)' <=> Below(t, labels)
  BY <1>2, <1>3 DEF Below
<1>6. Tight(t) => Tight(t)'
  BY <1>2, <1>3 DEF Tight
<1> QED
  BY <1>4, <1>5, <1>6

\* Call makes the innermost frame, if there is one, a caller.
LEMMA CallBelow ==
  ASSUME Typed, NEW t \in Threads, NEW new \in Frames, Call(t, new)
  PROVE  /\ \A l : At(t, l)' <=> l = new
         /\ \A labels : Below(t, labels)' <=> Below(t, labels) \/ \E l \in labels : At(t, l)
         /\ Tight(t) /\ ~Below(t, {"inc"}) /\ new # "inc" => Tight(t)'
<1> DEFINE s == stack[t]
           r == Append(s, new)
<1>1. s \in Seq(Frames)
  BY DEF Typed
<1>2. stack'[t] = r
  BY DEF Call, Typed
<1>3. /\ Len(s) \in Nat /\ Len(r) = Len(s) + 1 /\ r # <<>> /\ Last(r) = new
      /\ DOMAIN r = DOMAIN s \cup {Len(s) + 1} /\ DOMAIN s = 1..Len(s)
      /\ \A i \in DOMAIN r : r[i] = IF i = Len(s) + 1 THEN new ELSE s[i]
  BY <1>1, PushTop
<1> HIDE DEF r
<1>4. \A l : At(t, l)' <=> l = new
  BY <1>2, <1>3 DEF At
<1>5. s # <<>> <=> Len(s) \in DOMAIN s
  BY <1>1, <1>3
<1>6. \A l : At(t, l) <=> Len(s) \in DOMAIN s /\ s[Len(s)] = l
  BY <1>5 DEF At, Last
<1>7. ASSUME NEW labels
      PROVE  Below(t, labels)' <=> Below(t, labels) \/ \E l \in labels : At(t, l)
  <2>1. Below(t, labels)' <=> \E i \in DOMAIN r : i # Len(r) /\ r[i] \in labels
    BY <1>2 DEF Below
  <2>2. Below(t, labels)' <=> \E i \in DOMAIN s : s[i] \in labels
    BY <1>3, <2>1
  <2> QED
    BY <1>3, <1>6, <2>2 DEF Below
<1>8. Tight(t) /\ ~Below(t, {"inc"}) /\ new # "inc" => Tight(t)'
  BY <1>2, <1>3 DEF Tight, Below
<1> QED
  BY <1>4, <1>7, <1>8

\* Return makes the last caller the innermost frame again.
LEMMA ReturnBelow ==
  ASSUME Typed, NEW t \in Threads, NEW old, At(t, old), Return(t)
  PROVE  /\ \A labels : Below(t, labels) <=> Below(t, labels)' \/ \E l \in labels : At(t, l)'
         /\ Tight(t) => Tight(t)' /\ ~Below(t, {"inc"})'
<1> DEFINE s == stack[t]
           r == Front(s)
<1>1. s \in Seq(Frames) /\ s # <<>>
  BY DEF Typed, At
<1>2. stack'[t] = r
  BY DEF Return, Typed
<1>3. /\ r \in Seq(Frames) /\ Len(s) \in Nat \ {0}
      /\ DOMAIN r = DOMAIN s \ {Len(s)} /\ DOMAIN s = 1..Len(s)
      /\ \A i \in DOMAIN r : r[i] = s[i]
  BY <1>1, DropTop
<1>4. Len(r) = Len(s) - 1
  BY <1>1 DEF Front
<1> HIDE DEF r
<1>5. r # <<>> <=> Len(r) \in DOMAIN r
  <2>1. \A q \in Seq(Frames) : q # <<>> <=> Len(q) \in DOMAIN q
    OBVIOUS
  <2> QED
    BY <1>3, <2>1
<1>6. \A l : At(t, l)' <=> Len(r) \in DOMAIN r /\ r[Len(r)] = l
  BY <1>2, <1>5 DEF At, Last
<1>7. ASSUME NEW labels
      PROVE  Below(t, labels) <=> Below(t, labels)' \/ \E l \in labels : At(t, l)'
  <2>1. Below(t, labels)' <=> \E i \in DOMAIN r : i # Len(r) /\ r[i] \in labels
    BY <1>2 DEF Below
  <2>2. Below(t, labels) <=> \E i \in DOMAIN r : r[i] \in labels
    BY <1>3 DEF Below
  <2> QED
    BY <1>6, <2>1, <2>2
<1>8. Tight(t) => Tight(t)' /\ ~Below(t, {"inc"})'
  BY <1>2, <1>3, <1>4 DEF Tight, Below
<1> QED
  BY <1>7, <1>8

\* GotoAndCall adds a caller.
LEMMA GotoAndCallBelow ==
  ASSUME Typed, NEW t \in Threads, NEW old, NEW next \in Frames, NEW new \in Frames,
         At(t, old), GotoAndCall(t, next, new)
  PROVE  /\ \A l : At(t, l)' <=> l = new
         /\ \A labels : Below(t, labels)' <=> Below(t, labels) \/ next \in labels
         /\ Tight(t) /\ ~Below(t, {"inc"}) => Tight(t)'
<1> DEFINE s == stack[t]
           n == Len(s)
           q == Append(Front(s), next)
           r == Append(q, new)
<1>1. s \in Seq(Frames) /\ s # <<>>
  BY DEF Typed, At
<1>2. stack'[t] = r
  BY DEF GotoAndCall, Typed
<1>3. /\ n \in Nat \ {0} /\ q \in Seq(Frames) /\ Len(q) = n
      /\ DOMAIN q = DOMAIN s /\ DOMAIN s = 1..n
      /\ \A i \in DOMAIN s : q[i] = IF i = n THEN next ELSE s[i]
  BY <1>1, ReplaceTop
<1> HIDE DEF q
<1>4. /\ Len(r) = n + 1 /\ r # <<>> /\ Last(r) = new
      /\ DOMAIN r = DOMAIN q \cup {n + 1}
      /\ \A i \in DOMAIN r : r[i] = IF i = n + 1 THEN new ELSE q[i]
  BY <1>3, PushTop
<1> HIDE DEF r
<1>5. \A l : At(t, l)' <=> l = new
  BY <1>2, <1>4 DEF At
<1>6. ASSUME NEW labels
      PROVE  Below(t, labels)' <=> Below(t, labels) \/ next \in labels
  <2>1. Below(t, labels)' <=> \E i \in DOMAIN r : i # n + 1 /\ r[i] \in labels
    BY <1>2, <1>4 DEF Below
  <2>2. Below(t, labels)' <=> \E i \in DOMAIN s : q[i] \in labels
    BY <1>3, <1>4, <2>1
  <2> QED
    BY <1>3, <2>2 DEF Below
<1>7. Tight(t) /\ ~Below(t, {"inc"}) => Tight(t)'
  <2> SUFFICES ASSUME Tight(t), ~Below(t, {"inc"}), NEW i \in DOMAIN r, r[i] = "inc"
               PROVE  i >= n
    BY <1>2, <1>4 DEF Tight
  <2>1. CASE i \in DOMAIN s /\ i # n
    BY <1>3, <1>4, <2>1 DEF Below
  <2> QED
    BY <1>3, <1>4, <2>1
<1> QED
  BY <1>5, <1>6, <1>7

-----------------------------------------------------------------------------
(* The steps of that thread.                                                *)


\* A pin is taken where no reset is under way, or by what one has called.
LEMMA SoloIncLuaRefs ==
  ASSUME IInv, NEW t \in Threads, Solo(t), IncLuaRefs(t)
  PROVE  Solo(t)'
<1> USE Parts
<1>1. UNCHANGED <<pendingDelete, pendingStartup, callbacks, vm>>
  BY DEF IncLuaRefs
<1>2. "body" \in Frames /\ "rest" \in Frames
  BY DEF Frames, Counted, Scripts
<1>3. ~Below(t, {"inc"})
  <2>1. ASSUME stack[t] = <<>> PROVE ~Below(t, {"inc"})
    BY <2>1 DEF Below
  <2>2. ASSUME At(t, "body") PROVE ~Below(t, {"inc"})
    BY <2>2, OneTop DEF Solo
  <2> QED
    BY <2>1, <2>2 DEF IncLuaRefs
<1>4. \A l : At(t, l) => l = "body"
  BY OneTop DEF IncLuaRefs, At
<1>5. /\ \A l : At(t, l)' <=> l = "body"
      /\ Below(t, {"inc"})' <=> Below(t, {"inc"})
      /\ Below(t, {"inc", "callbacks"})' <=> Below(t, {"inc", "callbacks"})
      /\ Tight(t)'
  <2>1. CASE stack[t] = <<>>
    <3>1. Call(t, "body")
      BY <2>1 DEF IncLuaRefs
    <3>2. \A l : ~At(t, l)
      BY <2>1 DEF At
    <3> QED
      BY <1>2, <1>3, <3>1, <3>2, CallBelow DEF Solo
  <2>2. CASE stack[t] # <<>>
    <3>1. At(t, "body") /\ GotoAndCall(t, "rest", "body")
      BY <2>2 DEF IncLuaRefs
    <3> QED
      BY <1>2, <1>3, <3>1, GotoAndCallBelow DEF Solo
  <2> QED
    BY <2>1, <2>2
<1>6. ~Starting(t) /\ ~Starting(t)'
  BY <1>3, <1>4, <1>5 DEF Starting
<1>7. Underway(t) => Underway(t)'
  BY <1>4, <1>5 DEF Underway, Asking, Resetting
<1> QED
  BY <1>1, <1>3, <1>4, <1>5, <1>6, <1>7 DEF Solo

\* The end of a pin, by State::Initialize too, changes nothing that counts.
LEMMA SoloDecLuaRefs ==
  ASSUME IInv, NEW t \in Threads, Solo(t), DecLuaRefs(t)
  PROVE  Solo(t)'
<1> USE Parts
<1>1. UNCHANGED <<pendingDelete, pendingStartup, callbacks, vm>>
  BY DEF DecLuaRefs
<1>2. PICK s \in Scripts \cup {"init"} : At(t, s)
  BY DEF DecLuaRefs
<1>3. Goto(t, "dec") /\ "dec" \in Frames
  BY DEF DecLuaRefs, Frames
<1>4. \A l : At(t, l) => l = s
  BY <1>2, OneTop
<1>5. /\ \A l : At(t, l)' <=> l = "dec"
      /\ Below(t, {"inc"})' <=> Below(t, {"inc"})
      /\ Below(t, {"inc", "callbacks"})' <=> Below(t, {"inc", "callbacks"})
      /\ Tight(t)'
  BY <1>2, <1>3, GotoBelow DEF Solo
<1>6. Starting(t)' <=> Starting(t)
  BY <1>4, <1>5 DEF Starting, Scripts
<1>7. Underway(t) => Underway(t)'
  BY <1>4, <1>5 DEF Underway, Asking, Resetting, Scripts
<1>8. ~At(t, "delete") /\ ~At(t, "create")
  BY <1>4 DEF Scripts
<1> QED
  BY <1>1, <1>5, <1>6, <1>7, <1>8 DEF Solo

\* The innermost frame returns, and was not on the way to a new VM.
LEMMA SoloReturn ==
  ASSUME IInv, NEW t \in Threads, Solo(t), NEW old \in {"dec", "unlock", "asked"}, At(t, old),
         Return(t), UNCHANGED <<pendingDelete, pendingStartup, callbacks, vm>>
  PROVE  Solo(t)'
<1> USE Parts
<1>1. \A l : At(t, l) => l = old
  BY OneTop
<1>2. ASSUME NEW l, At(t, l)' PROVE l \in Scripts \cup {"unlock", "inc", "callbacks"}
  <2>1. Below(t, {l})
    BY <1>2, ReturnBelow
  <2> QED
    BY <2>1, Callers
<1>3. \A l : At(t, l)' => l \in {"body", "rest", "unlock", "inc", "callbacks"}
  BY <1>2 DEF Scripts
<1>4. /\ Below(t, {"inc"}) <=> Below(t, {"inc"})' \/ At(t, "inc")'
      /\ Below(t, {"inc", "callbacks"}) <=>
           Below(t, {"inc", "callbacks"})' \/ At(t, "inc")' \/ At(t, "callbacks")'
      /\ Tight(t)' /\ ~Below(t, {"inc"})'
  BY ReturnBelow DEF Solo
<1>5. Starting(t)' <=> Starting(t)
  BY <1>1, <1>3, <1>4 DEF Starting
<1>6. Underway(t) /\ old # "asked" => Underway(t)'
  BY <1>1, <1>4 DEF Underway, Asking, Resetting
<1>7. old = "asked" => pendingDelete /\ pendingStartup
  BY DEF Solo
<1>8. ~At(t, "delete") /\ ~At(t, "create")
  BY <1>1
<1> QED
  BY <1>3, <1>4, <1>5, <1>6, <1>7, <1>8 DEF Solo

\* DecLuaRefs finds the reset pending with both requests there, never inside a new VM.
LEMMA SoloCheckPending ==
  ASSUME IInv, NEW t \in Threads, Solo(t), CheckPending(t)
  PROVE  Solo(t)'
<1> USE Parts
<1>1. At(t, "dec") /\ UNCHANGED <<pendingDelete, pendingStartup, callbacks, vm>>
  BY DEF CheckPending
<1>2. CASE refs = 0 /\ pendingDelete
  <2>1. GotoAndCall(t, "unlock", "enter") /\ {"unlock", "enter"} \subseteq Frames
    BY <1>2 DEF CheckPending, Frames, Waiting
  <2>2. \A l : At(t, l) => l = "dec"
    BY <1>1, OneTop
  <2>3. ~Starting(t) /\ ~Below(t, {"inc"}) /\ pendingStartup
    BY <1>2, <2>2 DEF Solo, Starting
  <2>4. /\ \A l : At(t, l)' <=> l = "enter"
        /\ Below(t, {"inc"})' <=> Below(t, {"inc"})
        /\ Tight(t)'
    BY <1>1, <2>1, <2>3, GotoAndCallBelow DEF Solo
  <2>5. ~Starting(t)'
    BY <2>3, <2>4 DEF Starting
  <2> QED
    BY <1>1, <1>2, <2>3, <2>4, <2>5 DEF Solo
<1>3. CASE ~(refs = 0 /\ pendingDelete)
  BY <1>1, <1>3, SoloReturn DEF CheckPending
<1> QED
  BY <1>2, <1>3

\* Asking starts with no request yet, away from a VM that is being made.
LEMMA SoloLuaReset ==
  ASSUME IInv, NEW t \in Threads, Solo(t), LuaReset(t)
  PROVE  Solo(t)'
<1> USE Parts
<1>1. UNCHANGED <<pendingDelete, pendingStartup, vm>>
  BY DEF LuaReset
<1>2. Call(t, "reset") /\ "reset" \in Frames
  BY DEF LuaReset, Frames, Waiting, Asking
<1>3. \A l : At(t, l) => l \in Scripts
  BY OneTop DEF LuaReset, MayAct, At
<1>4. \A l : At(t, l) => l = "body" \/ l = "rest"
  BY <1>3 DEF Scripts
<1>5. ~Below(t, {"inc"})
  <2>1. ASSUME stack[t] = <<>> PROVE ~Below(t, {"inc"})
    BY <2>1 DEF Below
  <2>2. ASSUME NEW s \in Scripts, At(t, s) PROVE ~Below(t, {"inc"})
    BY <1>4, <2>2 DEF Solo
  <2> QED
    BY <2>1, <2>2 DEF LuaReset, MayAct
<1>6. /\ \A l : At(t, l)' <=> l = "reset"
      /\ ~Below(t, {"inc"})'
      /\ Tight(t)'
  BY <1>2, <1>4, <1>5, CallBelow DEF Solo
<1>7. ~Starting(t) /\ ~Starting(t)'
  BY <1>4, <1>5, <1>6 DEF Starting
<1>8. Underway(t)'
  BY <1>6 DEF Underway, Asking
<1> QED
  BY <1>1, <1>4, <1>6, <1>7, <1>8 DEF Solo

\* Goto between frames none of which is the one that made a VM.
LEMMA SoloGoto ==
  ASSUME IInv, NEW t \in Threads, Solo(t), NEW old, NEW new \in Frames, At(t, old), Goto(t, new),
         old \notin {"init", "dec"}
  PROVE  /\ \A l : At(t, l) => l = old
         /\ \A l : At(t, l)' <=> l = new
         /\ ~Below(t, {"inc"}) /\ ~Below(t, {"inc"})'
         /\ Below(t, {"inc", "callbacks"})' <=> Below(t, {"inc", "callbacks"})
         /\ Tight(t)'
<1> USE Parts
<1>1. \A l : At(t, l) => l = old
  BY OneTop
<1>2. ~Below(t, {"inc"})
  BY <1>1 DEF Solo
<1> QED
  BY <1>1, <1>2, GotoBelow DEF Solo

\* The first request is still alone.
LEMMA SoloRequestDelete ==
  ASSUME IInv, NEW t \in Threads, Solo(t), RequestDelete(t)
  PROVE  Solo(t)'
<1>1. At(t, "reset") /\ Goto(t, "delete") /\ "delete" \in Frames
  BY DEF RequestDelete, Frames, Waiting, Asking
<1>2. pendingDelete' = TRUE /\ UNCHANGED <<pendingStartup, callbacks, vm>>
  BY DEF RequestDelete
<1>3. /\ \A l : At(t, l) => l = "reset"
      /\ \A l : At(t, l)' <=> l = "delete"
      /\ ~Below(t, {"inc"}) /\ ~Below(t, {"inc"})' /\ Tight(t)'
  BY <1>1, SoloGoto
<1>4. ~Starting(t) /\ ~Starting(t)'
  BY <1>3 DEF Starting
<1> QED
  BY <1>2, <1>3, <1>4 DEF Solo

\* The second makes them two.
LEMMA SoloRequestStartup ==
  ASSUME IInv, NEW t \in Threads, Solo(t), RequestStartup(t)
  PROVE  Solo(t)'
<1>1. At(t, "delete") /\ Goto(t, "asked") /\ "asked" \in Frames
  BY DEF RequestStartup, Frames, Waiting, Asking
<1>2. pendingStartup' = TRUE /\ UNCHANGED <<pendingDelete, callbacks, vm>>
  BY DEF RequestStartup
<1>3. /\ \A l : At(t, l) => l = "delete"
      /\ \A l : At(t, l)' <=> l = "asked"
      /\ ~Below(t, {"inc"}) /\ ~Below(t, {"inc"})' /\ Tight(t)'
  BY <1>1, SoloGoto
<1>4. ~Starting(t) /\ ~Starting(t)'
  BY <1>3 DEF Starting
<1> QED
  BY <1>1, <1>2, <1>3, <1>4 DEF Solo

\* LuaReset leaves with both, or goes to the reset with both.
LEMMA SoloCheckRefs ==
  ASSUME IInv, NEW t \in Threads, Solo(t), CheckRefs(t)
  PROVE  Solo(t)'
<1>1. At(t, "asked") /\ UNCHANGED <<pendingDelete, pendingStartup, callbacks, vm>>
  BY DEF CheckRefs
<1>2. CASE refs = 0
  <2>1. Goto(t, "enter") /\ "enter" \in Frames
    BY <1>2 DEF CheckRefs, Frames, Waiting
  <2>2. /\ \A l : At(t, l) => l = "asked"
        /\ \A l : At(t, l)' <=> l = "enter"
        /\ ~Below(t, {"inc"}) /\ ~Below(t, {"inc"})' /\ Tight(t)'
    BY <1>1, <2>1, SoloGoto
  <2>3. ~Starting(t) /\ ~Starting(t)'
    BY <2>2 DEF Starting
  <2> QED
    BY <1>1, <2>2, <2>3 DEF Solo
<1>3. CASE refs # 0
  BY <1>1, <1>3, SoloReturn DEF CheckRefs
<1> QED
  BY <1>2, <1>3

\* Nobody is there to take them while this thread waits.
LEMMA SoloLock ==
  ASSUME IInv, NEW t \in Threads, Solo(t), Lock(t)
  PROVE  Solo(t)'
<1>1. At(t, "enter") /\ UNCHANGED <<pendingDelete, pendingStartup, callbacks, vm>>
  BY DEF Lock
<1>2. Goto(t, "locked") /\ "locked" \in Frames
  BY DEF Lock, Frames, Resetting
<1>3. /\ \A l : At(t, l) => l = "enter"
      /\ \A l : At(t, l)' <=> l = "locked"
      /\ ~Below(t, {"inc"}) /\ ~Below(t, {"inc"})' /\ Tight(t)'
  BY <1>1, <1>2, SoloGoto
<1>4. ~Starting(t) /\ ~Starting(t)'
  BY <1>3 DEF Starting
<1> QED
  BY <1>1, <1>3, <1>4 DEF Solo

\* The request to delete has been served, the one to start not.
LEMMA SoloDestroy ==
  ASSUME IInv, NEW t \in Threads, Solo(t), Destroy(t)
  PROVE  Solo(t)'
<1>1. At(t, "locked") /\ Goto(t, "create") /\ "create" \in Frames
  BY DEF Destroy, Frames, Resetting
<1>2. pendingDelete' = FALSE /\ vm' = "none" /\ UNCHANGED <<pendingStartup, callbacks>>
  BY DEF Destroy
<1>3. /\ \A l : At(t, l)' <=> l = "create"
      /\ ~Below(t, {"inc"})' /\ Tight(t)'
  BY <1>1, SoloGoto
<1>4. ~Starting(t)' /\ Underway(t)'
  BY <1>3 DEF Starting, Underway, Resetting
<1> QED
  BY <1>1, <1>2, <1>3, <1>4 DEF Solo

\* The VM is new, and will be seen by the thread that looks at LuaPendingStartup.
LEMMA SoloCreate ==
  ASSUME IInv, NEW t \in Threads, Solo(t), Create(t)
  PROVE  Solo(t)'
<1> USE Parts
<1>1. At(t, "create") /\ {"inc", "init"} \subseteq Frames
  BY DEF Create, Frames, Resetting, Counted
<1>2. vm' = "fresh" /\ UNCHANGED <<pendingDelete, pendingStartup, callbacks>>
  BY DEF Create
<1>3. pendingStartup /\ ~pendingDelete
  BY <1>1 DEF Solo
<1>4. CASE IsServer
  <2>1. GotoAndCall(t, "inc", "init")
    BY <1>4 DEF Create
  <2>2. ~Below(t, {"inc"})
    BY <1>1, OneTop DEF Solo
  <2>3. /\ \A l : At(t, l)' <=> l = "init"
        /\ Below(t, {"inc"})' /\ Below(t, {"inc", "callbacks"})' /\ Tight(t)'
    BY <1>1, <2>1, <2>2, GotoAndCallBelow DEF Solo
  <2>4. Starting(t)' /\ Underway(t)'
    BY <2>3 DEF Starting, Underway
  <2> QED
    BY <1>2, <1>3, <2>3, <2>4 DEF Solo
<1>5. CASE ~IsServer
  <2>1. Goto(t, "inc")
    BY <1>5 DEF Create
  <2>2. /\ \A l : At(t, l)' <=> l = "inc"
        /\ ~Below(t, {"inc"})' /\ Tight(t)'
    BY <1>1, <2>1, SoloGoto
  <2>3. Starting(t)' /\ Underway(t)'
    BY <2>2 DEF Starting, Underway, Resetting
  <2> QED
    BY <1>2, <1>3, <2>2, <2>3 DEF Solo
<1> QED
  BY <1>4, <1>5

\* Nothing came between.
LEMMA SoloProtect ==
  ASSUME IInv, NEW t \in Threads, Solo(t), Protect(t)
  PROVE  Solo(t)'
<1>1. At(t, "inc") /\ Goto(t, "startup") /\ "startup" \in Frames
  BY DEF Protect, Frames, Resetting
<1>2. UNCHANGED <<pendingDelete, pendingStartup, callbacks, vm>>
  BY DEF Protect
<1>3. /\ \A l : At(t, l)' <=> l = "startup"
      /\ ~Below(t, {"inc"})' /\ Tight(t)'
  BY <1>1, SoloGoto
<1>4. Starting(t) /\ Starting(t)' /\ Underway(t)'
  BY <1>1, <1>3 DEF Starting, Underway, Resetting
<1> QED
  BY <1>2, <1>3, <1>4 DEF Solo

\* LuaPendingStartup is set and the VM is usable: it is started.
LEMMA SoloLuaStartup ==
  ASSUME IInv, NEW t \in Threads, Solo(t), LuaStartup(t)
  PROVE  Solo(t)'
<1> USE Parts
<1>1. At(t, "startup") /\ {"callbacks", "body"} \subseteq Frames
  BY DEF LuaStartup, Frames, Resetting, Counted, Scripts
<1>2. pendingStartup /\ ~pendingDelete /\ vm = "fresh"
  BY <1>1 DEF Solo, Starting
<1>3. GotoAndCall(t, "callbacks", "body") /\ vm' = "booted"
  BY <1>2 DEF LuaStartup, Usable
<1>4. UNCHANGED <<pendingDelete, callbacks>>
  BY DEF LuaStartup
<1>5. ~Below(t, {"inc"})
  BY <1>1, OneTop DEF Solo
<1>6. /\ \A l : At(t, l)' <=> l = "body"
      /\ ~Below(t, {"inc"})' /\ Below(t, {"inc", "callbacks"})' /\ Tight(t)'
  BY <1>1, <1>3, <1>5, GotoAndCallBelow DEF Solo
<1>7. ~Starting(t)' /\ Underway(t)'
  BY <1>6 DEF Starting, Underway
<1> QED
  BY <1>2, <1>3, <1>4, <1>6, <1>7 DEF Solo

\* A callback runs above the loop, which clears what is registered meanwhile.
LEMMA SoloRunCallback ==
  ASSUME IInv, NEW t \in Threads, Solo(t), RunCallback(t)
  PROVE  Solo(t)'
<1> USE Parts
<1>1. At(t, "callbacks") /\ Call(t, "body") /\ "body" \in Frames
  BY DEF RunCallback, Frames, Counted, Scripts
<1>2. UNCHANGED <<pendingDelete, pendingStartup, vm>>
  BY DEF RunCallback
<1>3. \A l : At(t, l) => l = "callbacks"
  BY <1>1, OneTop
<1>4. ~Below(t, {"inc"})
  BY <1>3 DEF Solo
<1>5. /\ \A l : At(t, l)' <=> l = "body"
      /\ ~Below(t, {"inc"})' /\ Below(t, {"inc", "callbacks"})' /\ Tight(t)'
  BY <1>1, <1>3, <1>4, CallBelow DEF Solo
<1>6. ~Starting(t) /\ ~Starting(t)' /\ Underway(t)'
  BY <1>3, <1>4, <1>5 DEF Starting, Underway
<1> QED
  BY <1>2, <1>3, <1>5, <1>6 DEF Solo

\* None is left.
LEMMA SoloEndCallbacks ==
  ASSUME IInv, NEW t \in Threads, Solo(t), EndCallbacks(t)
  PROVE  Solo(t)'
<1>1. At(t, "callbacks") /\ Goto(t, "weird") /\ "weird" \in Frames
  BY DEF EndCallbacks, Frames, Resetting
<1>2. callbacks' = {} /\ UNCHANGED <<pendingDelete, pendingStartup, vm>>
  BY DEF EndCallbacks
<1>3. /\ \A l : At(t, l) => l = "callbacks"
      /\ \A l : At(t, l)' <=> l = "weird"
      /\ ~Below(t, {"inc"}) /\ ~Below(t, {"inc"})' /\ Tight(t)'
  BY <1>1, SoloGoto
<1>4. ~Starting(t) /\ ~Starting(t)'
  BY <1>3 DEF Starting
<1> QED
  BY <1>2, <1>3, <1>4 DEF Solo

\* And none was added, so a request may be dropped without leaving one alone.
LEMMA SoloWeird ==
  ASSUME IInv, NEW t \in Threads, Solo(t), Weird(t)
  PROVE  Solo(t)'
<1>1. At(t, "weird") /\ Goto(t, "dec") /\ "dec" \in Frames
  BY DEF Weird, Frames
<1>2. pendingDelete' = FALSE /\ UNCHANGED <<pendingStartup, callbacks, vm>>
  BY DEF Weird
<1>3. /\ \A l : At(t, l) => l = "weird"
      /\ \A l : At(t, l)' <=> l = "dec"
      /\ ~Below(t, {"inc"}) /\ ~Below(t, {"inc"})' /\ Tight(t)'
  BY <1>1, SoloGoto
<1>4. ~Starting(t) /\ ~Starting(t)'
  BY <1>3 DEF Starting
<1> QED
  BY <1>1, <1>2, <1>3, <1>4 DEF Solo

\* A step is a step of one thread, which the history has seen.
LEMMA OneActs ==
  ASSUME IInv, NEW t \in Threads, \A u \in Threads \ users : stack[u] = <<>>,
         IncLuaRefs(t) \/ DecLuaRefs(t) \/ LuaReset(t) \/ Continue(t)
  PROVE  users' = users \cup {t} /\ \A u \in Threads \ {t} : stack'[u] = stack[u]
<1> USE Parts
<1>1. ASSUME NEW l, At(t, l) PROVE t \in users
  BY <1>1 DEF At
<1>2. users' = users \cup {t}
  BY <1>1 DEF IncLuaRefs, DecLuaRefs, LuaReset, Continue, LuaResetInternal, CheckPending,
     Unlock, RequestDelete, RequestStartup, CheckRefs, Lock, Destroy, Create, Protect,
     LuaStartup, RunCallback, EndCallbacks, Weird
<1>3. \E s : stack' = [stack EXCEPT ![t] = s]
  BY DEF IncLuaRefs, DecLuaRefs, LuaReset, Continue, LuaResetInternal, CheckPending,
     Unlock, RequestDelete, RequestStartup, CheckRefs, Lock, Destroy, Create, Protect,
     LuaStartup, RunCallback, EndCallbacks, Weird, Goto, Call, GotoAndCall, Return
<1> QED
  BY <1>2, <1>3 DEF Typed

\* Nobody has used the state.
LEMMA SoloInit == Init => SoloInv
<1> SUFFICES ASSUME Init PROVE SoloInv
  OBVIOUS
<1>1. \A t \in Threads : stack[t] = <<>>
  BY DEF Init
<1>2. \A t \in Threads : Solo(t)
  BY <1>1 DEF Init, Solo, Starting, Underway, Tight, At, Below
<1> QED
  BY <1>1, <1>2 DEF Init, SoloInv

\* Every step preserves it.
LEMMA SoloNext == IInv /\ SoloInv /\ [Next]_vars => SoloInv'
<1> SUFFICES ASSUME IInv, SoloInv, [Next]_vars PROVE SoloInv'
  OBVIOUS
<1>1. CASE UNCHANGED vars
  BY <1>1 DEF vars, SoloInv, Solo, Starting, Underway, Tight, At, Below
<1>2. ASSUME NEW t \in Threads,
             IncLuaRefs(t) \/ DecLuaRefs(t) \/ LuaReset(t) \/ Continue(t)
      PROVE  SoloInv'
  <2>1. users' = users \cup {t} /\ \A u \in Threads \ {t} : stack'[u] = stack[u]
    BY <1>2, OneActs DEF SoloInv
  <2>2. \A u \in Threads \ users' : stack'[u] = <<>>
    BY <2>1 DEF SoloInv
  <2>3. ASSUME Solo(t) PROVE Solo(t)'
    <3>1. CASE Unlock(t)
      BY <2>3, <3>1, SoloReturn DEF Unlock
    <3>2. CASE ~Unlock(t)
      BY <1>2, <2>3, <3>2, SoloIncLuaRefs, SoloDecLuaRefs, SoloCheckPending, SoloLuaReset,
         SoloRequestDelete, SoloRequestStartup, SoloCheckRefs, SoloLock, SoloDestroy,
         SoloCreate, SoloProtect, SoloLuaStartup, SoloRunCallback, SoloEndCallbacks,
         SoloWeird DEF Continue, LuaResetInternal
    <3> QED
      BY <3>1, <3>2
  <2>4. ASSUME NEW u \in Threads, users' \subseteq {u} PROVE Solo(u)'
    <3>1. u = t /\ users \subseteq {t}
      BY <2>1, <2>4
    <3> QED
      BY <2>3, <3>1 DEF SoloInv
  <2> QED
    BY <2>1, <2>2, <2>4 DEF SoloInv
<1> QED
  BY <1>1, <1>2 DEF Next

\* Both invariants are invariants of the specification.
LEMMA SoloInvariant == Spec => [](IInv /\ SoloInv)
BY InitInv, NextInv, SoloInit, SoloNext, PTL DEF Spec

\* With at most one user there is a thread to speak for the state, or it is untouched.
LEMMA OneUser ==
  ASSUME IInv, SoloInv, Cardinality(users) <= 1
  PROVE  (\E t \in Threads : Solo(t)) \/ (vm = "none" /\ callbacks = {})
<1>1. users \subseteq Threads /\ IsFiniteSet(users)
  BY LuaStateAssumption, FS_Subset DEF IInv, TypeOK
<1>2. CASE users = {}
  BY <1>2 DEF SoloInv
<1>3. CASE users # {}
  <2>1. PICK t : t \in users
    BY <1>3
  <2>2. Cardinality(users \ {t}) = Cardinality(users) - 1 /\ IsFiniteSet(users \ {t})
    BY <1>1, <2>1, FS_RemoveElement
  <2>3. Cardinality(users) \in Nat /\ Cardinality(users \ {t}) \in Nat
    BY <1>1, <2>2, FS_CardinalityType
  <2>4. Cardinality(users \ {t}) = 0
    BY <2>2, <2>3
  <2>5. users \ {t} = {}
    BY <2>2, <2>4, FS_EmptySet
  <2> QED
    BY <1>1, <2>1, <2>5 DEF SoloInv
<1> QED
  BY <1>2, <1>3

\* What is at or below the innermost frame is on the stack.
LEMMA OnStack ==
  ASSUME Typed, NEW t \in Threads, NEW labels,
         Below(t, labels) \/ \E l \in labels : At(t, l)
  PROVE  Within(labels)
<1>1. \A s \in Seq(Frames) : s # <<>> => Len(s) \in DOMAIN s /\ Last(s) = s[Len(s)]
  BY DEF Last
<1> QED
  BY <1>1 DEF Typed, Below, At, Within

\* As long as one thread uses the state, a VM that it is left with has had its bootstrap
\* scripts started: LuaPendingStartup is set whenever LuaResetInternal gets to look at it,
\* and LuaPendingDelete is not, so that the pin of LuaStartup is usable.
THEOREM Bootstraps == Spec => []BootstrapsRun
<1>1. IInv /\ SoloInv => BootstrapsRun
  <2> SUFFICES ASSUME IInv, SoloInv, Cardinality(users) <= 1, vm = "fresh"
               PROVE  Within(Resetting)
    BY DEF BootstrapsRun
  <2> USE Parts
  <2>1. PICK t \in Threads : Solo(t)
    BY OneUser
  <2>2. Starting(t)
    BY <2>1 DEF Solo
  <2>3. Within({"inc", "startup"})
    <3>1. \A i : stack[t][i] \in {"inc"} => stack[t][i] \in {"inc", "startup"}
      OBVIOUS
    <3>2. Below(t, {"inc"}) => Below(t, {"inc", "startup"})
      BY <3>1 DEF Below
    <3> QED
      BY <2>2, <3>2, OnStack DEF Starting
  <2> QED
    BY <2>3 DEF Within, Resetting
<1> QED
  BY <1>1, SoloInvariant, PTL

\* As long as one thread uses the state, a callback that is registered is never left
\* without a reset to come that runs or drops it.
THEOREM CallbacksRun == Spec => []CallbacksAwaitReset
<1>1. IInv /\ SoloInv => CallbacksAwaitReset
  <2> SUFFICES ASSUME IInv, SoloInv, Cardinality(users) <= 1, callbacks # {}, ~pendingDelete
               PROVE  Within(Asking \cup Resetting)
    BY DEF CallbacksAwaitReset
  <2> USE Parts
  <2>1. PICK t \in Threads : Solo(t)
    BY OneUser
  <2>2. Underway(t)
    BY <2>1 DEF Solo
  <2>3. {"inc", "callbacks"} \subseteq Asking \cup Resetting
    BY DEF Resetting
  <2>4. Below(t, {"inc", "callbacks"}) => Below(t, Asking \cup Resetting)
    BY <2>3 DEF Below
  <2> QED
    BY <2>2, <2>4, OnStack DEF Underway
<1> QED
  BY <1>1, SoloInvariant, PTL
=============================================================================
