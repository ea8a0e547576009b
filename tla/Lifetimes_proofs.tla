--------------------------- MODULE Lifetimes_proofs ---------------------------
(***************************************************************************)
(* Proofs about the lifetime pool and its pins, for words of any width,     *)
(* pools of any size and any number of salts.                               *)
(***************************************************************************)
EXTENDS Lifetimes, FiniteSetTheorems, WellFoundedInduction, TLAPS

USE DEF pool

-----------------------------------------------------------------------------
(* Arithmetic of slot addresses: the shifts and masks of Free undo those of *)
(* Allocate.                                                                *)

LEMMA DivMod ==
  ASSUME NEW B \in Nat \ {0}, NEW x \in Nat, NEW b \in 0 .. B - 1
  PROVE  (x * B + b) \div B = x /\ (x * B + b) % B = b
  BY Z3T(20)

LEMMA DivRange ==
  ASSUME NEW B \in Nat \ {0}, NEW n \in Nat, NEW s \in 0 .. n * B - 1
  PROVE  /\ s \div B \in 0 .. n - 1
         /\ s % B \in 0 .. B - 1
         /\ s = ((s \div B) * B) + (s % B)
  BY Z3T(20)

LEMMA MulRange ==
  ASSUME NEW B \in Nat \ {0}, NEW n \in Nat, NEW w \in 0 .. n - 1, NEW b \in 0 .. B - 1
  PROVE  w * B + b \in 0 .. n * B - 1
  BY Z3T(20)

LEMMA NextSalt ==
  ASSUME NEW s \in 0 .. Salts - 1
  PROVE  /\ (s + 1) % Salts = IF s + 1 = Salts THEN 0 ELSE s + 1
         /\ (s + 1) % Salts \in 0 .. Salts - 1
  BY LifetimesAssumption, Z3T(20)

(* Words and bits by number, and back.                                      *)
LEMMA Addresses ==
  /\ PageBits \in Nat \ {0} /\ RootWords \in Nat \ {0}
  /\ RootWords * PageBits \in Nat /\ RootWords * PageBits * PageBits \in Nat
  /\ \A w \in Words1, b \in Bits :
       /\ w * PageBits + b \in Words2
       /\ (w * PageBits + b) \div PageBits = w /\ (w * PageBits + b) % PageBits = b
  /\ \A w \in Words2, b \in Bits :
       /\ w * PageBits + b \in Words3
       /\ (w * PageBits + b) \div PageBits = w /\ (w * PageBits + b) % PageBits = b
  /\ \A w \in Words3, b \in Bits :
       /\ w * PageBits + b \in Slots
       /\ (w * PageBits + b) \div PageBits = w /\ (w * PageBits + b) % PageBits = b
  /\ \A w \in Words2 : w \div PageBits \in Words1 /\ w % PageBits \in Bits
                       /\ w = ((w \div PageBits) * PageBits) + (w % PageBits)
  /\ \A w \in Words3 : w \div PageBits \in Words2 /\ w % PageBits \in Bits
                       /\ w = ((w \div PageBits) * PageBits) + (w % PageBits)
  /\ \A s \in Slots : s \div PageBits \in Words3 /\ s % PageBits \in Bits
                       /\ s = ((s \div PageBits) * PageBits) + (s % PageBits)
<1>1. PageBits \in Nat \ {0} /\ RootWords \in Nat \ {0}
  BY LifetimesAssumption
<1>2. RootWords * PageBits \in Nat /\ RootWords * PageBits * PageBits \in Nat
  BY <1>1
<1>3. \A w \in Words1, b \in Bits :
       /\ w * PageBits + b \in Words2
       /\ (w * PageBits + b) \div PageBits = w /\ (w * PageBits + b) % PageBits = b
  BY <1>1, DivMod, MulRange DEF Words1, Words2, Bits
<1>4. \A w \in Words2, b \in Bits :
       /\ w * PageBits + b \in Words3
       /\ (w * PageBits + b) \div PageBits = w /\ (w * PageBits + b) % PageBits = b
  BY <1>1, <1>2, DivMod, MulRange DEF Words2, Words3, Bits
<1>5. \A w \in Words3, b \in Bits :
       /\ w * PageBits + b \in Slots
       /\ (w * PageBits + b) \div PageBits = w /\ (w * PageBits + b) % PageBits = b
  BY <1>1, <1>2, DivMod, MulRange DEF Words3, Slots, Bits
<1>6. \A w \in Words2 : w \div PageBits \in Words1 /\ w % PageBits \in Bits
                       /\ w = ((w \div PageBits) * PageBits) + (w % PageBits)
  BY <1>1, DivRange DEF Words1, Words2, Bits
<1>7. \A w \in Words3 : w \div PageBits \in Words2 /\ w % PageBits \in Bits
                       /\ w = ((w \div PageBits) * PageBits) + (w % PageBits)
  BY <1>1, <1>2, DivRange DEF Words2, Words3, Bits
<1>8. \A s \in Slots : s \div PageBits \in Words3 /\ s % PageBits \in Bits
                       /\ s = ((s \div PageBits) * PageBits) + (s % PageBits)
  BY <1>1, <1>2, DivRange DEF Words3, Slots, Bits
<1> QED
  BY <1>1, <1>2, <1>3, <1>4, <1>5, <1>6, <1>7, <1>8

(* A word's number and bit determine what is numbered.                      *)
LEMMA SameAddress ==
  /\ \A s, t \in Slots : s \div PageBits = t \div PageBits /\ s % PageBits = t % PageBits => s = t
  /\ \A v, w \in Words3 : v \div PageBits = w \div PageBits /\ v % PageBits = w % PageBits => v = w
  /\ \A v, w \in Words2 : v \div PageBits = w \div PageBits /\ v % PageBits = w % PageBits => v = w
  BY Addresses, Zenon

LEMMA LowestIn ==
  ASSUME NEW S \in SUBSET Nat, S # {}
  PROVE  Lowest(S) \in S
<1> DEFINE R == {ss \in Nat \X Nat : ss[1] < ss[2]}
<1>1. IsWellFoundedOn(R, Nat)
  BY NatLessThanWellFounded DEF OpToRel
<1>2. ASSUME NEW x \in S, NEW y \in S, y < x
      PROVE  <<y, x>> \in R
  <2>1. <<y, x>> \in Nat \X Nat
    OBVIOUS
  <2>2. <<y, x>>[1] = y /\ <<y, x>>[2] = x
    OBVIOUS
  <2> QED
    BY <1>2, <2>1, <2>2, Zenon
<1> HIDE DEF R
<1>3. PICK x \in S : \A y \in S : ~(<<y, x>> \in R)
  BY <1>1, WFMin
<1>4. \A y \in S : ~(y < x)
  BY <1>2, <1>3, Zenon
<1>5. \A y \in S : x <= y
  BY <1>4
<1> QED
  BY <1>5 DEF Lowest

-----------------------------------------------------------------------------
(* The scans of Allocate.                                                   *)

PoolTypes ==
  /\ l1 \in [Words1 -> SUBSET Bits]
  /\ l2 \in [Words2 -> SUBSET Bits]
  /\ l3 \in [Words3 -> SUBSET Bits]
  /\ alive \in [Slots -> BOOLEAN]
  /\ salt \in [Slots -> 0 .. Salts - 1]
  /\ uses \in [Slots -> 0 .. MaxUses]

(* They come upon a word with a bit at every level, and on a free slot.     *)
LEMMA Scan ==
  ASSUME PoolTypes, SummariesExact, HasFree
  PROVE  /\ W1 \in Words1 /\ B1 \in Bits /\ B1 \in l1[W1]
         /\ W2 \in Words2 /\ B2 \in Bits /\ B2 \in l2[W2]
         /\ W2 \div PageBits = W1 /\ W2 % PageBits = B1
         /\ W3 \in Words3 /\ B3 \in Bits /\ B3 \in l3[W3]
         /\ W3 \div PageBits = W2 /\ W3 % PageBits = B2
         /\ FreeSlot \in Slots /\ ~alive[FreeSlot]
         /\ FreeSlot \div PageBits = W3 /\ FreeSlot % PageBits = B3
<1>0. Words1 \in SUBSET Nat /\ Bits \in SUBSET Nat
  BY DEF Words1, Bits
<1>1. W1 \in Words1 /\ l1[W1] # {}
  <2>1. {w \in Words1 : l1[w] # {}} # {}
    BY DEF HasFree
  <2> QED
    BY <1>0, <2>1, LowestIn DEF W1
<1>2. B1 \in l1[W1] /\ B1 \in Bits
  <2>1. l1[W1] \in SUBSET Bits
    BY <1>1 DEF PoolTypes
  <2> QED
    BY <1>0, <1>1, <2>1, LowestIn DEF B1
<1>3. W2 \in Words2 /\ W2 \div PageBits = W1 /\ W2 % PageBits = B1
  BY <1>1, <1>2, Addresses, Zenon DEF W2
<1>4. l2[W2] # {}
  BY <1>2, <1>3 DEF SummariesExact
<1>5. B2 \in l2[W2] /\ B2 \in Bits
  <2>1. l2[W2] \in SUBSET Bits
    BY <1>3 DEF PoolTypes
  <2> QED
    BY <1>0, <1>4, <2>1, LowestIn DEF B2
<1>6. W3 \in Words3 /\ W3 \div PageBits = W2 /\ W3 % PageBits = B2
  BY <1>3, <1>5, Addresses, Zenon DEF W3
<1>7. l3[W3] # {}
  BY <1>5, <1>6 DEF SummariesExact
<1>8. B3 \in l3[W3] /\ B3 \in Bits
  <2>1. l3[W3] \in SUBSET Bits
    BY <1>6 DEF PoolTypes
  <2> QED
    BY <1>0, <1>7, <2>1, LowestIn DEF B3
<1>9. FreeSlot \in Slots /\ FreeSlot \div PageBits = W3 /\ FreeSlot % PageBits = B3
  BY <1>6, <1>8, Addresses, Zenon DEF FreeSlot
<1>10. ~alive[FreeSlot]
  BY <1>8, <1>9 DEF SummariesExact
<1> QED
  BY <1>1, <1>2, <1>3, <1>5, <1>6, <1>8, <1>9, <1>10

-----------------------------------------------------------------------------
(* Allocate and Free keep the bitmaps exact.                                *)

(* A step that flips one bit of level 3, and the bits above that this       *)
(* empties or fills.                                                        *)
LEMMA AllocateExact ==
  ASSUME PoolTypes, SummariesExact, HasFree, Allocate
  PROVE  PoolTypes' /\ SummariesExact'
<1>0. /\ W1 \in Words1 /\ B1 \in Bits /\ B1 \in l1[W1]
      /\ W2 \in Words2 /\ B2 \in Bits /\ B2 \in l2[W2]
      /\ W2 \div PageBits = W1 /\ W2 % PageBits = B1
      /\ W3 \in Words3 /\ B3 \in Bits /\ B3 \in l3[W3]
      /\ W3 \div PageBits = W2 /\ W3 % PageBits = B2
      /\ FreeSlot \in Slots /\ ~alive[FreeSlot]
      /\ FreeSlot \div PageBits = W3 /\ FreeSlot % PageBits = B3
  BY Scan
<1> DEFINE w1 == W1  b1 == B1  w2 == W2  b2 == B2  w3 == W3  b3 == B3  k == FreeSlot
<1>1. /\ l3' = [l3 EXCEPT ![w3] = @ \ {b3}]
      /\ l2' = IF l3[w3] = {b3} THEN [l2 EXCEPT ![w2] = @ \ {b2}] ELSE l2
      /\ l1' = IF l3[w3] = {b3} /\ l2[w2] = {b2} THEN [l1 EXCEPT ![w1] = @ \ {b1}] ELSE l1
      /\ alive' = [alive EXCEPT ![k] = TRUE]
      /\ salt' = [salt EXCEPT ![k] = (@ + 1) % Salts]
      /\ uses' = [uses EXCEPT ![k] = @ + 1]
      /\ uses[k] < MaxUses
  BY DEF Allocate, Acquire, Bounded
<1> HIDE DEF w1, b1, w2, b2, w3, b3, k
<1>2. /\ w1 \in Words1 /\ b1 \in Bits /\ b1 \in l1[w1]
      /\ w2 \in Words2 /\ b2 \in Bits /\ b2 \in l2[w2]
      /\ w2 \div PageBits = w1 /\ w2 % PageBits = b1
      /\ w3 \in Words3 /\ b3 \in Bits /\ b3 \in l3[w3]
      /\ w3 \div PageBits = w2 /\ w3 % PageBits = b2
      /\ k \in Slots /\ ~alive[k]
      /\ k \div PageBits = w3 /\ k % PageBits = b3
  BY <1>0 DEF w1, b1, w2, b2, w3, b3, k
<1>3. PoolTypes'
  <2>1. (salt[k] + 1) % Salts \in 0 .. Salts - 1
    BY <1>2, NextSalt DEF PoolTypes
  <2>2. uses[k] + 1 \in 0 .. MaxUses
    BY <1>1, <1>2, LifetimesAssumption DEF PoolTypes
  <2>3. l3' \in [Words3 -> SUBSET Bits]
    BY <1>1, <1>2 DEF PoolTypes
  <2>4. l2' \in [Words2 -> SUBSET Bits]
    BY <1>1, <1>2 DEF PoolTypes
  <2>5. l1' \in [Words1 -> SUBSET Bits]
    BY <1>1, <1>2 DEF PoolTypes
  <2> QED
    BY <1>1, <1>2, <2>1, <2>2, <2>3, <2>4, <2>5 DEF PoolTypes
<1>4. \A s \in Slots : (s % PageBits) \in l3'[s \div PageBits] <=> ~alive'[s]
  <2> SUFFICES ASSUME NEW s \in Slots
               PROVE  (s % PageBits) \in l3'[s \div PageBits] <=> ~alive'[s]
    OBVIOUS
  <2>1. s \div PageBits \in Words3
    BY Addresses
  <2>2. (s % PageBits) \in l3[s \div PageBits] <=> ~alive[s]
    BY DEF SummariesExact
  <2>3. CASE s = k
    BY <1>1, <1>2, <2>1, <2>3 DEF PoolTypes
  <2>4. CASE s # k
    <3>1. s \div PageBits # w3 \/ s % PageBits # b3
      BY <1>2, <2>4, SameAddress
    <3> QED
      BY <1>1, <1>2, <2>1, <2>2, <2>4, <3>1 DEF PoolTypes
  <2> QED
    BY <2>3, <2>4
<1>5. \A w \in Words3 : l3'[w] # {} <=> IF w = w3 THEN l3[w3] # {b3} ELSE l3[w] # {}
  BY <1>1, <1>2 DEF PoolTypes
<1>6. \A w \in Words3 : (w % PageBits) \in l2'[w \div PageBits] <=> l3'[w] # {}
  <2> SUFFICES ASSUME NEW w \in Words3
               PROVE  (w % PageBits) \in l2'[w \div PageBits] <=> l3'[w] # {}
    OBVIOUS
  <2>1. w \div PageBits \in Words2
    BY Addresses
  <2>2. (w % PageBits) \in l2[w \div PageBits] <=> l3[w] # {}
    BY DEF SummariesExact
  <2>3. CASE w = w3
    BY <1>1, <1>2, <1>5, <2>1, <2>3 DEF PoolTypes
  <2>4. CASE w # w3
    <3>1. w \div PageBits # w2 \/ w % PageBits # b2
      BY <1>2, <2>4, SameAddress
    <3> QED
      BY <1>1, <1>2, <1>5, <2>1, <2>2, <2>4, <3>1 DEF PoolTypes
  <2> QED
    BY <2>3, <2>4
<1>7. \A w \in Words2 : l2'[w] # {} <=>
         IF w = w2 THEN ~(l3[w3] = {b3} /\ l2[w2] = {b2}) ELSE l2[w] # {}
  BY <1>1, <1>2 DEF PoolTypes
<1>8. \A w \in Words2 : (w % PageBits) \in l1'[w \div PageBits] <=> l2'[w] # {}
  <2> SUFFICES ASSUME NEW w \in Words2
               PROVE  (w % PageBits) \in l1'[w \div PageBits] <=> l2'[w] # {}
    OBVIOUS
  <2>1. w \div PageBits \in Words1
    BY Addresses
  <2>2. (w % PageBits) \in l1[w \div PageBits] <=> l2[w] # {}
    BY DEF SummariesExact
  <2>3. CASE w = w2
    BY <1>1, <1>2, <1>7, <2>1, <2>3 DEF PoolTypes
  <2>4. CASE w # w2
    <3>1. w \div PageBits # w1 \/ w % PageBits # b1
      BY <1>2, <2>4, SameAddress
    <3> QED
      BY <1>1, <1>2, <1>7, <2>1, <2>2, <2>4, <3>1 DEF PoolTypes
  <2> QED
    BY <2>3, <2>4
<1> QED
  BY <1>3, <1>4, <1>6, <1>8 DEF SummariesExact

LEMMA FreeExact ==
  ASSUME PoolTypes, SummariesExact, NEW k \in Slots, alive[k], Free(k)
  PROVE  PoolTypes' /\ SummariesExact'
<1> DEFINE w3 == k \div PageBits  b3 == k % PageBits
           w2 == w3 \div PageBits  b2 == w3 % PageBits
           w1 == w2 \div PageBits  b1 == w2 % PageBits
<1>1. /\ l3' = [l3 EXCEPT ![w3] = @ \cup {b3}]
      /\ l2' = IF l3[w3] = {} THEN [l2 EXCEPT ![w2] = @ \cup {b2}] ELSE l2
      /\ l1' = IF l3[w3] = {} /\ l2[w2] = {} THEN [l1 EXCEPT ![w1] = @ \cup {b1}] ELSE l1
      /\ alive' = [alive EXCEPT ![k] = FALSE]
      /\ UNCHANGED <<salt, uses>>
  BY DEF Free
<1>2. /\ w3 \in Words3 /\ b3 \in Bits
      /\ w2 \in Words2 /\ b2 \in Bits
      /\ w1 \in Words1 /\ b1 \in Bits
  BY Addresses
<1>3. /\ k \div PageBits = w3 /\ k % PageBits = b3
      /\ w3 \div PageBits = w2 /\ w3 % PageBits = b2
      /\ w2 \div PageBits = w1 /\ w2 % PageBits = b1
  OBVIOUS
<1> HIDE DEF w1, b1, w2, b2, w3, b3
<1>4. PoolTypes'
  <2>1. l3' \in [Words3 -> SUBSET Bits]
    BY <1>1, <1>2 DEF PoolTypes
  <2>2. l2' \in [Words2 -> SUBSET Bits]
    BY <1>1, <1>2 DEF PoolTypes
  <2>3. l1' \in [Words1 -> SUBSET Bits]
    BY <1>1, <1>2 DEF PoolTypes
  <2> QED
    BY <1>1, <1>2, <2>1, <2>2, <2>3 DEF PoolTypes
<1>5. \A s \in Slots : (s % PageBits) \in l3'[s \div PageBits] <=> ~alive'[s]
  <2> SUFFICES ASSUME NEW s \in Slots
               PROVE  (s % PageBits) \in l3'[s \div PageBits] <=> ~alive'[s]
    OBVIOUS
  <2>1. s \div PageBits \in Words3
    BY Addresses
  <2>2. (s % PageBits) \in l3[s \div PageBits] <=> ~alive[s]
    BY DEF SummariesExact
  <2>3. CASE s = k
    BY <1>1, <1>2, <1>3, <2>1, <2>3 DEF PoolTypes
  <2>4. CASE s # k
    <3>1. s \div PageBits # w3 \/ s % PageBits # b3
      BY <1>3, <2>4, SameAddress
    <3> QED
      BY <1>1, <1>2, <2>1, <2>2, <2>4, <3>1 DEF PoolTypes
  <2> QED
    BY <2>3, <2>4
<1>6. \A w \in Words3 : l3'[w] # {} <=> w = w3 \/ l3[w] # {}
  BY <1>1, <1>2 DEF PoolTypes
<1>7. \A w \in Words3 : (w % PageBits) \in l2'[w \div PageBits] <=> l3'[w] # {}
  <2> SUFFICES ASSUME NEW w \in Words3
               PROVE  (w % PageBits) \in l2'[w \div PageBits] <=> l3'[w] # {}
    OBVIOUS
  <2>1. w \div PageBits \in Words2
    BY Addresses
  <2>2. (w % PageBits) \in l2[w \div PageBits] <=> l3[w] # {}
    BY DEF SummariesExact
  <2>3. CASE w = w3
    BY <1>1, <1>2, <1>3, <1>6, <2>1, <2>2, <2>3 DEF PoolTypes
  <2>4. CASE w # w3
    <3>1. w \div PageBits # w2 \/ w % PageBits # b2
      BY <1>2, <1>3, <2>4, SameAddress
    <3> QED
      BY <1>1, <1>2, <1>6, <2>1, <2>2, <2>4, <3>1 DEF PoolTypes
  <2> QED
    BY <2>3, <2>4
<1>8. \A w \in Words2 : l2'[w] # {} <=> (w = w2 /\ l3[w3] = {}) \/ l2[w] # {}
  BY <1>1, <1>2 DEF PoolTypes
<1>9. \A w \in Words2 : (w % PageBits) \in l1'[w \div PageBits] <=> l2'[w] # {}
  <2> SUFFICES ASSUME NEW w \in Words2
               PROVE  (w % PageBits) \in l1'[w \div PageBits] <=> l2'[w] # {}
    OBVIOUS
  <2>1. w \div PageBits \in Words1
    BY Addresses
  <2>2. (w % PageBits) \in l1[w \div PageBits] <=> l2[w] # {}
    BY DEF SummariesExact
  <2>3. CASE w = w2
    BY <1>1, <1>2, <1>3, <1>8, <2>1, <2>2, <2>3 DEF PoolTypes
  <2>4. CASE w # w2
    <3>1. w \div PageBits # w1 \/ w % PageBits # b1
      BY <1>2, <1>3, <2>4, SameAddress
    <3> QED
      BY <1>1, <1>2, <1>8, <2>1, <2>2, <2>4, <3>1 DEF PoolTypes
  <2> QED
    BY <2>3, <2>4
<1> QED
  BY <1>4, <1>5, <1>7, <1>9 DEF SummariesExact

-----------------------------------------------------------------------------
(* Holders.                                                                 *)

(* A holder's handle resolves, and means the present use of its slot.       *)
Kept(l) ==
  /\ ~IsNull(l) /\ alive[l.index]
  /\ salt[l.index] = l.salt /\ uses[l.index] = l.n

(* A proxy's salt lags behind that of its slot as its use does, modulo the  *)
(* number of salts; it never lags a whole round.                            *)
Counted(r) ==
  \/ r = Null
  \/ /\ 1 <= r.n /\ r.n <= uses[r.index] /\ uses[r.index] - r.n < Salts
     /\ \/ salt[r.index] - r.salt = uses[r.index] - r.n
        \/ salt[r.index] - r.salt = uses[r.index] - r.n - Salts

(* The same after a step, for a lifetime named before it.                   *)
KeptNext(l) ==
  /\ ~IsNull(l) /\ alive'[l.index]
  /\ salt'[l.index] = l.salt /\ uses'[l.index] = l.n

CountedNext(r) ==
  \/ r = Null
  \/ /\ 1 <= r.n /\ r.n <= uses'[r.index] /\ uses'[r.index] - r.n < Salts
     /\ \/ salt'[r.index] - r.salt = uses'[r.index] - r.n
        \/ salt'[r.index] - r.salt = uses'[r.index] - r.n - Salts

(* Slot 0 is the state's, every other slot in use has a holder of its own.  *)
Holders ==
  /\ global = Global
  /\ phase # "open" => frames = <<>>
  /\ phase = "gone" => owners = {} /\ refs = {}
  /\ phase = "open" => Kept(global)
  /\ \A o \in owners : Kept(o) /\ o.index # 0
  /\ \A i \in DOMAIN frames :
       IF frames[i].kills
       THEN frames[i].lifetime = Null \/ (Kept(frames[i].lifetime) /\ frames[i].lifetime.index # 0)
       ELSE frames[i].lifetime = global
  /\ \A i, j \in DOMAIN frames :
       frames[i].kills /\ frames[j].kills /\ i # j
         /\ frames[i].lifetime.index = frames[j].lifetime.index
       => frames[i].lifetime = Null
  /\ \A i \in DOMAIN frames, o \in owners :
       frames[i].kills => frames[i].lifetime.index # o.index
  /\ \A s \in Slots : alive[s] =>
       /\ uses[s] >= 1
       /\ \/ phase = "open" /\ s = 0
          \/ s # 0 /\ \E o \in owners : o.index = s
          \/ s # 0 /\ \E i \in DOMAIN frames : frames[i].kills /\ frames[i].lifetime.index = s
  /\ \A r \in refs : Counted(r)

(* The inductive invariant.                                                 *)
IInv == TypeOK /\ SummariesExact /\ Holders

Frame == [lifetime : Lifetime, kills : BOOLEAN]

LEMMA SameLifetime ==
  ASSUME NEW l \in Lifetime, NEW r \in Lifetime,
         l.index = r.index, l.salt = r.salt, l.n = r.n
  PROVE  l = r
<1>1. l = [index |-> l.index, salt |-> l.salt, n |-> l.n]
  BY DEF Lifetime
<1>2. r = [index |-> r.index, salt |-> r.salt, n |-> r.n]
  BY DEF Lifetime
<1> QED
  BY <1>1, <1>2, Zenon

LEMMA FrameParts ==
  ASSUME NEW t \in Seq(Frame), NEW i \in DOMAIN t
  PROVE  t[i] \in Frame /\ t[i].lifetime \in Lifetime /\ t[i].kills \in BOOLEAN
<1>1. t[i] \in Frame
  OBVIOUS
<1> QED
  BY <1>1 DEF Frame

LEMMA Append1 ==
  ASSUME NEW f \in Frame, frames \in Seq(Frame)
  PROVE  LET t == Append(frames, f) IN
         /\ t \in Seq(Frame) /\ DOMAIN t = DOMAIN frames \cup {Len(frames) + 1}
         /\ Len(frames) + 1 \notin DOMAIN frames
         /\ t[Len(frames) + 1] = f /\ \A i \in DOMAIN frames : t[i] = frames[i]
  OBVIOUS

LEMMA Pop1 ==
  ASSUME frames \in Seq(Frame), frames # <<>>
  PROVE  /\ Pop \in Seq(Frame) /\ Len(frames) \in DOMAIN frames
         /\ DOMAIN Pop = DOMAIN frames \ {Len(frames)}
         /\ \A i \in DOMAIN Pop : Pop[i] = frames[i]
         /\ frames[Len(frames)] \in Frame
<1>1. Len(frames) \in Nat /\ Len(frames) > 0 /\ DOMAIN frames = 1 .. Len(frames)
  OBVIOUS
<1>2. /\ Pop \in Seq(Frame) /\ Len(Pop) = Len(frames) - 1
      /\ \A i \in 1 .. Len(frames) - 1 : Pop[i] = frames[i]
  BY <1>1 DEF Pop
<1>3. DOMAIN Pop = 1 .. Len(frames) - 1
  BY <1>1, <1>2
<1>4. DOMAIN Pop = DOMAIN frames \ {Len(frames)}
  BY <1>1, <1>3
<1>5. Len(frames) \in DOMAIN frames /\ frames[Len(frames)] \in Frame
  BY <1>1
<1> QED
  BY <1>2, <1>3, <1>4, <1>5

LEMMA Zero ==
  /\ 0 \in Slots /\ Null \in Lifetime /\ Global \in Lifetime
  /\ Global.index = 0 /\ ~IsNull(Global) /\ Global # Null /\ Null.index = 0 /\ IsNull(Null)
<1>1. RootWords * PageBits * PageBits * PageBits \in Nat \ {0}
  <2>1. PageBits \in Nat \ {0} /\ RootWords \in Nat \ {0}
    BY LifetimesAssumption
  <2>2. \A x, y \in Nat \ {0} : x * y \in Nat \ {0}
    BY Z3T(20)
  <2>3. RootWords * PageBits \in Nat \ {0}
    BY <2>1, <2>2
  <2>4. RootWords * PageBits * PageBits \in Nat \ {0}
    BY <2>1, <2>2, <2>3
  <2> QED
    BY <2>1, <2>2, <2>4
<1> QED
  BY <1>1, LifetimesAssumption DEF Slots, Null, Global, Lifetime, IsNull

LEMMA Split == TypeOK <=> /\ PoolTypes
                         /\ phase \in {"open", "closing", "gone"}
                         /\ global \in Lifetime
                         /\ frames \in Seq(Frame)
                         /\ owners \in SUBSET Lifetime
                         /\ refs \in SUBSET Lifetime
  BY DEF TypeOK, PoolTypes, Frame

LEMMA SplitNext == TypeOK' <=> /\ PoolTypes'
                         /\ phase' \in {"open", "closing", "gone"}
                         /\ global' \in Lifetime
                         /\ frames' \in Seq(Frame)
                         /\ owners' \in SUBSET Lifetime
                         /\ refs' \in SUBSET Lifetime
  BY DEF TypeOK, PoolTypes, Frame

(* What the holders of other slots see of an allocation ...                 *)
LEMMA AllocateKeeps ==
  ASSUME IInv, phase = "open", HasFree, Allocate
  PROVE  /\ PoolTypes' /\ SummariesExact'
         /\ Allocated \in Lifetime /\ Allocated.index # 0 /\ ~alive[Allocated.index]
         /\ alive' = [alive EXCEPT ![Allocated.index] = TRUE]
         /\ KeptNext(Allocated)
         /\ \A s \in Slots : uses'[s] >= uses[s] /\ (s = Allocated.index => uses'[s] >= 1)
         /\ \A l \in Lifetime : Kept(l) => KeptNext(l) /\ l.index # Allocated.index
         /\ \A r \in refs : CountedNext(r)
<1> DEFINE k == FreeSlot
           a == Allocated
<1>1. PoolTypes /\ refs \in SUBSET Lifetime /\ SummariesExact
  BY Split DEF IInv
<1>2. k \in Slots /\ ~alive[k]
  BY <1>1, Scan
<1>3. /\ alive' = [alive EXCEPT ![k] = TRUE]
      /\ salt' = [salt EXCEPT ![k] = (salt[k] + 1) % Salts]
      /\ uses' = [uses EXCEPT ![k] = uses[k] + 1]
      /\ uses[k] < MaxUses
      /\ \A r \in refs : r.index = k => uses[k] + 1 - r.n < Salts
      /\ a = [index |-> k, salt |-> (salt[k] + 1) % Salts, n |-> uses[k] + 1]
  BY DEF Allocate, Acquire, Bounded, Distinct, Allocated
<1>4. k # 0
  BY <1>2, Zero DEF IInv, Holders, Kept
<1>5. PoolTypes' /\ SummariesExact'
  BY <1>1, AllocateExact
<1> HIDE DEF k, a
<1>6. /\ salt[k] \in 0 .. Salts - 1 /\ uses[k] \in 0 .. MaxUses
      /\ (salt[k] + 1) % Salts = IF salt[k] + 1 = Salts THEN 0 ELSE salt[k] + 1
      /\ (salt[k] + 1) % Salts \in 0 .. Salts - 1
  BY <1>1, <1>2, NextSalt DEF PoolTypes
<1>7. a \in Lifetime /\ a.index = k
  BY <1>2, <1>3, <1>6, LifetimesAssumption DEF Lifetime
<1>8. KeptNext(a)
  BY <1>1, <1>2, <1>3, <1>4, <1>6 DEF PoolTypes, KeptNext, IsNull
<1>9. \A s \in Slots : uses'[s] >= uses[s] /\ (s = k => uses'[s] >= 1)
  BY <1>1, <1>2, <1>3, <1>6, LifetimesAssumption DEF PoolTypes
<1>10. \A l \in Lifetime : Kept(l) => KeptNext(l) /\ l.index # k
  BY <1>1, <1>2, <1>3 DEF PoolTypes, Kept, KeptNext, Lifetime
<1>11. ASSUME NEW r \in refs
       PROVE  CountedNext(r)
  <2>1. /\ r.index \in Slots /\ r.salt \in 0 .. Salts - 1 /\ r.n \in Int
        /\ salt[r.index] \in 0 .. Salts - 1 /\ uses[r.index] \in 0 .. MaxUses /\ Salts \in Int
    BY <1>1, LifetimesAssumption DEF PoolTypes, Lifetime
  <2>2. Counted(r)
    BY DEF IInv, Holders
  <2>3. CASE r.index = k
    <3>1. /\ uses'[r.index] = uses[r.index] + 1
          /\ salt'[r.index] = IF salt[r.index] + 1 = Salts THEN 0 ELSE salt[r.index] + 1
      BY <1>1, <1>2, <1>3, <1>6, <2>3 DEF PoolTypes
    <3>2. CASE r = Null
      BY <2>2, <3>2 DEF CountedNext
    <3>3. CASE r # Null
      <4>1. /\ 1 <= r.n /\ r.n <= uses[r.index] /\ uses[r.index] + 1 - r.n < Salts
            /\ \/ salt[r.index] - r.salt = uses[r.index] - r.n
               \/ salt[r.index] - r.salt = uses[r.index] - r.n - Salts
        BY <1>3, <2>2, <2>3, <3>3 DEF Counted
      <4>2. /\ 1 <= r.n /\ r.n <= uses'[r.index] /\ uses'[r.index] - r.n < Salts
            /\ \/ salt'[r.index] - r.salt = uses'[r.index] - r.n
               \/ salt'[r.index] - r.salt = uses'[r.index] - r.n - Salts
        BY <2>1, <3>1, <4>1
      <4> QED
        BY <4>2 DEF CountedNext
    <3> QED
      BY <3>2, <3>3
  <2>4. CASE r.index # k
    <3>1. uses'[r.index] = uses[r.index] /\ salt'[r.index] = salt[r.index]
      BY <1>1, <1>2, <1>3, <2>1, <2>4 DEF PoolTypes
    <3> QED
      BY <2>2, <3>1 DEF Counted, CountedNext
  <2> QED
    BY <2>3, <2>4
<1> QED
  BY <1>2, <1>3, <1>4, <1>5, <1>7, <1>8, <1>9, <1>10, <1>11 DEF a

(* ... and of a release.                                                    *)
LEMMA ReleaseKeeps ==
  ASSUME IInv, NEW h \in Lifetime, Kept(h), Release(h)
  PROVE  /\ PoolTypes' /\ SummariesExact'
         /\ alive' = [alive EXCEPT ![h.index] = FALSE] /\ UNCHANGED <<salt, uses>>
         /\ \A l \in Lifetime : Kept(l) /\ l.index # h.index => KeptNext(l)
         /\ \A r \in refs : CountedNext(r)
<1>1. PoolTypes /\ SummariesExact /\ h.index \in Slots /\ alive[h.index]
  BY Split DEF IInv, Lifetime, Kept
<1>2. Free(h.index)
  BY DEF Release, Kept, Resolves
<1>3. PoolTypes' /\ SummariesExact'
  BY <1>1, <1>2, FreeExact
<1>4. alive' = [alive EXCEPT ![h.index] = FALSE] /\ UNCHANGED <<salt, uses>>
  BY <1>2 DEF Free
<1>5. \A l \in Lifetime : Kept(l) /\ l.index # h.index => KeptNext(l)
  BY <1>1, <1>4 DEF PoolTypes, Kept, KeptNext, Lifetime
<1>6. \A r \in refs : CountedNext(r)
  BY <1>4 DEF IInv, Holders, Counted, CountedNext
<1> QED
  BY <1>3, <1>4, <1>5, <1>6

-----------------------------------------------------------------------------
(* Init, and every step, establish the invariant.                           *)

LEMMA Fresh ==
  /\ Fresh1 \in [Words1 -> SUBSET Bits]
  /\ Fresh2 \in [Words2 -> SUBSET Bits]
  /\ Fresh3 \in [Words3 -> SUBSET Bits]
  /\ FreshAlive \in [Slots -> BOOLEAN]
  /\ FreshUses \in [Slots -> 0 .. Salts - 1]
  /\ FreshUses \in [Slots -> 0 .. MaxUses]
  /\ \A s \in Slots : (s % PageBits) \in Fresh3[s \div PageBits] <=> ~FreshAlive[s]
  /\ \A w \in Words3 : (w % PageBits) \in Fresh2[w \div PageBits] <=> Fresh3[w] # {}
  /\ \A w \in Words2 : (w % PageBits) \in Fresh1[w \div PageBits] <=> Fresh2[w] # {}
<1>1. 0 \in Bits /\ 1 \in Bits
  BY LifetimesAssumption DEF Bits
<1>2. \A s \in Slots : (s % PageBits) \in Fresh3[s \div PageBits] <=> ~FreshAlive[s]
  <2> SUFFICES ASSUME NEW s \in Slots
               PROVE  (s % PageBits) \in Fresh3[s \div PageBits] <=> ~FreshAlive[s]
    OBVIOUS
  <2>1. /\ s \div PageBits \in Words3 /\ s % PageBits \in Bits
        /\ s = ((s \div PageBits) * PageBits) + (s % PageBits)
    BY Addresses
  <2>2. PageBits \in Nat \ {0}
    BY LifetimesAssumption
  <2>3. s = 0 <=> s \div PageBits = 0 /\ s % PageBits = 0
    <3>1. s = 0 => s \div PageBits = 0 /\ s % PageBits = 0
      BY <2>2, Z3
    <3>2. s \div PageBits = 0 /\ s % PageBits = 0 => s = 0
      BY <2>1, <2>2, Z3
    <3> QED
      BY <3>1, <3>2
  <2> QED
    BY <2>1, <2>3 DEF Fresh3, FreshAlive, Global
<1>3. \A w \in Words3 : Fresh3[w] # {}
  BY <1>1 DEF Fresh3
<1>4. \A w \in Words2 : Fresh2[w] # {}
  BY <1>1 DEF Fresh2
<1>5. /\ Fresh1 \in [Words1 -> SUBSET Bits] /\ Fresh2 \in [Words2 -> SUBSET Bits]
      /\ Fresh3 \in [Words3 -> SUBSET Bits]
  BY DEF Fresh1, Fresh2, Fresh3
<1>6. /\ FreshAlive \in [Slots -> BOOLEAN] /\ FreshUses \in [Slots -> 0 .. Salts - 1]
      /\ FreshUses \in [Slots -> 0 .. MaxUses]
  BY LifetimesAssumption DEF FreshAlive, FreshUses
<1>7. \A w \in Words3 : (w % PageBits) \in Fresh2[w \div PageBits]
  BY Addresses DEF Fresh2
<1>8. \A w \in Words2 : (w % PageBits) \in Fresh1[w \div PageBits]
  BY Addresses DEF Fresh1
<1> QED
  BY <1>2, <1>3, <1>4, <1>5, <1>6, <1>7, <1>8

LEMMA InitInv == Init => IInv
<1> SUFFICES ASSUME Init PROVE IInv
  OBVIOUS
<1>1. TypeOK
  BY Fresh, Zero DEF Init, TypeOK
<1>2. SummariesExact
  BY Fresh DEF Init, SummariesExact
<1>3. Holders
  <2>1. Kept(global)
    BY Zero DEF Init, Kept, FreshAlive, FreshUses, Global
  <2>2. \A s \in Slots : alive[s] => uses[s] >= 1 /\ s = 0
    BY Zero DEF Init, FreshAlive, FreshUses
  <2> QED
    BY <2>1, <2>2 DEF Init, Holders
<1> QED
  BY <1>1, <1>2, <1>3 DEF IInv

(* Pushing a frame without a lifetime of its own.                           *)
LEMMA PushedInv ==
  ASSUME IInv, phase = "open", NEW f \in Frame, frames' = Append(frames, f),
         IF f.kills THEN f.lifetime = Null ELSE f.lifetime = global,
         UNCHANGED <<pool, phase, global, owners, refs>>
  PROVE  IInv'
<1>1. /\ PoolTypes /\ frames \in Seq(Frame) /\ SummariesExact /\ Holders
  BY Split DEF IInv
<1>2. /\ frames' \in Seq(Frame) /\ DOMAIN frames' = DOMAIN frames \cup {Len(frames) + 1}
      /\ Len(frames) + 1 \notin DOMAIN frames
      /\ frames'[Len(frames) + 1] = f /\ \A i \in DOMAIN frames : frames'[i] = frames[i]
  BY <1>1, Append1
<1>3. TypeOK' /\ SummariesExact'
  BY <1>1, <1>2, Split, SplitNext DEF IInv, PoolTypes, SummariesExact
<1>4. Holders'
  <2>1. \A i \in DOMAIN frames' :
       IF frames'[i].kills
       THEN frames'[i].lifetime = Null \/ (Kept(frames'[i].lifetime) /\ frames'[i].lifetime.index # 0)
       ELSE frames'[i].lifetime = global
    BY <1>1, <1>2 DEF Holders
  <2>2. \A i, j \in DOMAIN frames' :
       frames'[i].kills /\ frames'[j].kills /\ i # j
         /\ frames'[i].lifetime.index = frames'[j].lifetime.index
       => frames'[i].lifetime = Null
    BY <1>1, <1>2, Zero DEF Holders
  <2>3. \A i \in DOMAIN frames', o \in owners :
       frames'[i].kills => frames'[i].lifetime.index # o.index
    BY <1>1, <1>2, Zero DEF Holders
  <2> QED
    BY <1>1, <1>2, <2>1, <2>2, <2>3 DEF Holders, Kept, Counted
<1> QED
  BY <1>3, <1>4 DEF IInv

LEMMA EnterCallInv == IInv /\ EnterCall => IInv'
<1> SUFFICES ASSUME IInv, EnterCall PROVE IInv'
  OBVIOUS
<1>0. /\ PoolTypes /\ frames \in Seq(Frame) /\ refs \in SUBSET Lifetime
      /\ owners \in SUBSET Lifetime /\ global \in Lifetime
      /\ phase = "open" /\ phase' = "open"
      /\ global' = global /\ owners' = owners /\ refs' = refs
      /\ SummariesExact /\ Holders
  BY Split DEF EnterCall, IInv
<1>1. CASE HasFree /\ Allocate /\ Push(Allocated, TRUE)
  <2> DEFINE a == Allocated
             f == [lifetime |-> a, kills |-> TRUE]
  <2>1. /\ PoolTypes' /\ SummariesExact'
        /\ a \in Lifetime /\ a.index # 0 /\ ~alive[a.index]
        /\ alive' = [alive EXCEPT ![a.index] = TRUE]
        /\ KeptNext(a)
        /\ \A s \in Slots : uses'[s] >= uses[s] /\ (s = a.index => uses'[s] >= 1)
        /\ \A l \in Lifetime : Kept(l) => KeptNext(l) /\ l.index # a.index
        /\ \A r \in refs : CountedNext(r)
    BY <1>0, <1>1, AllocateKeeps
  <2>2. frames' = Append(frames, f)
    BY <1>1 DEF Push
  <2> HIDE DEF a
  <2>3. f \in Frame /\ f.lifetime = a /\ f.kills
    BY <2>1 DEF Frame
  <2> HIDE DEF f
  <2>4. /\ frames' \in Seq(Frame) /\ DOMAIN frames' = DOMAIN frames \cup {Len(frames) + 1}
        /\ Len(frames) + 1 \notin DOMAIN frames
        /\ frames'[Len(frames) + 1] = f /\ \A i \in DOMAIN frames : frames'[i] = frames[i]
    BY <1>0, <2>2, <2>3, Append1
  <2>5. TypeOK'
    BY <1>0, <2>1, <2>4, SplitNext
  <2>6. Holders'
    <3>0. \A i \in DOMAIN frames : frames[i] \in Frame /\ frames[i].lifetime \in Lifetime
      BY <1>0, FrameParts
    <3>1. KeptNext(global)
      BY <1>0, <2>1 DEF Holders
    <3>2. \A o \in owners : KeptNext(o) /\ o.index # 0 /\ o.index # a.index
      BY <1>0, <2>1 DEF Holders
    <3>3. \A i \in DOMAIN frames :
            IF frames[i].kills
            THEN \/ frames[i].lifetime = Null
                 \/ /\ KeptNext(frames[i].lifetime) /\ frames[i].lifetime.index # 0
                    /\ frames[i].lifetime.index # a.index
            ELSE frames[i].lifetime = global
      BY <1>0, <2>1, <3>0 DEF Holders
    <3>4. \A i \in DOMAIN frames : frames[i].kills => frames[i].lifetime.index # a.index
      BY <2>1, <3>3, Zero
    <3>5. \A i, j \in DOMAIN frames' :
            frames'[i].kills /\ frames'[j].kills /\ i # j
              /\ frames'[i].lifetime.index = frames'[j].lifetime.index
            => frames'[i].lifetime = Null
      BY <1>0, <2>3, <2>4, <3>4 DEF Holders
    <3>6. \A i \in DOMAIN frames', o \in owners :
            frames'[i].kills => frames'[i].lifetime.index # o.index
      BY <1>0, <2>3, <2>4, <3>2 DEF Holders
    <3>7. \A i \in DOMAIN frames' :
            IF frames'[i].kills
            THEN \/ frames'[i].lifetime = Null
                 \/ KeptNext(frames'[i].lifetime) /\ frames'[i].lifetime.index # 0
            ELSE frames'[i].lifetime = global
      BY <2>1, <2>3, <2>4, <3>3
    <3>8. \A s \in Slots : alive'[s] =>
            /\ uses'[s] >= 1
            /\ \/ s = 0
               \/ s # 0 /\ \E o \in owners : o.index = s
               \/ s # 0 /\ \E i \in DOMAIN frames' :
                             frames'[i].kills /\ frames'[i].lifetime.index = s
      <4> SUFFICES ASSUME NEW s \in Slots, alive'[s]
                   PROVE  /\ uses'[s] >= 1
                          /\ \/ s = 0
                             \/ s # 0 /\ \E o \in owners : o.index = s
                             \/ s # 0 /\ \E i \in DOMAIN frames' :
                                     frames'[i].kills /\ frames'[i].lifetime.index = s
        OBVIOUS
      <4>1. CASE s = a.index
        BY <2>1, <2>3, <2>4, <4>1
      <4>2. CASE s # a.index
        <5>1. alive[s]
          BY <1>0, <2>1, <4>2 DEF PoolTypes
        <5>2. uses'[s] >= 1
          BY <1>0, <2>1, <5>1 DEF Holders, PoolTypes
        <5> QED
          BY <1>0, <2>4, <5>1, <5>2 DEF Holders
      <4> QED
        BY <4>1, <4>2
    <3> QED
      BY <1>0, <2>1, <3>1, <3>2, <3>5, <3>6, <3>7, <3>8
         DEF Holders, Kept, KeptNext, Counted, CountedNext
  <2> QED
    BY <2>1, <2>5, <2>6 DEF IInv
<1>2. CASE Push(Null, TRUE) /\ UNCHANGED pool
  BY <1>0, <1>2, PushedInv, Zero DEF Frame, Push
<1> QED
  BY <1>1, <1>2 DEF EnterCall

LEMMA EnterCommandInv == IInv /\ EnterCommand => IInv'
  BY PushedInv, Split DEF EnterCommand, Push, Frame, IInv, Holders

(* Popping a frame that had no lifetime of its own.                         *)
LEMMA PoppedInv ==
  ASSUME IInv, frames # <<>>, frames' = Pop, UNCHANGED <<pool, phase, global, owners, refs>>,
         LET f == frames[Len(frames)] IN f.kills => f.lifetime = Null
  PROVE  IInv'
<1>1. /\ PoolTypes /\ frames \in Seq(Frame) /\ SummariesExact /\ Holders
  BY Split DEF IInv
<1>2. /\ Pop \in Seq(Frame) /\ Len(frames) \in DOMAIN frames
      /\ DOMAIN Pop = DOMAIN frames \ {Len(frames)}
      /\ \A i \in DOMAIN Pop : Pop[i] = frames[i]
  BY <1>1, Pop1
<1>3. TypeOK' /\ SummariesExact'
  BY <1>1, <1>2, Split, SplitNext DEF IInv, PoolTypes, SummariesExact
<1>4. Holders'
  <2>1. \A s \in Slots : alive[s] =>
            /\ uses[s] >= 1
            /\ \/ phase = "open" /\ s = 0
               \/ s # 0 /\ \E o \in owners : o.index = s
               \/ s # 0 /\ \E i \in DOMAIN Pop : Pop[i].kills /\ Pop[i].lifetime.index = s
    BY <1>1, <1>2, Zero DEF Holders
  <2> QED
    BY <1>1, <1>2, <2>1 DEF Holders, Kept, Counted
<1> QED
  BY <1>3, <1>4 DEF IInv

LEMMA LeaveInv == IInv /\ Leave => IInv'
<1> SUFFICES ASSUME IInv, Leave PROVE IInv'
  OBVIOUS
<1>1. /\ PoolTypes /\ frames \in Seq(Frame) /\ refs \in SUBSET Lifetime
      /\ owners \in SUBSET Lifetime /\ global \in Lifetime /\ SummariesExact /\ Holders
      /\ frames # <<>> /\ frames' = Pop
      /\ UNCHANGED <<phase, global, owners, refs>>
  BY Split DEF IInv, Leave
<1> DEFINE n == Len(frames)
           f == frames[n]
<1>2. /\ Pop \in Seq(Frame) /\ n \in DOMAIN frames
      /\ DOMAIN Pop = DOMAIN frames \ {n}
      /\ \A i \in DOMAIN Pop : Pop[i] = frames[i]
      /\ f \in Frame /\ f.lifetime \in Lifetime
  BY <1>1, Pop1, FrameParts
<1>3. CASE ~f.kills
  BY <1>1, <1>3, PoppedInv DEF Leave
<1>4. CASE f.kills /\ f.lifetime = Null
  <2>1. UNCHANGED pool
    BY <1>4, Zero DEF Leave, Release, Resolves, Top
  <2> QED
    BY <1>1, <1>4, <2>1, PoppedInv
<1>5. CASE f.kills /\ f.lifetime # Null
  <2> DEFINE h == f.lifetime
  <2>1. Kept(h) /\ h.index # 0
    BY <1>1, <1>2, <1>5 DEF Holders
  <2>2. Release(h)
    BY <1>5 DEF Leave, Top
  <2> HIDE DEF h
  <2>3. /\ PoolTypes' /\ SummariesExact'
        /\ alive' = [alive EXCEPT ![h.index] = FALSE] /\ UNCHANGED <<salt, uses>>
        /\ \A l \in Lifetime : Kept(l) /\ l.index # h.index => KeptNext(l)
        /\ \A r \in refs : CountedNext(r)
    BY <1>2, <2>1, <2>2, ReleaseKeeps DEF h
  <2>4. TypeOK'
    BY <1>1, <1>2, <2>3, Split, SplitNext DEF IInv
  <2>5. Holders'
    <3>1. phase = "open" /\ phase' = "open" /\ KeptNext(global)
      BY <1>1, <2>1, <2>3, Zero DEF Holders
    <3>2. \A o \in owners : KeptNext(o) /\ o.index # 0
      BY <1>1, <1>2, <1>5, <2>3 DEF Holders, h
    <3>3. \A i \in DOMAIN Pop : frames[i].kills => frames[i].lifetime.index # h.index
      BY <1>1, <1>2, <1>5, <2>1, Zero DEF Holders, h
    <3>4. \A i \in DOMAIN Pop :
            IF frames[i].kills
            THEN \/ frames[i].lifetime = Null
                 \/ KeptNext(frames[i].lifetime) /\ frames[i].lifetime.index # 0
            ELSE frames[i].lifetime = global
      BY <1>1, <1>2, <2>3, <3>3, FrameParts DEF Holders
    <3>5. \A s \in Slots : alive'[s] =>
            /\ uses'[s] >= 1
            /\ \/ s = 0
               \/ s # 0 /\ \E o \in owners : o.index = s
               \/ s # 0 /\ \E i \in DOMAIN Pop : Pop[i].kills /\ Pop[i].lifetime.index = s
      <4> SUFFICES ASSUME NEW s \in Slots, alive'[s]
                   PROVE  /\ uses'[s] >= 1
                          /\ \/ s = 0
                             \/ s # 0 /\ \E o \in owners : o.index = s
                             \/ s # 0 /\ \E i \in DOMAIN Pop :
                                     Pop[i].kills /\ Pop[i].lifetime.index = s
        OBVIOUS
      <4>1. alive[s] /\ s # h.index
        BY <1>1, <2>3 DEF PoolTypes
      <4> QED
        BY <1>1, <1>2, <1>5, <2>3, <4>1 DEF Holders, h
    <3> QED
      BY <1>1, <1>2, <2>3, <3>1, <3>2, <3>4, <3>5
         DEF Holders, Kept, KeptNext, Counted, CountedNext
  <2> QED
    BY <2>3, <2>4, <2>5 DEF IInv
<1> QED
  BY <1>3, <1>4, <1>5

LEMMA NewOwnerInv == IInv /\ NewOwner => IInv'
<1> SUFFICES ASSUME IInv, NewOwner PROVE IInv'
  OBVIOUS
<1> DEFINE a == Allocated
<1>1. /\ PoolTypes /\ frames \in Seq(Frame) /\ refs \in SUBSET Lifetime
      /\ owners \in SUBSET Lifetime /\ global \in Lifetime /\ SummariesExact /\ Holders
      /\ phase = "open" /\ owners' = owners \cup {a}
      /\ UNCHANGED <<phase, global, frames, refs>>
  BY Split DEF IInv, NewOwner
<1>2. /\ PoolTypes' /\ SummariesExact'
      /\ a \in Lifetime /\ a.index # 0 /\ ~alive[a.index]
      /\ alive' = [alive EXCEPT ![a.index] = TRUE]
      /\ KeptNext(a)
      /\ \A s \in Slots : uses'[s] >= uses[s] /\ (s = a.index => uses'[s] >= 1)
      /\ \A l \in Lifetime : Kept(l) => KeptNext(l) /\ l.index # a.index
      /\ \A r \in refs : CountedNext(r)
  BY <1>1, AllocateKeeps DEF NewOwner
<1> HIDE DEF a
<1>3. TypeOK'
  BY <1>1, <1>2, SplitNext
<1>4. Holders'
  <2>1. KeptNext(global)
    BY <1>1, <1>2 DEF Holders
  <2>2. \A o \in owners' : KeptNext(o) /\ o.index # 0
    BY <1>1, <1>2 DEF Holders
  <2>3. \A i \in DOMAIN frames :
          IF frames[i].kills
          THEN \/ frames[i].lifetime = Null
               \/ /\ KeptNext(frames[i].lifetime) /\ frames[i].lifetime.index # 0
                  /\ frames[i].lifetime.index # a.index
          ELSE frames[i].lifetime = global
    BY <1>1, <1>2, FrameParts DEF Holders
  <2>4. \A i \in DOMAIN frames, o \in owners' :
          frames[i].kills => frames[i].lifetime.index # o.index
    BY <1>1, <1>2, <2>3, Zero DEF Holders
  <2>5. \A s \in Slots : alive'[s] =>
          /\ uses'[s] >= 1
          /\ \/ s = 0
             \/ s # 0 /\ \E o \in owners' : o.index = s
             \/ s # 0 /\ \E i \in DOMAIN frames : frames[i].kills /\ frames[i].lifetime.index = s
    <3> SUFFICES ASSUME NEW s \in Slots, alive'[s]
                 PROVE  /\ uses'[s] >= 1
                        /\ \/ s = 0
                           \/ s # 0 /\ \E o \in owners' : o.index = s
                           \/ s # 0 /\ \E i \in DOMAIN frames :
                                   frames[i].kills /\ frames[i].lifetime.index = s
      OBVIOUS
    <3>1. CASE s = a.index
      BY <1>1, <1>2, <3>1
    <3>2. CASE s # a.index
      <4>1. alive[s]
        BY <1>1, <1>2, <3>2 DEF PoolTypes
      <4>2. uses'[s] >= 1
        BY <1>1, <1>2, <4>1 DEF Holders, PoolTypes
      <4> QED
        BY <1>1, <4>1, <4>2 DEF Holders
    <3> QED
      BY <3>1, <3>2
  <2> QED
    BY <1>1, <1>2, <2>1, <2>2, <2>3, <2>4, <2>5
       DEF Holders, Kept, KeptNext, Counted, CountedNext
<1> QED
  BY <1>2, <1>3, <1>4 DEF IInv

LEMMA DropOwnerInv ==
  ASSUME IInv, NEW o \in owners, DropOwner(o)
  PROVE  IInv'
<1>1. /\ PoolTypes /\ frames \in Seq(Frame) /\ refs \in SUBSET Lifetime
      /\ owners \in SUBSET Lifetime /\ global \in Lifetime /\ SummariesExact /\ Holders
      /\ o \in Lifetime /\ owners' = owners \ {o} /\ Release(o)
      /\ UNCHANGED <<phase, global, frames, refs>>
  BY Split DEF IInv, DropOwner
<1>2. Kept(o) /\ o.index # 0
  BY <1>1 DEF Holders
<1>3. /\ PoolTypes' /\ SummariesExact'
      /\ alive' = [alive EXCEPT ![o.index] = FALSE] /\ UNCHANGED <<salt, uses>>
      /\ \A l \in Lifetime : Kept(l) /\ l.index # o.index => KeptNext(l)
      /\ \A r \in refs : CountedNext(r)
  BY <1>1, <1>2, ReleaseKeeps
<1>4. TypeOK'
  BY <1>1, <1>3, Split, SplitNext DEF IInv
<1>5. Holders'
  <2>1. phase = "open" => KeptNext(global)
    BY <1>1, <1>2, <1>3, Zero DEF Holders
  <2>2. \A q \in owners' : KeptNext(q) /\ q.index # 0 /\ q.index # o.index
    <3> SUFFICES ASSUME NEW q \in owners'
                 PROVE  KeptNext(q) /\ q.index # 0 /\ q.index # o.index
      OBVIOUS
    <3>1. q \in owners /\ q # o /\ q \in Lifetime /\ Kept(q) /\ q.index # 0
      BY <1>1 DEF Holders
    <3>2. q.index # o.index
      BY <1>1, <1>2, <3>1 DEF Kept, Lifetime
    <3> QED
      BY <1>3, <3>1, <3>2
  <2>3. \A i \in DOMAIN frames :
          IF frames[i].kills
          THEN \/ frames[i].lifetime = Null
               \/ KeptNext(frames[i].lifetime) /\ frames[i].lifetime.index # 0
          ELSE frames[i].lifetime = global
    BY <1>1, <1>3, FrameParts DEF Holders
  <2>4. \A s \in Slots : alive'[s] =>
          /\ uses[s] >= 1
          /\ \/ phase = "open" /\ s = 0
             \/ s # 0 /\ \E q \in owners' : q.index = s
             \/ s # 0 /\ \E i \in DOMAIN frames : frames[i].kills /\ frames[i].lifetime.index = s
    <3> SUFFICES ASSUME NEW s \in Slots, alive'[s]
                 PROVE  /\ uses[s] >= 1
                        /\ \/ phase = "open" /\ s = 0
                           \/ s # 0 /\ \E q \in owners' : q.index = s
                           \/ s # 0 /\ \E i \in DOMAIN frames :
                                   frames[i].kills /\ frames[i].lifetime.index = s
      OBVIOUS
    <3>1. alive[s] /\ s # o.index
      BY <1>1, <1>3 DEF PoolTypes
    <3> QED
      BY <1>1, <3>1 DEF Holders
  <2> QED
    BY <1>1, <1>3, <2>1, <2>2, <2>3, <2>4
       DEF Holders, Kept, KeptNext, Counted, CountedNext
<1> QED
  BY <1>3, <1>4, <1>5 DEF IInv

LEMMA MakeRefInv ==
  ASSUME IInv, NEW l \in {Current, global} \cup owners, MakeRef(l)
  PROVE  IInv'
<1>1. /\ PoolTypes /\ frames \in Seq(Frame) /\ refs \in SUBSET Lifetime
      /\ owners \in SUBSET Lifetime /\ global \in Lifetime /\ SummariesExact /\ Holders
      /\ phase = "open" /\ refs' = refs \cup {l}
      /\ UNCHANGED <<pool, phase, global, frames, owners>>
  BY Split DEF IInv, MakeRef
<1>2. l \in Lifetime /\ (l = Null \/ Kept(l))
  <2>1. CASE l = Current
    <3>1. CASE frames = <<>>
      BY <2>1, <3>1, Zero DEF Current
    <3>2. CASE frames # <<>>
      <4>1. Len(frames) \in DOMAIN frames
        BY <1>1, <3>2, Pop1
      <4> QED
        BY <1>1, <2>1, <3>2, <4>1, FrameParts DEF Current, Top, Holders
    <3> QED
      BY <3>1, <3>2
  <2>2. CASE l = global
    BY <1>1, <2>2 DEF Holders
  <2>3. CASE l \in owners
    BY <1>1, <2>3 DEF Holders
  <2> QED
    BY <2>1, <2>2, <2>3
<1>3. Counted(l)
  <2>1. CASE l = Null
    BY <2>1 DEF Counted
  <2>2. CASE Kept(l)
    <3>1. /\ l.index \in Slots /\ alive[l.index] /\ uses[l.index] \in 0 .. MaxUses
          /\ salt[l.index] \in 0 .. Salts - 1 /\ uses[l.index] >= 1
      BY <1>1, <1>2, <2>2 DEF Kept, Lifetime, PoolTypes, Holders
    <3> QED
      BY <2>2, <3>1, LifetimesAssumption DEF Kept, Counted
  <2> QED
    BY <1>2, <2>1, <2>2
<1>4. TypeOK' /\ SummariesExact'
  BY <1>1, <1>2, Split, SplitNext DEF IInv, PoolTypes, SummariesExact
<1>5. Holders'
  BY <1>1, <1>3 DEF Holders, Kept, Counted
<1> QED
  BY <1>4, <1>5 DEF IInv

LEMMA DropRefInv ==
  ASSUME IInv, NEW r \in refs, DropRef(r)
  PROVE  IInv'
<1>1. TypeOK' /\ SummariesExact'
  BY DEF IInv, DropRef, TypeOK, SummariesExact
<1>2. Holders'
  BY DEF IInv, DropRef, Holders, Kept, Counted
<1> QED
  BY <1>1, <1>2 DEF IInv

LEMMA CloseInv == IInv /\ Close => IInv'
<1> SUFFICES ASSUME IInv, Close PROVE IInv'
  OBVIOUS
<1>1. /\ PoolTypes /\ frames \in Seq(Frame) /\ refs \in SUBSET Lifetime
      /\ owners \in SUBSET Lifetime /\ global \in Lifetime /\ SummariesExact /\ Holders
      /\ phase = "open" /\ phase' = "closing" /\ frames = <<>> /\ Release(global)
      /\ UNCHANGED <<global, frames, owners, refs>>
  BY Split DEF IInv, Close
<1>2. Kept(global) /\ global.index = 0
  BY <1>1, Zero DEF Holders
<1>3. /\ PoolTypes' /\ SummariesExact'
      /\ alive' = [alive EXCEPT ![0] = FALSE] /\ UNCHANGED <<salt, uses>>
      /\ \A l \in Lifetime : Kept(l) /\ l.index # 0 => KeptNext(l)
      /\ \A r \in refs : CountedNext(r)
  BY <1>1, <1>2, ReleaseKeeps
<1>4. TypeOK'
  BY <1>1, <1>3, SplitNext
<1>5. Holders'
  <2>1. \A q \in owners : KeptNext(q) /\ q.index # 0
    BY <1>1, <1>3 DEF Holders
  <2>2. DOMAIN frames = {}
    BY <1>1
  <2>3. \A s \in Slots : alive'[s] => uses[s] >= 1 /\ s # 0 /\ \E q \in owners : q.index = s
    <3> SUFFICES ASSUME NEW s \in Slots, alive'[s]
                 PROVE  uses[s] >= 1 /\ s # 0 /\ \E q \in owners : q.index = s
      OBVIOUS
    <3>1. alive[s] /\ s # 0
      BY <1>1, <1>3, Zero DEF PoolTypes
    <3> QED
      BY <1>1, <2>2, <3>1 DEF Holders
  <2> QED
    BY <1>1, <1>3, <2>1, <2>2, <2>3 DEF Holders, Kept, KeptNext, Counted, CountedNext
<1> QED
  BY <1>3, <1>4, <1>5 DEF IInv

LEMMA ClosedInv == IInv /\ Closed => IInv'
<1> SUFFICES ASSUME IInv, Closed PROVE IInv'
  OBVIOUS
<1>1. TypeOK' /\ SummariesExact'
  BY DEF IInv, Closed, TypeOK, SummariesExact
<1>2. Holders'
  BY DEF IInv, Closed, Holders, Kept, Counted
<1> QED
  BY <1>1, <1>2 DEF IInv

LEMMA ResetInv == IInv /\ Reset => IInv'
<1> SUFFICES ASSUME IInv, Reset PROVE IInv'
  OBVIOUS
<1>1. /\ frames = <<>> /\ owners = {} /\ refs = {}
      /\ UNCHANGED <<frames, owners, refs>>
  BY DEF IInv, Holders, Reset
<1>2. TypeOK'
  BY <1>1, Fresh, Zero DEF Reset, TypeOK
<1>3. SummariesExact'
  BY Fresh DEF Reset, SummariesExact
<1>4. Holders'
  <2>1. /\ global' = Global /\ phase' = "open"
        /\ ~IsNull(global') /\ alive'[global'.index]
        /\ salt'[global'.index] = global'.salt /\ uses'[global'.index] = global'.n
    BY Zero DEF Reset, FreshAlive, FreshUses, Global
  <2>2. \A s \in Slots : alive'[s] => uses'[s] >= 1 /\ s = 0
    <3>1. ASSUME NEW s \in Slots, FreshAlive[s] PROVE FreshUses[s] >= 1 /\ s = 0
      <4>1. s = Global.index
        BY <3>1 DEF FreshAlive
      <4>2. FreshUses[s] = 1
        BY <4>1 DEF FreshUses
      <4> QED
        BY <4>1, <4>2, Zero
    <3> QED
      BY <3>1 DEF Reset
  <2>3. DOMAIN frames' = {}
    BY <1>1
  <2> QED
    BY <1>1, <2>1, <2>2, <2>3 DEF Holders, Kept
<1> QED
  BY <1>2, <1>3, <1>4 DEF IInv

LEMMA NextInv == IInv /\ [Next]_vars => IInv'
<1> SUFFICES ASSUME IInv, [Next]_vars PROVE IInv'
  OBVIOUS
<1>1. CASE EnterCall
  BY <1>1, EnterCallInv
<1>2. CASE EnterCommand
  BY <1>2, EnterCommandInv
<1>3. CASE Leave
  BY <1>3, LeaveInv
<1>4. CASE NewOwner
  BY <1>4, NewOwnerInv
<1>5. ASSUME NEW o \in owners, DropOwner(o) PROVE IInv'
  BY <1>5, DropOwnerInv
<1>6. ASSUME NEW l \in {Current, global} \cup owners, MakeRef(l) PROVE IInv'
  BY <1>6, MakeRefInv
<1>7. ASSUME NEW r \in refs, DropRef(r) PROVE IInv'
  BY <1>7, DropRefInv
<1>8. CASE Close
  BY <1>8, CloseInv
<1>9. CASE Closed
  BY <1>9, ClosedInv
<1>10. CASE Reset
  BY <1>10, ResetInv
<1>11. CASE UNCHANGED vars
  <2>1. TypeOK' /\ SummariesExact'
    BY <1>11 DEF IInv, vars, TypeOK, SummariesExact
  <2>2. Holders'
    BY <1>11 DEF IInv, vars, Holders, Kept, Counted
  <2> QED
    BY <2>1, <2>2 DEF IInv
<1> QED
  BY <1>1, <1>2, <1>3, <1>4, <1>5, <1>6, <1>7, <1>8, <1>9, <1>10, <1>11 DEF Next

LEMMA Inductive == Spec => []IInv
  BY InitInv, NextInv, PTL DEF Spec

-----------------------------------------------------------------------------
(* What follows from it.                                                    *)

LEMMA HeldKept ==
  ASSUME IInv, NEW l \in Held
  PROVE  l \in Lifetime /\ Kept(l)
<1>1. /\ frames \in Seq(Frame) /\ owners \in SUBSET Lifetime /\ global \in Lifetime /\ Holders
  BY Split DEF IInv
<1>2. CASE phase = "open" /\ l = global
  BY <1>1, <1>2 DEF Holders
<1>3. CASE l \in owners
  BY <1>1, <1>3 DEF Holders
<1>4. CASE \E i \in DOMAIN frames : frames[i].kills /\ l = frames[i].lifetime
  BY <1>1, <1>4, FrameParts DEF Held, Holders
<1> QED
  BY <1>2, <1>3, <1>4 DEF Held

(* A slot in use is held.                                                   *)
LEMMA AliveHeld ==
  ASSUME IInv, NEW s \in Slots, alive[s]
  PROVE  \E l \in Held : l.index = s
<1>1. Holders
  BY DEF IInv
<1>2. CASE phase = "open" /\ s = 0
  BY <1>1, <1>2, Zero DEF Holders, Held
<1>3. CASE s # 0 /\ \E o \in owners : o.index = s
  BY <1>3, Zero DEF Held
<1>4. CASE s # 0 /\ \E i \in DOMAIN frames : frames[i].kills /\ frames[i].lifetime.index = s
  BY <1>4, Zero DEF Held
<1> QED
  BY <1>1, <1>2, <1>3, <1>4 DEF Holders

LEMMA IInvLeaks == IInv => NothingLeaks
  BY AliveHeld, HeldKept DEF NothingLeaks, Resolves, Kept

LEMMA IInvScoped == IInv => RefsScoped
<1> SUFFICES ASSUME IInv, NEW r \in refs PROVE Resolves(r) <=> r \in Held
  BY DEF RefsScoped
<1>1. r \in Lifetime /\ Counted(r) /\ PoolTypes
  BY Split DEF IInv, Holders
<1>2. r \in Held => Resolves(r)
  BY HeldKept DEF Kept, Resolves
<1>3. ASSUME Resolves(r) PROVE r \in Held
  <2>1. r.index \in Slots /\ alive[r.index] /\ salt[r.index] = r.salt /\ r # Null
    BY <1>1, <1>3, Zero DEF Resolves, Lifetime
  <2>2. uses[r.index] = r.n
    <3>1. /\ r.salt \in Int /\ r.n \in Int /\ uses[r.index] \in Int /\ Salts \in Int
      BY <1>1, <2>1, LifetimesAssumption DEF Lifetime, PoolTypes
    <3> QED
      BY <1>1, <2>1, <3>1 DEF Counted
  <2>3. PICK l \in Held : l.index = r.index
    BY <2>1, AliveHeld
  <2>4. l \in Lifetime /\ Kept(l)
    BY HeldKept
  <2>5. l.salt = r.salt /\ l.n = r.n
    BY <2>1, <2>2, <2>3, <2>4 DEF Kept
  <2>6. l = r
    BY <1>1, <2>3, <2>4, <2>5, SameLifetime
  <2> QED
    BY <2>6
<1> QED
  BY <1>2, <1>3

(* The type invariant: handles stay within the pool and its salts.          *)
THEOREM Types == Spec => []TypeOK
  BY Inductive, PTL DEF IInv

(* The three levels of bitmaps agree with the slots whatever the sizes: the *)
(* scans of Allocate find a free slot whenever there is one, and only then. *)
THEOREM BitmapsExact == Spec => []SummariesExact
  BY Inductive, PTL DEF IInv

(* No slot is lost: each one in use has a holder that can release it.       *)
THEOREM NoLeaks == Spec => []NothingLeaks
  BY Inductive, IInvLeaks, PTL

(* A proxy can be followed exactly while its lifetime is held, for any      *)
(* nesting of calls and however slots and salts are reused.                 *)
THEOREM Scoped == Spec => []RefsScoped
  BY Inductive, IInvScoped, PTL

-----------------------------------------------------------------------------
(* The refinement.  aStack ... are the abstract variables.                  *)

aRoot   == IF phase = "open" THEN Scope(global) ELSE Scope(Null)
aStack  == [i \in DOMAIN frames |-> Scope(frames[i].lifetime)]
aOwned  == {Scope(o) : o \in owners}
aValues == {Scope(r) : r \in refs}
aUsable == {Scope(r) : r \in {q \in refs : Resolves(q)}}
aOpen   == {Scope(l) : l \in Held}

UsableOpen == aUsable = aValues \cap Abstract!Open

LEMMA ScopeParts ==
  ASSUME NEW l, NEW r
  PROVE  Scope(l) = Scope(r) <=> l.index = r.index /\ l.n = r.n
  BY DEF Scope

LEMMA NoScopeNull == Scope(Null) = <<0, 0>>
  BY DEF Scope, Null

(* Two proxies of one use of a slot have the same handle.                   *)
LEMMA CountedSame ==
  ASSUME IInv, NEW l \in Lifetime, NEW r \in Lifetime, Counted(l), Counted(r), Scope(l) = Scope(r)
  PROVE  l = r
<1>1. /\ l.index = r.index /\ l.n = r.n
      /\ l.salt \in 0 .. Salts - 1 /\ r.salt \in 0 .. Salts - 1 /\ r.n \in Int
      /\ l.index \in Slots /\ Salts \in Nat
  BY ScopeParts, LifetimesAssumption DEF Lifetime
<1>2. salt[l.index] \in 0 .. Salts - 1 /\ uses[l.index] \in Int
  BY <1>1, Split DEF IInv, PoolTypes
<1>3. l.salt = r.salt
  <2>1. CASE l = Null \/ r = Null
    <3>1. l.n = 0 /\ r.n = 0
      BY <1>1, <2>1 DEF Null
    <3> QED
      BY <3>1 DEF Counted, Null
  <2>2. CASE l # Null /\ r # Null
    BY <1>1, <1>2, <2>2 DEF Counted
  <2> QED
    BY <2>1, <2>2
<1> QED
  BY <1>1, <1>3, SameLifetime

LEMMA KeptCounted ==
  ASSUME IInv, NEW l \in Lifetime, Kept(l)
  PROVE  Counted(l) /\ l.n >= 1 /\ l.n \in 1 .. MaxUses /\ l.n = uses[l.index]
<1>1. /\ l.index \in Slots /\ alive[l.index] /\ uses[l.index] \in 0 .. MaxUses
      /\ salt[l.index] \in 0 .. Salts - 1 /\ uses[l.index] >= 1
  BY Split DEF IInv, Kept, Lifetime, PoolTypes, Holders
<1> QED
  BY <1>1, LifetimesAssumption DEF Kept, Counted

LEMMA OpenIsHeld == IInv => Abstract!Open = aOpen
<1> SUFFICES ASSUME IInv PROVE Abstract!Open = aOpen
  OBVIOUS
<1>1. /\ frames \in Seq(Frame) /\ owners \in SUBSET Lifetime /\ global \in Lifetime /\ Holders
  BY Split DEF IInv
<1>2. Abstract!Open =
        ({aRoot} \cup aOwned \cup {aStack[i] : i \in DOMAIN aStack}) \ {Scope(Null)}
  BY DEF Abstract!Open, aRoot, aOwned, aStack
<1>3. \A l \in Held : Scope(l) # Scope(Null)
  BY HeldKept, KeptCounted, ScopeParts, NoScopeNull DEF Scope
<1>4. ASSUME NEW x \in Abstract!Open PROVE x \in aOpen
  <2>1. CASE x = aRoot
    BY <1>2, <1>4, <2>1 DEF aRoot, aOpen, Held
  <2>2. CASE x \in aOwned
    BY <1>2, <1>4, <2>2 DEF aOwned, aOpen, Held
  <2>3. CASE \E i \in DOMAIN frames : x = Scope(frames[i].lifetime)
    <3>1. PICK i \in DOMAIN frames : x = Scope(frames[i].lifetime)
      BY <2>3
    <3>2. CASE frames[i].kills
      BY <1>2, <1>4, <3>1, <3>2 DEF aOpen, Held
    <3>3. CASE ~frames[i].kills
      <4>1. frames[i].lifetime = global /\ phase = "open"
        BY <1>1, <3>3 DEF Holders
      <4> QED
        BY <1>2, <1>4, <3>1, <4>1 DEF aOpen, Held
    <3> QED
      BY <3>2, <3>3
  <2> QED
    BY <1>2, <1>4, <2>1, <2>2, <2>3 DEF aStack
<1>5. ASSUME NEW l \in Held PROVE Scope(l) \in Abstract!Open
  <2>1. CASE phase = "open" /\ l = global
    BY <1>2, <1>3, <2>1 DEF aRoot
  <2>2. CASE l \in owners
    BY <1>2, <1>3, <2>2 DEF aOwned
  <2>3. CASE \E i \in DOMAIN frames : l = frames[i].lifetime
    BY <1>2, <1>3, <2>3 DEF aStack
  <2> QED
    BY <1>2, <2>1, <2>2, <2>3 DEF Held
<1> QED
  BY <1>4, <1>5 DEF aOpen

LEMMA UsableIsOpen == IInv => UsableOpen
<1> SUFFICES ASSUME IInv PROVE aUsable = aValues \cap aOpen
  BY OpenIsHeld DEF UsableOpen
<1>1. refs \in SUBSET Lifetime /\ \A r \in refs : Counted(r)
  BY Split DEF IInv, Holders
<1>2. \A r \in refs : Resolves(r) <=> r \in Held
  BY IInvScoped DEF RefsScoped
<1>3. ASSUME NEW r \in refs, Scope(r) \in aOpen PROVE Resolves(r)
  <2>1. PICK l \in Held : Scope(l) = Scope(r)
    BY <1>3 DEF aOpen
  <2>2. l \in Lifetime /\ Kept(l) /\ Counted(l)
    BY HeldKept, KeptCounted
  <2>3. l = r
    BY <1>1, <2>1, <2>2, CountedSame
  <2> QED
    BY <1>2, <2>3
<1>4. ASSUME NEW r \in refs, Resolves(r) PROVE Scope(r) \in aOpen
  BY <1>2, <1>4 DEF aOpen
<1> QED
  BY <1>3, <1>4 DEF aUsable, aValues

(* A scope that Allocate opens is in use nowhere.                           *)
LEMMA AllocatedFresh ==
  ASSUME IInv, phase = "open", HasFree, Allocate
  PROVE  Scope(Allocated) \in Abstract!Fresh
<1> DEFINE a == Allocated
<1>1. /\ PoolTypes /\ refs \in SUBSET Lifetime /\ SummariesExact /\ Holders
  BY Split DEF IInv
<1>2. a \in Lifetime /\ a.index \in Slots /\ ~alive[a.index]
  BY AllocateKeeps DEF Lifetime
<1>3. FreeSlot \in Slots /\ uses[FreeSlot] < MaxUses
  BY <1>1, Scan, Zenon DEF Allocate, Bounded
<1>4. a.index = FreeSlot /\ a.n = uses[FreeSlot] + 1
  BY DEF Allocated
<1> HIDE DEF a
<1>5. a.n \in 1 .. MaxUses /\ a.n > uses[a.index] /\ uses[a.index] \in Nat
  BY <1>1, <1>3, <1>4, LifetimesAssumption DEF PoolTypes
<1>6. Scope(a) \in Slots \X (1 .. MaxUses) /\ Scope(a) # Scope(Null)
  BY <1>2, <1>5, NoScopeNull DEF Scope
<1>7. Scope(a) \notin aOpen
  BY <1>2, HeldKept, ScopeParts DEF aOpen, Kept
<1>8. Scope(a) \notin aValues
  <2> SUFFICES ASSUME NEW r \in refs, Scope(r) = Scope(a) PROVE FALSE
    BY DEF aValues
  <2>1. r.index = a.index /\ r.n = a.n /\ Counted(r)
    BY <1>1, ScopeParts DEF Holders
  <2>2. r # Null
    BY <1>5, <2>1 DEF Null
  <2> QED
    BY <1>5, <2>1, <2>2 DEF Counted
<1> QED
  BY <1>6, <1>7, <1>8, OpenIsHeld DEF Abstract!Fresh, aValues, a

(* The scans only give up when every slot is open.                          *)
LEMMA NoneFree ==
  ASSUME IInv, ~HasFree
  PROVE  Abstract!Full
<1>1. /\ PoolTypes /\ SummariesExact
  BY Split DEF IInv
<1>2. \A s \in Slots : alive[s]
  <2> SUFFICES ASSUME NEW s \in Slots, ~alive[s] PROVE FALSE
    OBVIOUS
  <2> DEFINE w3 == s \div PageBits  w2 == w3 \div PageBits  w1 == w2 \div PageBits
  <2>1. w3 \in Words3 /\ w2 \in Words2 /\ w1 \in Words1
    BY Addresses
  <2>2. l3[w3] # {}
    BY <1>1 DEF SummariesExact
  <2>3. l2[w2] # {}
    BY <1>1, <2>1, <2>2 DEF SummariesExact
  <2>4. l1[w1] # {}
    BY <1>1, <2>1, <2>3 DEF SummariesExact
  <2> QED
    BY <2>1, <2>4 DEF HasFree
<1>3. \A x \in aOpen : x[1] \in Slots /\ x = <<x[1], uses[x[1]]>>
  <2> SUFFICES ASSUME NEW l \in Held
               PROVE  Scope(l)[1] \in Slots /\ Scope(l) = <<Scope(l)[1], uses[Scope(l)[1]]>>
    BY DEF aOpen
  <2>1. l \in Lifetime /\ Kept(l)
    BY HeldKept
  <2> QED
    BY <2>1 DEF Kept, Lifetime, Scope
<1>4. \A s \in Slots : \E x \in aOpen : x[1] = s
  <2> SUFFICES ASSUME NEW s \in Slots PROVE \E x \in aOpen : x[1] = s
    OBVIOUS
  <2>1. PICK l \in Held : l.index = s
    BY <1>2, AliveHeld
  <2>2. Scope(l) \in aOpen /\ Scope(l)[1] = s
    BY <2>1 DEF aOpen, Scope
  <2> QED
    BY <2>2
<1> DEFINE f == [s \in Slots |-> <<s, uses[s]>>]
<1>5. f \in Bijection(Slots, aOpen)
  <2>1. \A s \in Slots : f[s] \in aOpen
    BY <1>3, <1>4
  <2>2. \A s, t \in Slots : f[s] = f[t] => s = t
    OBVIOUS
  <2>3. \A x \in aOpen : \E s \in Slots : f[s] = x
    BY <1>3
  <2>4. f \in [Slots -> aOpen]
    BY <2>1
  <2> QED
    BY <2>2, <2>3, <2>4 DEF Bijection, Injection, Surjection, IsInjective
<1>6. IsFiniteSet(Slots)
  <2>1. RootWords * PageBits * PageBits * PageBits \in Nat
    BY Addresses
  <2> QED
    BY <2>1, FS_Interval DEF Slots
<1>7. Cardinality(aOpen) = Cardinality(Slots)
  BY <1>5, <1>6, FS_Bijection DEF ExistsBijection
<1> QED
  BY <1>7, OpenIsHeld DEF Abstract!Full, Abstract!Cardinality, Cardinality

(* What every step of the abstract specification says of the usable ones,   *)
(* and the disjuncts of Abstract!Next over the names above.                 *)
LEMMA AbstractStep ==
  ASSUME UsableOpen',
         \/ /\ \/ \E s \in Abstract!Fresh : aStack' = Append(aStack, s)
               \/ Abstract!Full /\ aStack' = Append(aStack, Scope(Null))
               \/ aStack' = Append(aStack, aRoot)
            /\ UNCHANGED <<aRoot, aOwned, aValues>>
         \/ /\ aStack # <<>>
            /\ aStack' = SubSeq(aStack, 1, Len(aStack) - 1)
            /\ UNCHANGED <<aRoot, aOwned, aValues>>
         \/ /\ \E s \in Abstract!Fresh : aOwned' = aOwned \cup {s}
            /\ UNCHANGED <<aRoot, aStack, aValues>>
         \/ /\ \E s \in aOwned : aOwned' = aOwned \ {s}
            /\ UNCHANGED <<aRoot, aStack, aValues>>
         \/ /\ \E s \in Abstract!Open \cup {Scope(Null)} : aValues' = aValues \cup {s}
            /\ UNCHANGED <<aRoot, aStack, aOwned>>
         \/ /\ \E s \in aValues : aValues' = aValues \ {s}
            /\ UNCHANGED <<aRoot, aStack, aOwned>>
         \/ /\ aStack = <<>>
            /\ aRoot' = Scope(Null)
            /\ UNCHANGED <<aStack, aOwned, aValues>>
         \/ /\ aRoot = Scope(Null)
            /\ aOwned = {}
            /\ aRoot' \in (Slots \X (1 .. MaxUses)) \ {Scope(Null)}
            /\ aValues' = {}
            /\ UNCHANGED <<aStack, aOwned>>
  PROVE  Abstract!Next
  BY DEF Abstract!Next, Abstract!Enter, Abstract!Leave, Abstract!Own, Abstract!Disown,
         Abstract!Hold, Abstract!Forget, Abstract!Close, Abstract!Reopen, Abstract!Pop,
         UsableOpen, aRoot, aStack, aOwned, aValues, aUsable

LEMMA StackSeq ==
  ASSUME frames \in Seq(Frame)
  PROVE  /\ aStack \in Seq(Nat \X Nat) /\ Len(aStack) = Len(frames)
         /\ (aStack = <<>> <=> frames = <<>>)
<1>1. Len(frames) \in Nat /\ DOMAIN frames = 1 .. Len(frames)
  OBVIOUS
<1>2. \A i \in DOMAIN frames : Scope(frames[i].lifetime) \in Nat \X Nat
  BY FrameParts, LifetimesAssumption DEF Scope, Lifetime, Slots
<1>3. aStack \in [1 .. Len(frames) -> Nat \X Nat]
  BY <1>1, <1>2 DEF aStack
<1>4. aStack \in Seq(Nat \X Nat) /\ Len(aStack) = Len(frames)
  BY <1>1, <1>3
<1> QED
  BY <1>4

LEMMA StackPush ==
  ASSUME frames \in Seq(Frame), NEW f \in Frame, frames' = Append(frames, f)
  PROVE  aStack' = Append(aStack, Scope(f.lifetime))
<1> DEFINE n == Len(frames)
           t == Append(frames, f)
<1>1. n \in Nat /\ DOMAIN frames = 1 .. n
  OBVIOUS
<1>2. DOMAIN t = 1 .. n + 1 /\ t[n + 1] = f /\ \A i \in 1 .. n : t[i] = frames[i]
  BY <1>1
<1>3. aStack \in Seq(Nat \X Nat) /\ Len(aStack) = n
  BY StackSeq
<1>4. Append(aStack, Scope(f.lifetime)) =
        [i \in 1 .. n + 1 |-> IF i = n + 1 THEN Scope(f.lifetime) ELSE aStack[i]]
  BY <1>3
<1>5. aStack' = [i \in 1 .. n + 1 |-> Scope(t[i].lifetime)]
  BY <1>2 DEF aStack
<1>6. \A i \in 1 .. n : aStack[i] = Scope(frames[i].lifetime)
  BY <1>1 DEF aStack
<1> QED
  BY <1>1, <1>2, <1>4, <1>5, <1>6

LEMMA StackPop ==
  ASSUME frames \in Seq(Frame), frames # <<>>, frames' = Pop
  PROVE  aStack' = SubSeq(aStack, 1, Len(aStack) - 1)
<1> DEFINE n == Len(frames)
<1>1. n \in Nat /\ n > 0 /\ DOMAIN frames = 1 .. n
  OBVIOUS
<1>2. Pop = [i \in 1 .. n - 1 |-> frames[i]]
  BY <1>1 DEF Pop
<1>3. aStack' = [i \in 1 .. n - 1 |-> Scope(frames[i].lifetime)]
  BY <1>2 DEF aStack
<1>4. aStack \in Seq(Nat \X Nat) /\ Len(aStack) = n
  BY StackSeq
<1>5. SubSeq(aStack, 1, n - 1) = [i \in 1 .. n - 1 |-> aStack[i]]
  BY <1>1, <1>4
<1>6. \A i \in 1 .. n - 1 : aStack[i] = Scope(frames[i].lifetime)
  BY <1>1 DEF aStack
<1> QED
  BY <1>3, <1>4, <1>5, <1>6

LEMMA UsableNext == IInv' => UsableOpen'
  BY UsableIsOpen, PTL

LEMMA EnterCallStep == IInv /\ IInv' /\ EnterCall => Abstract!Next
<1> SUFFICES ASSUME IInv, IInv', EnterCall PROVE Abstract!Next
  OBVIOUS
<1>1. frames \in Seq(Frame) /\ phase = "open" /\ UNCHANGED <<phase, global, owners, refs>>
  BY Split DEF IInv, EnterCall
<1>2. UNCHANGED <<aRoot, aOwned, aValues>>
  BY <1>1 DEF aRoot, aOwned, aValues
<1>3. CASE HasFree /\ Allocate /\ Push(Allocated, TRUE)
  <2>1. Allocated \in Lifetime
    BY <1>1, <1>3, AllocateKeeps
  <2>2. aStack' = Append(aStack, Scope(Allocated))
    <3> DEFINE a == Allocated
               f == [lifetime |-> a, kills |-> TRUE]
    <3>1. frames' = Append(frames, f)
      BY <1>3 DEF Push
    <3> HIDE DEF a
    <3>2. f \in Frame /\ f.lifetime = a
      BY <2>1 DEF Frame, a
    <3> HIDE DEF f
    <3>3. aStack' = Append(aStack, Scope(f.lifetime))
      BY <1>1, <3>1, <3>2, StackPush
    <3> QED
      BY <3>2, <3>3 DEF a
  <2>3. Scope(Allocated) \in Abstract!Fresh
    BY <1>1, <1>3, AllocatedFresh
  <2> QED
    BY <1>2, <2>2, <2>3, UsableNext, AbstractStep
<1>4. CASE ~HasFree /\ Push(Null, TRUE) /\ UNCHANGED pool
  <2>1. aStack' = Append(aStack, Scope(Null))
    <3> DEFINE f == [lifetime |-> Null, kills |-> TRUE]
    <3>1. frames' = Append(frames, f) /\ f \in Frame /\ f.lifetime = Null
      BY <1>4, Zero DEF Push, Frame
    <3> HIDE DEF f
    <3>2. aStack' = Append(aStack, Scope(f.lifetime))
      BY <1>1, <3>1, StackPush
    <3> QED
      BY <3>1, <3>2, Zenon
  <2>2. Abstract!Full
    BY <1>4, NoneFree
  <2> QED
    BY <1>2, <2>1, <2>2, UsableNext, AbstractStep
<1> QED
  BY <1>3, <1>4 DEF EnterCall

LEMMA EnterCommandStep == IInv /\ IInv' /\ EnterCommand => Abstract!Next
<1> SUFFICES ASSUME IInv, IInv', EnterCommand PROVE Abstract!Next
  OBVIOUS
<1>1. /\ frames \in Seq(Frame) /\ global \in Lifetime /\ phase = "open"
      /\ UNCHANGED <<phase, global, owners, refs>>
  BY Split DEF IInv, EnterCommand
<1>2. UNCHANGED <<aRoot, aOwned, aValues>> /\ aRoot = Scope(global)
  BY <1>1 DEF aRoot, aOwned, aValues
<1>3. aStack' = Append(aStack, Scope(global))
  <2> DEFINE f == [lifetime |-> global, kills |-> FALSE]
  <2>1. frames' = Append(frames, f) /\ f \in Frame /\ f.lifetime = global
    BY <1>1 DEF EnterCommand, Push, Frame
  <2> HIDE DEF f
  <2> QED
    BY <1>1, <2>1, StackPush
<1> QED
  BY <1>2, <1>3, UsableNext, AbstractStep

LEMMA LeaveStep == IInv /\ IInv' /\ Leave => Abstract!Next
<1> SUFFICES ASSUME IInv, IInv', Leave PROVE Abstract!Next
  OBVIOUS
<1>1. /\ frames \in Seq(Frame) /\ frames # <<>> /\ frames' = Pop
      /\ UNCHANGED <<phase, global, owners, refs>>
  BY Split DEF IInv, Leave
<1>2. UNCHANGED <<aRoot, aOwned, aValues>>
  BY <1>1 DEF aRoot, aOwned, aValues
<1>3. aStack # <<>> /\ aStack' = SubSeq(aStack, 1, Len(aStack) - 1)
  BY <1>1, StackSeq, StackPop
<1> QED
  BY <1>2, <1>3, UsableNext, AbstractStep

LEMMA NewOwnerStep == IInv /\ IInv' /\ NewOwner => Abstract!Next
<1> SUFFICES ASSUME IInv, IInv', NewOwner PROVE Abstract!Next
  OBVIOUS
<1>1. /\ phase = "open" /\ HasFree /\ Allocate /\ owners' = owners \cup {Allocated}
      /\ UNCHANGED <<phase, global, frames, refs>>
  BY DEF NewOwner
<1>2. UNCHANGED <<aRoot, aStack, aValues>>
  BY <1>1 DEF aRoot, aStack, aValues
<1>3. aOwned' = aOwned \cup {Scope(Allocated)}
  BY <1>1 DEF aOwned
<1>4. Scope(Allocated) \in Abstract!Fresh
  BY <1>1, AllocatedFresh
<1> QED
  BY <1>2, <1>3, <1>4, UsableNext, AbstractStep

LEMMA DropOwnerStep ==
  ASSUME IInv, IInv', NEW o \in owners, DropOwner(o)
  PROVE  Abstract!Next
<1>1. /\ owners \in SUBSET Lifetime /\ Holders /\ owners' = owners \ {o}
      /\ UNCHANGED <<phase, global, frames, refs>>
  BY Split DEF IInv, DropOwner
<1>2. UNCHANGED <<aRoot, aStack, aValues>>
  BY <1>1 DEF aRoot, aStack, aValues
<1>3. \A q \in owners : Scope(q) = Scope(o) => q = o
  <2>1. \A q \in owners : q \in Lifetime /\ Counted(q)
    BY <1>1, KeptCounted DEF Holders
  <2> QED
    BY <2>1, CountedSame
<1>4. aOwned' = aOwned \ {Scope(o)} /\ Scope(o) \in aOwned
  BY <1>1, <1>3 DEF aOwned
<1> QED
  BY <1>2, <1>4, UsableNext, AbstractStep

LEMMA MakeRefStep ==
  ASSUME IInv, IInv', NEW l \in {Current, global} \cup owners, MakeRef(l)
  PROVE  Abstract!Next
<1>1. /\ frames \in Seq(Frame) /\ Holders /\ phase = "open" /\ refs' = refs \cup {l}
      /\ UNCHANGED <<phase, global, frames, owners>>
  BY Split DEF IInv, MakeRef
<1>2. UNCHANGED <<aRoot, aStack, aOwned>>
  BY <1>1 DEF aRoot, aStack, aOwned
<1>3. aValues' = aValues \cup {Scope(l)}
  BY <1>1 DEF aValues
<1>4. global \in Held /\ owners \in SUBSET Held
  BY <1>1, Zero DEF Held, Holders, Kept
<1>5. l \in Held \cup {Null}
  <2>1. CASE l = Current
    <3>1. CASE frames = <<>>
      BY <2>1, <3>1 DEF Current
    <3>2. CASE frames # <<>>
      <4> DEFINE n == Len(frames)
      <4>1. n \in DOMAIN frames /\ l = frames[n].lifetime
        BY <1>1, <2>1, <3>2, Pop1 DEF Current, Top
      <4> HIDE DEF n
      <4>2. CASE frames[n].kills
        BY <4>1, <4>2 DEF Held
      <4>3. CASE ~frames[n].kills
        BY <1>1, <1>4, <4>1, <4>3 DEF Holders
      <4> QED
        BY <4>2, <4>3
    <3> QED
      BY <3>1, <3>2
  <2> QED
    BY <1>4, <2>1
<1>6. Scope(l) \in Abstract!Open \cup {Scope(Null)}
  BY <1>5, OpenIsHeld DEF aOpen
<1> QED
  BY <1>2, <1>3, <1>6, UsableNext, AbstractStep

LEMMA DropRefStep ==
  ASSUME IInv, IInv', NEW r \in refs, DropRef(r)
  PROVE  Abstract!Next
<1>1. /\ refs \in SUBSET Lifetime /\ Holders /\ refs' = refs \ {r}
      /\ UNCHANGED <<phase, global, frames, owners>>
  BY Split DEF IInv, DropRef
<1>2. UNCHANGED <<aRoot, aStack, aOwned>>
  BY <1>1 DEF aRoot, aStack, aOwned
<1>3. \A q \in refs : Scope(q) = Scope(r) => q = r
  BY <1>1, CountedSame DEF Holders
<1>4. aValues' = aValues \ {Scope(r)} /\ Scope(r) \in aValues
  BY <1>1, <1>3 DEF aValues
<1> QED
  BY <1>2, <1>4, UsableNext, AbstractStep

LEMMA CloseStep == IInv /\ IInv' /\ Close => Abstract!Next
<1> SUFFICES ASSUME IInv, IInv', Close PROVE Abstract!Next
  OBVIOUS
<1>1. /\ frames \in Seq(Frame) /\ frames = <<>> /\ phase' = "closing"
      /\ UNCHANGED <<global, frames, owners, refs>>
  BY Split DEF IInv, Close
<1>2. UNCHANGED <<aStack, aOwned, aValues>>
  BY <1>1 DEF aStack, aOwned, aValues
<1>3. aStack = <<>>
  BY <1>1, StackSeq
<1>4. aRoot' = Scope(Null)
  BY <1>1, NoScopeNull DEF aRoot, Scope
<1> QED
  BY <1>2, <1>3, <1>4, UsableNext, AbstractStep

(* The pool of a closed state goes: the abstract state stays as it is.      *)
LEMMA ClosedStep == Closed => UNCHANGED <<aRoot, aStack, aOwned, aValues, aUsable>>
<1> SUFFICES ASSUME Closed PROVE UNCHANGED <<aRoot, aStack, aOwned, aValues, aUsable>>
  OBVIOUS
<1>1. /\ phase = "closing" /\ phase' = "gone"
      /\ UNCHANGED <<l1, l2, l3, alive, salt, uses, global, frames, owners, refs>>
  BY DEF Closed
<1>2. UNCHANGED aRoot
  BY <1>1, NoScopeNull DEF aRoot, Scope
<1> QED
  BY <1>1, <1>2 DEF aStack, aOwned, aValues, aUsable, Resolves

LEMMA ResetStep == IInv /\ IInv' /\ Reset => Abstract!Next
<1> SUFFICES ASSUME IInv, IInv', Reset PROVE Abstract!Next
  OBVIOUS
<1>1. /\ frames = <<>> /\ owners = {} /\ refs = {} /\ phase = "gone" /\ phase' = "open"
      /\ global' = Global /\ UNCHANGED <<frames, owners, refs>>
  BY DEF IInv, Holders, Reset
<1>2. UNCHANGED <<aStack, aOwned>> /\ aOwned = {} /\ aValues' = {}
  BY <1>1 DEF aStack, aOwned, aValues
<1>3. aRoot = Scope(Null)
  BY <1>1 DEF aRoot
<1>4. aRoot' = <<0, 1>>
  BY <1>1 DEF aRoot, Scope, Global
<1>5. <<0, 1>> \in (Slots \X (1 .. MaxUses)) \ {Scope(Null)}
  BY Zero, NoScopeNull, LifetimesAssumption
<1> QED
  BY <1>2, <1>3, <1>4, <1>5, UsableNext, AbstractStep

LEMMA AbstractInit == Init => Abstract!Init
<1> SUFFICES ASSUME Init PROVE Abstract!Init
  OBVIOUS
<1>1. aRoot = <<0, 1>>
  BY DEF Init, aRoot, Scope, Global
<1>2. <<0, 1>> \in (Slots \X (1 .. MaxUses)) \ {Scope(Null)}
  BY Zero, NoScopeNull, LifetimesAssumption
<1>3. aStack = <<>> /\ aOwned = {} /\ aValues = {} /\ aUsable = {}
  BY DEF Init, aStack, aOwned, aValues, aUsable
<1> QED
  BY <1>1, <1>2, <1>3 DEF Abstract!Init, aRoot, aStack, aOwned, aValues, aUsable

LEMMA AbstractNext == IInv /\ IInv' /\ [Next]_vars => [Abstract!Next]_(Abstract!vars)
<1> SUFFICES ASSUME IInv, IInv', [Next]_vars PROVE [Abstract!Next]_(Abstract!vars)
  OBVIOUS
<1>1. CASE EnterCall
  BY <1>1, EnterCallStep
<1>2. CASE EnterCommand
  BY <1>2, EnterCommandStep
<1>3. CASE Leave
  BY <1>3, LeaveStep
<1>4. CASE NewOwner
  BY <1>4, NewOwnerStep
<1>5. ASSUME NEW o \in owners, DropOwner(o) PROVE Abstract!Next
  BY <1>5, DropOwnerStep
<1>6. ASSUME NEW l \in {Current, global} \cup owners, MakeRef(l) PROVE Abstract!Next
  BY <1>6, MakeRefStep
<1>7. ASSUME NEW r \in refs, DropRef(r) PROVE Abstract!Next
  BY <1>7, DropRefStep
<1>8. CASE Close
  BY <1>8, CloseStep
<1>9. CASE Closed
  BY <1>9, ClosedStep DEF Abstract!vars, aRoot, aStack, aOwned, aValues, aUsable
<1>10. CASE Reset
  BY <1>10, ResetStep
<1>11. CASE UNCHANGED vars
  BY <1>11 DEF vars, Abstract!vars, Resolves
<1> QED
  BY <1>1, <1>2, <1>3, <1>4, <1>5, <1>6, <1>7, <1>8, <1>9, <1>10, <1>11 DEF Next

(* The pool, for every size, number of salts and nesting, does what         *)
(* LifetimeScopes promises: a value can be used exactly while the scope it  *)
(* was made in is open, and a scope is never given out twice.               *)
THEOREM Implements == Spec => ImplementsScopes
  BY Inductive, AbstractInit, AbstractNext, PTL DEF Spec, ImplementsScopes, Abstract!Spec
=============================================================================
