--------------------------- MODULE Combat_proofs ---------------------------
(***************************************************************************)
(* Proof that the maps of PendingHitManager never point to a hit that was  *)
(* deleted, for any addresses and any nesting of the hooks.                *)
(***************************************************************************)
EXTENDS Combat, TLAPS

ManagerFields == {"hits", "nextHitId", "characterHitMap", "hitStatusMap", "hitStatusDamageMap"}
HitFields     == {"dealt", "ptr", "status", "setup", "enter"}

\* The parts of the inductive invariant, of a manager m.  Shape and Numbered are of the
\* types; Waiting is NoDangling's part on characterHitMap_.
Shape(m) ==
  /\ DOMAIN m = ManagerFields
  /\ \A id \in DOMAIN m.hits : DOMAIN m.hits[id] = HitFields

Numbered(m) ==
  /\ m.nextHitId \in Nat
  /\ \A id \in DOMAIN m.hits : id \in Nat /\ id < m.nextHitId

Waiting(m) ==
  \A k \in DOMAIN m.characterHitMap :
    /\ m.characterHitMap[k] \in DOMAIN m.hits
    /\ m.hits[m.characterHitMap[k]].ptr = k
    /\ m.hits[m.characterHitMap[k]].setup = FALSE
    /\ m.hits[m.characterHitMap[k]].enter = FALSE

\* Only hits that were set up are in hitStatusMap_, ...
SetUp(m) ==
  \A k \in DOMAIN m.hitStatusMap :
    m.hitStatusMap[k] \in DOMAIN m.hits /\ m.hits[m.hitStatusMap[k]].setup = TRUE

\* ... and only hits that were entered in hitStatusDamageMap_: so one that is deleted
\* while it waits is in neither.
Entered(m) ==
  \A k \in DOMAIN m.hitStatusDamageMap :
    m.hitStatusDamageMap[k] \in DOMAIN m.hits /\ m.hits[m.hitStatusDamageMap[k]].enter = TRUE

Good(m) == Shape(m) /\ Numbered(m) /\ Waiting(m) /\ SetUp(m) /\ Entered(m)

-----------------------------------------------------------------------------
(* What each operation keeps. *)

LEMMA NoHitsGood == Good(NoHits)
BY DEF Good, Shape, Numbered, Waiting, SetUp, Entered, NoHits, Empty, ManagerFields

\* A new hit is in no map.
LEMMA CreateGood ==
  ASSUME NEW m, Good(m)
  PROVE  /\ Good(Create(m))
         /\ m.nextHitId \notin DOMAIN m.hits
         /\ DOMAIN Create(m).hits = DOMAIN m.hits \cup {m.nextHitId}
         /\ Create(m).hits[m.nextHitId] = NewHit
         /\ Create(m).nextHitId = m.nextHitId + 1
         /\ Create(m).characterHitMap = m.characterHitMap
         /\ Create(m).hitStatusMap = m.hitStatusMap
         /\ Create(m).hitStatusDamageMap = m.hitStatusDamageMap
<1> DEFINE n == Create(m)
<1>1. /\ DOMAIN n = ManagerFields
      /\ n.hits = Assign(m.hits, m.nextHitId, NewHit)
      /\ n.nextHitId = m.nextHitId + 1
      /\ n.characterHitMap = m.characterHitMap
      /\ n.hitStatusMap = m.hitStatusMap
      /\ n.hitStatusDamageMap = m.hitStatusDamageMap
  BY DEF Create, Good, Shape, ManagerFields
<1>2. m.nextHitId \notin DOMAIN m.hits
  BY DEF Good, Numbered
<1>3. /\ DOMAIN n.hits = DOMAIN m.hits \cup {m.nextHitId}
      /\ n.hits[m.nextHitId] = NewHit
      /\ \A x \in DOMAIN m.hits : n.hits[x] = m.hits[x]
  BY <1>1, <1>2 DEF Assign
<1>4. DOMAIN NewHit = HitFields
  BY DEF NewHit, HitFields
<1>5. Shape(n)
  BY <1>1, <1>3, <1>4 DEF Good, Shape
<1>6. Numbered(n)
  BY <1>1, <1>3 DEF Good, Numbered
<1>7. Waiting(n) /\ SetUp(n) /\ Entered(n)
  BY <1>1, <1>3 DEF Good, Waiting, SetUp, Entered
<1> QED
  BY <1>1, <1>2, <1>3, <1>5, <1>6, <1>7 DEF Good

\* A hit that waits for its status is deleted together with its only entry.
LEMMA DeleteGood ==
  ASSUME NEW m, Good(m), NEW k \in DOMAIN m.characterHitMap
  PROVE  LET n == DeleteHit(m, m.characterHitMap[k])
         IN  Good(n) /\ k \notin DOMAIN n.characterHitMap /\ n.nextHitId = m.nextHitId
<1> DEFINE id == m.characterHitMap[k]
           n  == DeleteHit(m, id)
<1>1. /\ id \in DOMAIN m.hits
      /\ m.hits[id].ptr = k
      /\ m.hits[id].setup = FALSE
      /\ m.hits[id].enter = FALSE
  BY DEF Good, Waiting
<1>2. /\ DOMAIN n = ManagerFields
      /\ n.hits = Without(m.hits, id)
      /\ n.nextHitId = m.nextHitId
      /\ n.characterHitMap = Without(m.characterHitMap, k)
      /\ n.hitStatusMap = m.hitStatusMap
      /\ n.hitStatusDamageMap = m.hitStatusDamageMap
  BY <1>1 DEF DeleteHit, Good, Shape, ManagerFields
<1>3. /\ DOMAIN n.hits = DOMAIN m.hits \ {id}
      /\ \A x \in DOMAIN m.hits \ {id} : n.hits[x] = m.hits[x]
  BY <1>2 DEF Without, Restrict
<1>4. /\ DOMAIN n.characterHitMap = DOMAIN m.characterHitMap \ {k}
      /\ \A x \in DOMAIN m.characterHitMap \ {k} : n.characterHitMap[x] = m.characterHitMap[x]
  BY <1>2 DEF Without, Restrict
<1>5. Shape(n) /\ Numbered(n)
  BY <1>2, <1>3 DEF Good, Shape, Numbered
<1>6. Waiting(n)
  BY <1>1, <1>3, <1>4 DEF Good, Waiting
<1>7. SetUp(n) /\ Entered(n)
  BY <1>1, <1>2, <1>3 DEF Good, SetUp, Entered
<1> QED
  BY <1>2, <1>4, <1>5, <1>6, <1>7 DEF Good

\* Of the two cases of OnCharacterHit for an address that is mapped, that of a hit that has
\* its status never happens.
LEMMA ForgetGood ==
  ASSUME NEW m, Good(m), NEW p
  PROVE  /\ Good(Forget(m, p))
         /\ p \notin DOMAIN Forget(m, p).characterHitMap
         /\ Forget(m, p).nextHitId = m.nextHitId
<1>1. CASE p \notin DOMAIN m.characterHitMap
  BY <1>1 DEF Forget
<1>2. CASE p \in DOMAIN m.characterHitMap
  <2>1. /\ m.hits[m.characterHitMap[p]].setup = FALSE
        /\ m.hits[m.characterHitMap[p]].enter = FALSE
    BY <1>2 DEF Good, Waiting
  <2>2. Forget(m, p) = DeleteHit(m, m.characterHitMap[p])
    BY <1>2, <2>1 DEF Forget
  <2> QED
    BY <1>2, <2>2, DeleteGood
<1> QED
  BY <1>1, <1>2

LEMMA OnCharacterHitGood ==
  ASSUME NEW m, Good(m), NEW p
  PROVE  Good(OnCharacterHit(m, p))
<1> DEFINE f   == Forget(m, p)
           new == Create(f)
           id  == m.nextHitId
           n   == OnCharacterHit(m, p)
<1>1. Good(f) /\ p \notin DOMAIN f.characterHitMap /\ f.nextHitId = id
  BY ForgetGood
<1>2. /\ Good(new)
      /\ id \notin DOMAIN f.hits
      /\ DOMAIN new.hits = DOMAIN f.hits \cup {id}
      /\ new.hits[id] = NewHit
      /\ new.characterHitMap = f.characterHitMap
      /\ new.hitStatusMap = f.hitStatusMap
      /\ new.hitStatusDamageMap = f.hitStatusDamageMap
  BY <1>1, CreateGood
<1>3. /\ DOMAIN n = ManagerFields
      /\ n.hits = [new.hits EXCEPT ![id] = [@ EXCEPT !.dealt = TRUE, !.ptr = p]]
      /\ n.nextHitId = new.nextHitId
      /\ n.characterHitMap = Insert(new.characterHitMap, p, id)
      /\ n.hitStatusMap = new.hitStatusMap
      /\ n.hitStatusDamageMap = new.hitStatusDamageMap
  BY <1>2 DEF OnCharacterHit, Good, Shape, ManagerFields
<1>4. /\ DOMAIN n.hits = DOMAIN new.hits
      /\ \A x \in DOMAIN f.hits : n.hits[x] = new.hits[x]
      /\ n.hits[id] = [NewHit EXCEPT !.dealt = TRUE, !.ptr = p]
  BY <1>2, <1>3
<1>5. /\ DOMAIN n.hits[id] = HitFields /\ n.hits[id].ptr = p
      /\ n.hits[id].setup = FALSE /\ n.hits[id].enter = FALSE
  BY <1>4 DEF NewHit, HitFields
<1>6. /\ DOMAIN n.characterHitMap = DOMAIN f.characterHitMap \cup {p}
      /\ n.characterHitMap[p] = id
      /\ \A x \in DOMAIN f.characterHitMap : n.characterHitMap[x] = f.characterHitMap[x]
  BY <1>1, <1>2, <1>3 DEF Insert, Assign
<1>7. Shape(n) /\ Numbered(n)
  BY <1>2, <1>3, <1>4, <1>5 DEF Good, Shape, Numbered
<1>8. Waiting(n)
  <2>1. \A k \in DOMAIN f.characterHitMap : f.characterHitMap[k] \in DOMAIN f.hits
    BY <1>1 DEF Good, Waiting
  <2>2. \A k \in DOMAIN f.characterHitMap :
          /\ new.hits[f.characterHitMap[k]].ptr = k
          /\ new.hits[f.characterHitMap[k]].setup = FALSE
          /\ new.hits[f.characterHitMap[k]].enter = FALSE
    BY <1>2 DEF Good, Waiting
  <2>3. \A k \in DOMAIN f.characterHitMap :
          n.hits[n.characterHitMap[k]] = new.hits[f.characterHitMap[k]]
    BY <2>1, <1>4, <1>6
  <2>4. \A k \in DOMAIN f.characterHitMap :
          n.characterHitMap[k] \in DOMAIN n.hits
    BY <2>1, <1>2, <1>4, <1>6
  <2>5. id \in DOMAIN n.hits
    BY <1>2, <1>4
  <2>6. ASSUME NEW k \in DOMAIN n.characterHitMap
        PROVE  /\ n.characterHitMap[k] \in DOMAIN n.hits
               /\ n.hits[n.characterHitMap[k]].ptr = k
               /\ n.hits[n.characterHitMap[k]].setup = FALSE
               /\ n.hits[n.characterHitMap[k]].enter = FALSE
    <3>1. CASE k \in DOMAIN f.characterHitMap
      BY <3>1, <2>2, <2>3, <2>4
    <3>2. CASE k = p
      BY <3>2, <2>5, <1>5, <1>6
    <3> QED
      BY <3>1, <3>2, <1>6
  <2> QED
    BY <2>6 DEF Waiting
<1>9. SetUp(n) /\ Entered(n)
  BY <1>1, <1>2, <1>3, <1>4 DEF Good, SetUp, Entered
<1> QED
  BY <1>7, <1>8, <1>9 DEF Good

\* The record found by a map whose entries are hits, or a new one.
LEMMA HavingGood ==
  ASSUME NEW m, Good(m), NEW map, NEW k, k \in DOMAIN map => map[k] \in DOMAIN m.hits
  PROVE  /\ Good(Having(m, map, k))
         /\ Found(m, map, k) \in DOMAIN Having(m, map, k).hits
         /\ k \notin DOMAIN map => /\ Found(m, map, k) \notin DOMAIN m.hits
                                   /\ Having(m, map, k).hits[Found(m, map, k)] = NewHit
         /\ k \in DOMAIN map => Having(m, map, k) = m /\ Found(m, map, k) = map[k]
         /\ Having(m, map, k).characterHitMap = m.characterHitMap
         /\ Having(m, map, k).hitStatusMap = m.hitStatusMap
         /\ Having(m, map, k).hitStatusDamageMap = m.hitStatusDamageMap
BY CreateGood DEF Having, Found

LEMMA OnStatusHitSetupGood ==
  ASSUME NEW m, Good(m), NEW s, NEW p
  PROVE  Good(OnStatusHitSetup(m, s, p))
<1> DEFINE id  == Found(m, m.characterHitMap, p)
           h   == Having(m, m.characterHitMap, p)
           ptr == h.hits[id].ptr
           n   == OnStatusHitSetup(m, s, p)
<1>1. /\ Good(h)
      /\ id \in DOMAIN h.hits
      /\ p \notin DOMAIN m.characterHitMap => id \notin DOMAIN m.hits
      /\ p \in DOMAIN m.characterHitMap => h = m /\ id = m.characterHitMap[p]
      /\ h.characterHitMap = m.characterHitMap
  <2>1. p \in DOMAIN m.characterHitMap => m.characterHitMap[p] \in DOMAIN m.hits
    BY DEF Good, Waiting
  <2> QED
    BY <2>1, HavingGood
<1>2. /\ DOMAIN n = ManagerFields
      /\ n.hits = [h.hits EXCEPT ![id] = [@ EXCEPT !.setup = TRUE, !.status = s, !.ptr = Null]]
      /\ n.nextHitId = h.nextHitId
      /\ n.hitStatusMap = Insert(h.hitStatusMap, s, id)
      /\ n.hitStatusDamageMap = h.hitStatusDamageMap
      /\ n.characterHitMap = IF ptr \in DOMAIN h.characterHitMap /\ h.characterHitMap[ptr] = id
                               THEN Without(h.characterHitMap, ptr) ELSE h.characterHitMap
  BY <1>1 DEF OnStatusHitSetup, Good, Shape, ManagerFields
<1>3. /\ DOMAIN n.hits = DOMAIN h.hits
      /\ \A x \in DOMAIN h.hits : x # id => n.hits[x] = h.hits[x]
      /\ n.hits[id] = [h.hits[id] EXCEPT !.setup = TRUE, !.status = s, !.ptr = Null]
  BY <1>1, <1>2
<1>4. /\ DOMAIN n.hits[id] = HitFields
      /\ n.hits[id].setup = TRUE
      /\ n.hits[id].enter = h.hits[id].enter
  <2>1. DOMAIN h.hits[id] = HitFields
    BY <1>1 DEF Good, Shape
  <2> QED
    BY <2>1, <1>3 DEF HitFields
<1>5. Shape(n) /\ Numbered(n)
  BY <1>1, <1>2, <1>3, <1>4 DEF Good, Shape, Numbered
\* No entry of characterHitMap_ is left that has the hit.
<1>6. /\ DOMAIN n.characterHitMap \subseteq DOMAIN h.characterHitMap
      /\ \A k \in DOMAIN n.characterHitMap :
           n.characterHitMap[k] = h.characterHitMap[k] /\ n.characterHitMap[k] # id
  <2>1. CASE ptr \in DOMAIN h.characterHitMap /\ h.characterHitMap[ptr] = id
    <3>1. \A k \in DOMAIN h.characterHitMap : h.characterHitMap[k] = id => k = ptr
      BY <1>1 DEF Good, Waiting
    <3>2. n.characterHitMap = Without(h.characterHitMap, ptr)
      BY <2>1, <1>2
    <3> QED
      BY <3>1, <3>2 DEF Without, Restrict
  <2>2. CASE ~(ptr \in DOMAIN h.characterHitMap /\ h.characterHitMap[ptr] = id)
    <3>1. \A k \in DOMAIN h.characterHitMap : h.characterHitMap[k] # id
      BY <2>2, <1>1 DEF Good, Waiting
    <3> QED
      BY <2>2, <3>1, <1>2
  <2> QED
    BY <2>1, <2>2
<1>7. Waiting(n)
  BY <1>1, <1>3, <1>6 DEF Good, Waiting
<1>8. SetUp(n)
  <2>1. /\ DOMAIN n.hitStatusMap = DOMAIN h.hitStatusMap \cup {s}
        /\ s \notin DOMAIN h.hitStatusMap => n.hitStatusMap[s] = id
        /\ \A x \in DOMAIN h.hitStatusMap : n.hitStatusMap[x] = h.hitStatusMap[x]
    BY <1>2 DEF Insert, Assign
  <2>2. \A x \in DOMAIN h.hitStatusMap :
          h.hitStatusMap[x] \in DOMAIN h.hits /\ h.hits[h.hitStatusMap[x]].setup = TRUE
    BY <1>1 DEF Good, SetUp
  <2>3. \A y \in DOMAIN h.hits : h.hits[y].setup = TRUE => n.hits[y].setup = TRUE
    BY <1>3, <1>4
  <2>4. id \in DOMAIN n.hits /\ n.hits[id].setup = TRUE /\ DOMAIN n.hits = DOMAIN h.hits
    BY <1>1, <1>3, <1>4
  <2> QED
    BY <2>1, <2>2, <2>3, <2>4 DEF SetUp
<1>9. Entered(n)
  <2>1. \A x \in DOMAIN h.hitStatusDamageMap :
          /\ h.hitStatusDamageMap[x] \in DOMAIN h.hits
          /\ h.hits[h.hitStatusDamageMap[x]].enter = TRUE
    BY <1>1 DEF Good, Entered
  <2>2. \A y \in DOMAIN h.hits : h.hits[y].enter = TRUE => n.hits[y].enter = TRUE
    BY <1>3, <1>4
  <2> QED
    BY <2>1, <2>2, <1>2, <1>3 DEF Entered
<1> QED
  BY <1>5, <1>7, <1>8, <1>9 DEF Good

LEMMA OnStatusHitEnterGood ==
  ASSUME NEW m, Good(m), NEW s
  PROVE  Good(OnStatusHitEnter(m, s))
<1> DEFINE id == Found(m, m.hitStatusMap, s)
           h  == Having(m, m.hitStatusMap, s)
           n  == OnStatusHitEnter(m, s)
<1>1. /\ Good(h)
      /\ id \in DOMAIN h.hits
      /\ s \notin DOMAIN m.hitStatusMap => id \notin DOMAIN m.hits
      /\ s \in DOMAIN m.hitStatusMap => h = m /\ id = m.hitStatusMap[s]
      /\ h.characterHitMap = m.characterHitMap
  BY HavingGood DEF Good, SetUp
<1>2. /\ DOMAIN n = ManagerFields
      /\ n.hits = [h.hits EXCEPT ![id] = [@ EXCEPT !.enter = TRUE, !.status = s]]
      /\ n.nextHitId = h.nextHitId
      /\ n.characterHitMap = h.characterHitMap
      /\ n.hitStatusMap = h.hitStatusMap
      /\ n.hitStatusDamageMap = Insert(h.hitStatusDamageMap, s, id)
  BY <1>1 DEF OnStatusHitEnter, Good, Shape, ManagerFields
<1>3. /\ DOMAIN n.hits = DOMAIN h.hits
      /\ \A x \in DOMAIN h.hits : x # id => n.hits[x] = h.hits[x]
      /\ n.hits[id] = [h.hits[id] EXCEPT !.enter = TRUE, !.status = s]
  BY <1>1, <1>2
<1>4. /\ DOMAIN n.hits[id] = HitFields
      /\ n.hits[id].enter = TRUE
      /\ n.hits[id].setup = h.hits[id].setup
  <2>1. DOMAIN h.hits[id] = HitFields
    BY <1>1 DEF Good, Shape
  <2> QED
    BY <2>1, <1>3 DEF HitFields
<1>5. Shape(n) /\ Numbered(n)
  BY <1>1, <1>2, <1>3, <1>4 DEF Good, Shape, Numbered
\* A hit that is found was set up, so it does not wait; a new one is in no map.
<1>6. \A k \in DOMAIN h.characterHitMap : h.characterHitMap[k] # id
  <2>1. CASE s \in DOMAIN m.hitStatusMap
    BY <2>1, <1>1 DEF Good, SetUp, Waiting
  <2>2. CASE s \notin DOMAIN m.hitStatusMap
    BY <2>2, <1>1 DEF Good, Waiting
  <2> QED
    BY <2>1, <2>2
<1>7. Waiting(n)
  BY <1>1, <1>2, <1>3, <1>6 DEF Good, Waiting
<1>8. SetUp(n)
  BY <1>1, <1>2, <1>3, <1>4 DEF Good, SetUp
<1>9. Entered(n)
  <2>1. /\ DOMAIN n.hitStatusDamageMap = DOMAIN h.hitStatusDamageMap \cup {s}
        /\ s \notin DOMAIN h.hitStatusDamageMap => n.hitStatusDamageMap[s] = id
        /\ \A x \in DOMAIN h.hitStatusDamageMap :
             n.hitStatusDamageMap[x] = h.hitStatusDamageMap[x]
    BY <1>2 DEF Insert, Assign
  <2>2. \A x \in DOMAIN h.hitStatusDamageMap :
          /\ h.hitStatusDamageMap[x] \in DOMAIN h.hits
          /\ h.hits[h.hitStatusDamageMap[x]].enter = TRUE
    BY <1>1 DEF Good, Entered
  <2>3. \A y \in DOMAIN h.hits : h.hits[y].enter = TRUE => n.hits[y].enter = TRUE
    BY <1>3, <1>4
  <2> QED
    BY <2>1, <2>2, <2>3, <1>1, <1>3, <1>4 DEF Entered
<1> QED
  BY <1>5, <1>7, <1>8, <1>9 DEF Good

-----------------------------------------------------------------------------
(* The specification. *)

IInv == Good(pendingHits)

LEMMA InitGood == Init => IInv
BY NoHitsGood DEF Init, IInv

LEMMA HitsKeep == IInv /\ Hits => IInv'
<1> SUFFICES ASSUME IInv, Hits PROVE IInv'
  OBVIOUS
<1>1. CASE \E p \in Infos : CharacterHit(p)
  BY <1>1 DEF CharacterHit, IInv
<1>2. CASE CharacterHitReturns
  BY <1>2, OnCharacterHitGood DEF CharacterHitReturns, IInv
<1>3. CASE HitPrepare \/ ExecuteHit \/ ExecuteReturns \/ ExecuteApply
  BY <1>3 DEF HitPrepare, ExecuteHit, ExecuteReturns, ExecuteApply, OnApplyStatus, IInv
<1>4. CASE \/ \E h \in DOMAIN helpers : HitExecuteFails(h)
           \/ \E h \in DOMAIN helpers, s \in Statuses, simulate \in BOOLEAN :
                HitExecute(h, s, simulate)
  BY <1>4 DEF HitExecuteFails, HitExecute, IInv
<1>5. CASE \E s \in Statuses, p \in Infos : StatusHitSetup(s, p)
  BY <1>5, OnStatusHitSetupGood DEF StatusHitSetup, IInv
<1> QED
  BY <1>1, <1>2, <1>3, <1>4, <1>5 DEF Hits

LEMMA MachineKeeps == IInv /\ Machine => IInv'
<1> SUFFICES ASSUME IInv, Machine PROVE IInv'
  OBVIOUS
<1>1. CASE \E s \in Statuses : ApplyStatus(s) \/ DeleteStatus(s) \/ Update(s)
  BY <1>1 DEF ApplyStatus, OnApplyStatus, DeleteStatus, Update, IInv
<1>2. CASE \E s \in Statuses, b \in BOOLEAN : PreventApply(s, b)
  BY <1>2 DEF PreventApply, IInv
<1>3. CASE StatusAttempted \/ \E b \in BOOLEAN : BeforeStatusApply(b)
  BY <1>3 DEF StatusAttempted, BeforeStatusApply, IInv
<1>4. CASE EnterStatus
  BY <1>4, OnStatusHitEnterGood DEF EnterStatus, IInv
<1>5. CASE CharacterApplyDamage \/ EnterStatusReturns \/ ApplyStatusReturns
  BY <1>5 DEF CharacterApplyDamage, EnterStatusReturns, ApplyStatusReturns, IInv
<1>6. CASE DeleteStatusReturns \/ DeletedTwice \/ Activate
  BY <1>6 DEF DeleteStatusReturns, DeletedTwice, Activate, IInv
<1>7. CASE NewSession
  BY <1>7, NoHitsGood DEF NewSession, IInv
<1> QED
  BY <1>1, <1>2, <1>3, <1>4, <1>5, <1>6, <1>7 DEF Machine

LEMMA StepGood == IInv /\ [Next]_vars => IInv'
<1>1. CASE Next
  BY <1>1, HitsKeep, MachineKeeps DEF Next
<1>2. CASE UNCHANGED vars
  BY <1>2 DEF vars, IInv
<1> QED
  BY <1>1, <1>2

LEMMA GoodNotDangling == IInv => NoDangling
BY DEF IInv, Good, Waiting, SetUp, Entered, NoDangling

\* The maps of PendingHitManager (Hit.h:69-72) hold no pointer to a hit that DeleteHit
\* freed, whatever the order of hits, setups and applications.
THEOREM Live == Spec => []NoDangling
<1>1. Spec => []IInv
  BY InitGood, StepGood, PTL DEF Spec
<1> QED
  BY <1>1, GoodNotDangling, PTL
=============================================================================
