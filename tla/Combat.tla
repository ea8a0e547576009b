------------------------------- MODULE Combat -------------------------------
(***************************************************************************)
(* Hits and statuses of one status machine of the server.  Scripts run in  *)
(* the middle of the game's calls and call back into the game, so calls of *)
(* the hooks nest: stack has the hooks that have not returned.             *)
(*                                                                         *)
(* PendingHitManager joins what is known of a hit when the damage is dealt *)
(* (Character::Hit), when its status is prepared (StatusHit::Setup) and    *)
(* when that is applied, by the addresses of the damage info and of the    *)
(* status.  Every status here is a HIT.                                    *)
(***************************************************************************)
EXTENDS Naturals, Sequences, SequencesExt, Functions, FiniteSets

CONSTANTS
  Statuses,    \* addresses of statuses, and of the damage info in them
  Infos,       \* addresses of other damage infos
  Null,        \* nullptr
  MaxHits,     \* bound on the hits of a session
  MaxHelpers,  \* bound on the damage helpers of a session
  MaxDepth     \* bound on the depth at which scripts still call

ASSUME CombatAssumption ==
  /\ Statuses \cap Infos = {} /\ Null \notin Statuses \cup Infos
  /\ MaxHits \in Nat /\ MaxHelpers \in Nat /\ MaxDepth \in Nat

Pointers == Statuses \cup Infos

VARIABLES
  pendingHits,     \* PendingHits: the hits by id, the next id and the three maps
  helpers,         \* DamageHelpers: id |-> type
  nextHelperId,    \* ... and the next id
  active,          \* IsStatusMachineActive
  list,            \* Statuses of the machine
  prevent,         \* PreventStatusApply of the machine
  pendingStatuses, \* PendingStatuses: status |-> PreventApply
  pendingApply,    \* pendingApply_: status |-> PendingDelete
  requested,       \* the statuses with the flag RequestDelete
  life,            \* what became of the object: "none", "made" or "applied"
  stack, crashed,
  asked,           \* history: statuses whose handlers asked in time to prevent them
  dealt,           \* history: damage info |-> the hit that filled it, 0: none
  own,             \* history: status |-> the hit it was set up from, 0: none
  seen, reused     \* history: addresses of statuses that were used, used again

statusVars == <<active, list, prevent, pendingStatuses, pendingApply, requested, asked>>
helperVars == <<helpers, nextHelperId>>
origins    == <<dealt, own, seen, reused>>
vars == <<pendingHits, helperVars, statusVars, origins, life, stack, crashed>>

-----------------------------------------------------------------------------
(* The stack. *)

Top           == Last(stack)
Push(frame)   == stack' = Append(stack, frame)
Return        == stack' = Front(stack)
Instead(frame) == stack' = Append(Front(stack), frame)

TopIs(op)          == stack # <<>> /\ Top.op = op
TopIsAt(op, stage) == TopIs(op) /\ Top.stage = stage
GoTo(stage)        == Instead([Top EXCEPT !.stage = stage])

\* A script, or the game, may call: from the top level, or in a handler.
MayCall ==
  /\ Len(stack) < MaxDepth
  /\ stack # <<>> => \/ Top.op \in {"hit", "enter", "delete"}
                     \/ Top.op = "apply" /\ Top.stage \in {"osiris", "lua"}

\* The status is in the hands of no hook.
Idle(s) == \A f \in ToSet(stack) : f.op # "hit" => f.s # s

-----------------------------------------------------------------------------
(* PendingHitManager: functions from its state to its state.                *)

Empty == [x \in {} |-> 0]

NoHits == [hits |-> Empty, nextHitId |-> 1, characterHitMap |-> Empty,
           hitStatusMap |-> Empty, hitStatusDamageMap |-> Empty]

\* std::unordered_map: insert leaves what is there.
Assign(map, k, v) == [x \in DOMAIN map \cup {k} |-> IF x = k THEN v ELSE map[x]]
Insert(map, k, v) == IF k \in DOMAIN map THEN map ELSE Assign(map, k, v)
Without(map, k)   == Restrict(map, DOMAIN map \ {k})

\* Variant of the next: leaves the damage info mapped to the hit.
DeleteHitMapped(m, id) ==
  [m EXCEPT !.hits = Without(@, id),
            !.hitStatusDamageMap = IF m.hits[id].enter THEN Without(@, m.hits[id].status) ELSE @,
            !.hitStatusMap = IF m.hits[id].setup THEN Without(@, m.hits[id].status) ELSE @]

DeleteHit(m, id) ==
  LET hit == m.hits[id]
      mapped == hit.ptr \in DOMAIN m.characterHitMap /\ m.characterHitMap[hit.ptr] = id
  IN [m EXCEPT !.hits = Without(@, id),
               !.hitStatusDamageMap = IF hit.enter THEN Without(@, hit.status) ELSE @,
               !.hitStatusMap = IF hit.setup THEN Without(@, hit.status) ELSE @,
               !.characterHitMap = IF mapped THEN Without(@, hit.ptr) ELSE @]

\* A hit of its own.
NewHit == [dealt |-> FALSE, ptr |-> Null, status |-> Null, setup |-> FALSE, enter |-> FALSE]

\* Variant of the next: the id is given out again.
CreateStill(m) == [m EXCEPT !.hits = Assign(@, m.nextHitId, NewHit)]

Create(m) == [m EXCEPT !.hits = Assign(@, m.nextHitId, NewHit), !.nextHitId = @ + 1]

\* OnCharacterHit: what is known of the info is another hit's.
Forget(m, p) ==
  IF p \notin DOMAIN m.characterHitMap THEN m
  ELSE LET id == m.characterHitMap[p] IN
       IF m.hits[id].setup \/ m.hits[id].enter THEN [m EXCEPT !.hits[id].ptr = Null]
                                              ELSE DeleteHit(m, id)

OnCharacterHit(m, p) ==
  LET new == Create(Forget(m, p)) IN
  [new EXCEPT !.hits[m.nextHitId] = [@ EXCEPT !.dealt = TRUE, !.ptr = p],
              !.characterHitMap = Insert(@, p, m.nextHitId)]

\* The record that a map has for k, or a new one.
Found(m, map, k) == IF k \in DOMAIN map THEN map[k] ELSE m.nextHitId
Having(m, map, k) == IF k \in DOMAIN map THEN m ELSE Create(m)

\* Variant of the next: keeps the info mapped to the hit.
OnStatusHitSetupMapped(m, s, p) ==
  LET id == Found(m, m.characterHitMap, p) IN
  [Having(m, m.characterHitMap, p) EXCEPT
     !.hits[id] = [@ EXCEPT !.setup = TRUE, !.status = s],
     !.hitStatusMap = Insert(@, s, id)]

OnStatusHitSetup(m, s, p) ==
  LET id  == Found(m, m.characterHitMap, p)
      hit == Having(m, m.characterHitMap, p).hits[id]
  IN [Having(m, m.characterHitMap, p) EXCEPT
        !.hits[id] = [@ EXCEPT !.setup = TRUE, !.status = s, !.ptr = Null],
        !.hitStatusMap = Insert(@, s, id),
        !.characterHitMap = IF hit.ptr \in DOMAIN @ /\ @[hit.ptr] = id THEN Without(@, hit.ptr)
                                                                      ELSE @]

OnStatusHitEnter(m, s) ==
  LET id == Found(m, m.hitStatusMap, s) IN
  [Having(m, m.hitStatusMap, s) EXCEPT
     !.hits[id] = [@ EXCEPT !.enter = TRUE, !.status = s],
     !.hitStatusDamageMap = Insert(@, s, id)]

-----------------------------------------------------------------------------
(* Hits and damage helpers. *)

NewHelper(type) ==
  /\ nextHelperId <= MaxHelpers
  /\ helpers' = Assign(helpers, nextHelperId, type)
  /\ nextHelperId' = nextHelperId + 1

Destroy(h) == helpers' = Without(helpers, h) /\ UNCHANGED nextHelperId

\* HitProxy::OnCharacterHit, up to the handlers of OnPrepareHit.
HitFrame(p) == [op |-> "hit", p |-> p, h |-> nextHelperId]

CharacterHit(p) ==
  /\ MayCall /\ \A f \in ToSet(stack) : f.op = "hit" => f.p # p
  /\ NewHelper("prepare") /\ Push(HitFrame(p))
  /\ UNCHANGED <<pendingHits, statusVars, origins, life, crashed>>

\* Variant of the next: keeps the helper.
CharacterHitLeaks ==
  /\ TopIs("hit") /\ pendingHits.nextHitId <= MaxHits
  /\ pendingHits' = OnCharacterHit(pendingHits, Top.p)
  /\ dealt' = [dealt EXCEPT ![Top.p] = pendingHits.nextHitId]
  /\ Return
  /\ UNCHANGED <<helperVars, statusVars, own, seen, reused, life, crashed>>

\* ... and from there on.
CharacterHitReturns ==
  /\ TopIs("hit") /\ pendingHits.nextHitId <= MaxHits
  /\ pendingHits' = OnCharacterHit(pendingHits, Top.p)
  /\ dealt' = [dealt EXCEPT ![Top.p] = pendingHits.nextHitId]
  /\ Destroy(Top.h) /\ Return
  /\ UNCHANGED <<statusVars, own, seen, reused, life, crashed>>

\* NRD_HitPrepare.
HitPrepare ==
  /\ MayCall /\ NewHelper("custom")
  /\ UNCHANGED <<pendingHits, statusVars, origins, life, stack, crashed>>

\* A status is constructed at an address.
Construct(s) ==
  /\ life[s] = "none" /\ Idle(s)
  /\ life' = [life EXCEPT ![s] = "made"]
  /\ seen' = seen \cup {s} /\ reused' = IF s \in seen THEN reused \cup {s} ELSE reused

\* Variant of the next: takes the helper of a hit that is being prepared.
HitExecuteAny(h, s, simulate) ==
  /\ MayCall /\ h \in DOMAIN helpers
  /\ Construct(s) /\ own' = [own EXCEPT ![s] = 0]
  /\ Push([op |-> "execute", stage |-> IF simulate THEN "hit" ELSE "apply", h |-> h, s |-> s])
  /\ UNCHANGED <<pendingHits, helperVars, statusVars, dealt, crashed>>

\* NRD_HitExecute: the status of a custom hit, ...
HitExecute(h, s, simulate) ==
  /\ MayCall /\ h \in DOMAIN helpers /\ helpers[h] = "custom"
  /\ Construct(s) /\ own' = [own EXCEPT ![s] = 0]
  /\ Push([op |-> "execute", stage |-> IF simulate THEN "hit" ELSE "apply", h |-> h, s |-> s])
  /\ UNCHANGED <<pendingHits, helperVars, statusVars, dealt, crashed>>

\* ... which there is none of if the target is gone or cannot have a status, ...
HitExecuteFails(h) ==
  /\ MayCall /\ h \in DOMAIN helpers /\ helpers[h] = "custom"
  /\ Destroy(h)
  /\ UNCHANGED <<pendingHits, statusVars, origins, life, stack, crashed>>

\* ... whose own damage info the simulated hit fills, ...
ExecuteHit ==
  /\ TopIsAt("execute", "hit") /\ NewHelper("prepare")
  /\ stack' = Append(Append(Front(stack), [Top EXCEPT !.stage = "apply"]), HitFrame(Top.s))
  /\ UNCHANGED <<pendingHits, statusVars, origins, life, crashed>>

\* ... and which is applied; see ExecuteApply.  The helper is used only once.
ExecuteReturns ==
  /\ TopIsAt("execute", "end")
  /\ Destroy(Top.h) /\ Return
  /\ UNCHANGED <<pendingHits, statusVars, origins, life, crashed>>

\* StatusHit::Setup, of a status for the hit that filled the info.
StatusHitSetup(s, p) ==
  /\ MayCall /\ Construct(s) /\ pendingHits.nextHitId <= MaxHits
  /\ \A f \in ToSet(stack) : f.op = "hit" => f.p # p
  /\ pendingHits' = OnStatusHitSetup(pendingHits, s, p)
  /\ own' = [own EXCEPT ![s] = dealt[p]] /\ dealt' = [dealt EXCEPT ![p] = 0]
  /\ UNCHANGED <<helperVars, statusVars, stack, crashed>>

-----------------------------------------------------------------------------
(* Statuses: apply, enter, delete. *)

ApplyFrame(s, stage) == [op |-> "apply", stage |-> stage, s |-> s, prev |-> FALSE]

\* HitProxy::OnApplyStatus, up to the handlers of OnStatusAttempt.  The events are left
\* out, and so is the rest of the hook, if the machine is not active.
OnApplyStatus(s) ==
  /\ life' = [life EXCEPT ![s] = "applied"]
  /\ IF active THEN /\ pendingStatuses' = Assign(pendingStatuses, s, FALSE)
                    /\ asked' = asked \ {s}
               ELSE UNCHANGED <<pendingStatuses, asked>>
  /\ UNCHANGED <<active, list, prevent, pendingApply, requested, helperVars, pendingHits,
                 origins, crashed>>

FirstStage == IF active THEN "osiris" ELSE "direct"

ApplyStatus(s) ==
  /\ MayCall /\ life[s] = "made" /\ Idle(s)
  /\ Push(ApplyFrame(s, FirstStage)) /\ OnApplyStatus(s)

ExecuteApply ==
  /\ TopIsAt("execute", "apply")
  /\ stack' = Append(Append(Front(stack), [Top EXCEPT !.stage = "end"]),
                     ApplyFrame(Top.s, FirstStage))
  /\ OnApplyStatus(Top.s)

\* NRD_StatusPreventApply, of any status that is pending.
PreventApply(s, b) ==
  /\ MayCall /\ s \in DOMAIN pendingStatuses
  /\ pendingStatuses' = [pendingStatuses EXCEPT ![s] = b]
  /\ asked' = IF \E f \in ToSet(stack) : f.op = "apply" /\ f.s = s /\ f.stage = "osiris"
                THEN IF b THEN asked \cup {s} ELSE asked \ {s}
                ELSE asked
  /\ UNCHANGED <<active, list, prevent, pendingApply, requested, helperVars, pendingHits,
                 origins, life, stack, crashed>>

\* The handlers are done: the machine gets their decision, and Lua is asked.
StatusAttempted ==
  /\ TopIsAt("apply", "osiris")
  /\ Instead([Top EXCEPT !.stage = "lua", !.prev = prevent])
  /\ prevent' = pendingStatuses[Top.s]
  /\ UNCHANGED <<active, list, pendingStatuses, pendingApply, requested, asked, helperVars,
                 pendingHits, origins, life, crashed>>

\* The wrapped ApplyStatus does not enter a status that is prevented.
BeforeStatusApply(b) ==
  /\ TopIsAt("apply", "lua")
  /\ prevent' = (prevent \/ b)
  /\ asked' = IF b THEN asked \cup {Top.s} ELSE asked
  /\ GoTo(IF prevent' THEN "skipped" ELSE "direct")
  /\ UNCHANGED <<active, list, pendingStatuses, pendingApply, requested, helperVars,
                 pendingHits, origins, life, crashed>>

\* OnStatusMachineEnter: the status joins the list, and its Enter runs with handlers that
\* are given the context of the hit.
EnterStatus ==
  /\ TopIsAt("apply", "direct") /\ pendingHits.nextHitId <= MaxHits
  /\ LET s == Top.s IN
     /\ pendingApply' = Assign(pendingApply, s, FALSE)
     /\ list' = Append(list, s)
     /\ pendingHits' = OnStatusHitEnter(pendingHits, s)
     /\ stack' = Append(Append(Front(stack), [Top EXCEPT !.stage = "entered"]),
                        [op |-> "enter", s |-> s,
                         context |-> Found(pendingHits, pendingHits.hitStatusMap, s)])
  /\ UNCHANGED <<active, prevent, pendingStatuses, requested, asked, helperVars, origins,
                 life, crashed>>

\* OnCharacterApplyDamage, by the status that enters: its handlers get a context, too.
CharacterApplyDamage ==
  /\ TopIs("enter")
  /\ Instead([Top EXCEPT !.context = IF Top.s \in DOMAIN pendingHits.hitStatusDamageMap
                                       THEN pendingHits.hitStatusDamageMap[Top.s] ELSE 0])
  /\ UNCHANGED <<pendingHits, helperVars, statusVars, origins, life, crashed>>

\* Variant of the next: does not put a status back whose deletion was requested.
EnterStatusDropped ==
  /\ TopIs("enter")
  /\ UNCHANGED list
  /\ pendingApply' = Without(pendingApply, Top.s)
  /\ Return
  /\ UNCHANGED <<active, prevent, pendingStatuses, requested, asked, helperVars, pendingHits,
                 origins, life, crashed>>

EnterStatusReturns ==
  /\ TopIs("enter")
  /\ list' = IF pendingApply[Top.s] THEN Append(list, Top.s) ELSE list
  /\ pendingApply' = Without(pendingApply, Top.s)
  /\ Return
  /\ UNCHANGED <<active, prevent, pendingStatuses, requested, asked, helperVars, pendingHits,
                 origins, life, crashed>>

\* Variant of the next: resets the flag of the machine.
ApplyStatusResets ==
  /\ TopIs("apply") /\ Top.stage \in {"skipped", "entered"}
  /\ prevent' = FALSE
  /\ pendingStatuses' = Without(pendingStatuses, Top.s)
  /\ life' = IF Top.stage = "skipped" THEN [life EXCEPT ![Top.s] = "none"] ELSE life
  /\ Return
  /\ UNCHANGED <<active, list, pendingApply, requested, asked, helperVars, pendingHits,
                 origins, crashed>>

\* The end of OnApplyStatus, and of a status that was prevented.
ApplyStatusReturns ==
  /\ TopIs("apply") /\ Top.stage \in {"skipped", "entered"}
  /\ prevent' = IF Top.s \in DOMAIN pendingStatuses THEN Top.prev ELSE prevent
  /\ pendingStatuses' = Without(pendingStatuses, Top.s)
  /\ life' = IF Top.stage = "skipped" THEN [life EXCEPT ![Top.s] = "none"] ELSE life
  /\ Return
  /\ UNCHANGED <<active, list, pendingApply, requested, asked, helperVars, pendingHits,
                 origins, crashed>>

\* OnStatusMachineDeleteStatusByHandle, up to the handlers of StatusDelete.  The status is
\* found by its handle, in the list or not.  (A handle of a status that is gone is not
\* given: the hook would use nullptr.)
DeleteStatus(s) ==
  /\ MayCall /\ life[s] # "none"
  /\ Push([op |-> "delete", s |-> s])
  /\ UNCHANGED <<pendingHits, helperVars, statusVars, origins, life, crashed>>

\* Array::remove: the last entry takes the place of the first that is s.
Removed(s) ==
  LET i == CHOOSE i \in DOMAIN list : list[i] = s /\ \A j \in 1 .. i - 1 : list[j] # s
  IN  Front([list EXCEPT ![i] = Last(list)])

\* The game frees the object.
Free(s) == list' = Removed(s) /\ life' = [life EXCEPT ![s] = "none"]

\* A hook under the top has the status in hand, and goes on with it.
Held(s) == \E f \in ToSet(Front(stack)) : f.op \in {"execute", "apply", "enter"} /\ f.s = s

\* The wrapped call.  What it does with a status that is not in the list is not known:
\* nothing, or it frees it; and if a hook has it in hand, what follows is undefined.
DeleteStatusByHandle(s) ==
  \/ s \in ToSet(list) /\ Free(s) /\ requested' = requested \ {s} /\ UNCHANGED crashed
  \/ s \notin ToSet(list) /\ UNCHANGED <<list, life, requested, crashed>>
  \/ /\ s \notin ToSet(list) /\ life' = [life EXCEPT ![s] = "none"]
     /\ requested' = requested \ {s} /\ crashed' = Held(s) /\ UNCHANGED list

\* ... and from there on.  A status that is being entered is taken from the list and
\* marked; any other one, and one that is marked already ("THIS WILL CRASH"), is deleted at
\* once.
DeleteStatusReturns ==
  /\ TopIs("delete") /\ life[Top.s] # "none" /\ Return
  /\ IF Top.s \in DOMAIN pendingApply /\ ~pendingApply[Top.s]
       THEN /\ pendingApply' = [pendingApply EXCEPT ![Top.s] = TRUE]
            /\ requested' = requested \cup {Top.s}
            /\ list' = Removed(Top.s) /\ UNCHANGED <<life, crashed>>
       ELSE DeleteStatusByHandle(Top.s) /\ UNCHANGED pendingApply
  /\ UNCHANGED <<active, prevent, pendingStatuses, asked, helperVars, pendingHits, origins>>

\* A handler deleted the status first: the hook reads the handle of its owner from an
\* object that is gone, and finds nothing if it gets that far.
DeletedTwice ==
  /\ TopIs("delete") /\ life[Top.s] = "none"
  /\ crashed' \in BOOLEAN /\ Return
  /\ UNCHANGED <<pendingHits, helperVars, statusVars, origins, life>>

\* The machine's Update deletes statuses that ended, or whose flag says so.  (Handlers of
\* BeforeStatusDelete that change the list are not modelled.)
Update(s) ==
  /\ stack = <<>> /\ s \in ToSet(list)
  /\ Free(s)
  /\ requested' = requested \ {s}
  /\ UNCHANGED <<active, prevent, pendingStatuses, pendingApply, asked, helperVars,
                 pendingHits, origins, stack, crashed>>

\* The machine becomes active when its session does.
Activate ==
  /\ stack = <<>> /\ ~active
  /\ active' = TRUE
  /\ UNCHANGED <<list, prevent, pendingStatuses, pendingApply, requested, asked, helperVars,
                 pendingHits, origins, life, stack, crashed>>

Nowhere == [s \in Statuses |-> "none"]
NoOrigin == [s \in Statuses |-> 0]
NoneDealt == [p \in Pointers |-> 0]

Init ==
  /\ pendingHits = NoHits /\ helpers = Empty /\ nextHelperId = 1
  /\ active = FALSE /\ list = <<>> /\ prevent = FALSE
  /\ pendingStatuses = Empty /\ pendingApply = Empty
  /\ requested = {} /\ asked = {} /\ seen = {} /\ reused = {}
  /\ life = Nowhere /\ own = NoOrigin /\ dealt = NoneDealt
  /\ stack = <<>> /\ crashed = FALSE

\* The server's state is created again, for the next session.
NewSession ==
  /\ stack = <<>>
  /\ pendingHits' = NoHits /\ helpers' = Empty /\ nextHelperId' = 1
  /\ active' = FALSE /\ list' = <<>> /\ prevent' = FALSE
  /\ pendingStatuses' = Empty /\ pendingApply' = Empty
  /\ requested' = {} /\ asked' = {} /\ seen' = {} /\ reused' = {}
  /\ life' = Nowhere /\ own' = NoOrigin /\ dealt' = NoneDealt
  /\ UNCHANGED <<stack, crashed>>

Hits ==
  \/ \E p \in Infos : CharacterHit(p)
  \/ CharacterHitReturns \/ HitPrepare \/ ExecuteHit \/ ExecuteReturns \/ ExecuteApply
  \/ \E h \in DOMAIN helpers : HitExecuteFails(h)
  \/ \E h \in DOMAIN helpers, s \in Statuses, simulate \in BOOLEAN : HitExecute(h, s, simulate)
  \/ \E s \in Statuses, p \in Infos : StatusHitSetup(s, p)

Machine ==
  \/ \E s \in Statuses : ApplyStatus(s) \/ DeleteStatus(s) \/ Update(s)
  \/ \E s \in Statuses, b \in BOOLEAN : PreventApply(s, b)
  \/ StatusAttempted \/ \E b \in BOOLEAN : BeforeStatusApply(b)
  \/ EnterStatus \/ CharacterApplyDamage \/ EnterStatusReturns \/ ApplyStatusReturns
  \/ DeleteStatusReturns \/ DeletedTwice
  \/ Activate \/ NewSession

Next == ~crashed /\ (Hits \/ Machine)

Spec == Init /\ [][Next]_vars

-----------------------------------------------------------------------------
(* Properties. *)

HitRecords == [dealt : BOOLEAN, ptr : Pointers \cup {Null}, status : Statuses \cup {Null},
               setup : BOOLEAN, enter : BOOLEAN]

HitFrames     == [op : {"hit"}, p : Pointers, h : Nat]
ExecuteFrames == [op : {"execute"}, stage : {"hit", "apply", "end"}, h : Nat, s : Statuses]
ApplyFrames   == [op : {"apply"}, stage : {"osiris", "lua", "direct", "skipped", "entered"},
                  s : Statuses, prev : BOOLEAN]
EnterFrames   == [op : {"enter"}, s : Statuses, context : Nat]
DeleteFrames  == [op : {"delete"}, s : Statuses]

Frames == HitFrames \cup ExecuteFrames \cup ApplyFrames \cup EnterFrames \cup DeleteFrames

\* The map has keys in D and values in R.
Maps(map, D, R) == DOMAIN map \subseteq D /\ \A k \in DOMAIN map : map[k] \in R

TypeOK ==
  /\ LET m   == pendingHits
         ids == 1 .. m.nextHitId - 1
     IN /\ m.nextHitId \in Nat \ {0}
        /\ Maps(m.hits, ids, HitRecords) /\ Maps(m.characterHitMap, Pointers, ids)
        /\ Maps(m.hitStatusMap, Statuses, ids) /\ Maps(m.hitStatusDamageMap, Statuses, ids)
  /\ nextHelperId \in Nat /\ Maps(helpers, 0 .. nextHelperId - 1, {"prepare", "custom"})
  /\ list \in Seq(Statuses) /\ life \in [Statuses -> {"none", "made", "applied"}]
  /\ active \in BOOLEAN /\ prevent \in BOOLEAN /\ crashed \in BOOLEAN
  /\ Maps(pendingStatuses, Statuses, BOOLEAN) /\ Maps(pendingApply, Statuses, BOOLEAN)
  /\ UNION {requested, asked, seen, reused} \subseteq Statuses
  /\ own \in [Statuses -> Nat] /\ dealt \in [Pointers -> Nat]
  /\ stack \in Seq(Frames)

\* The maps of PendingHitManager hold plain pointers into hits_: they never point to a hit
\* that was deleted, and characterHitMap_ only to hits that wait for their status.
NoDangling ==
  LET m == pendingHits IN
  /\ \A k \in DOMAIN m.characterHitMap :
       LET id == m.characterHitMap[k] IN
       id \in DOMAIN m.hits /\ m.hits[id].ptr = k /\ ~m.hits[id].setup /\ ~m.hits[id].enter
  /\ \A k \in DOMAIN m.hitStatusMap : m.hitStatusMap[k] \in DOMAIN m.hits
  /\ \A k \in DOMAIN m.hitStatusDamageMap : m.hitStatusDamageMap[k] \in DOMAIN m.hits

\* The context that handlers of StatusHitEnter and BeforeCharacterApplyDamage get is that
\* of the hit the status was set up from, however hits nest, and has no parameters of
\* another hit if there was none.  Except for a status at the address of an earlier one:
\* OnStatusHitDestroy, which should forget those, is called by nobody.
ContextIsOwn ==
  \A f \in ToSet(stack) : f.op = "enter" /\ f.s \notin reused =>
    IF own[f.s] # 0 THEN f.context = own[f.s]
                    ELSE f.context # 0 /\ ~pendingHits.hits[f.context].dealt

\* A status is entered if and only if no handler asked in time to prevent it: what the
\* handlers of statuses that are applied in between ask for makes no difference, and
\* neither does NRD_StatusPreventApply after the attempt (Docs/APIDocs.md:263).
PreventionIsOwn ==
  \A f \in ToSet(stack) : f.op = "apply" /\ f.s \in DOMAIN pendingStatuses =>
    /\ f.stage = "skipped" => f.s \in asked
    /\ f.stage \in {"direct", "entered"} => f.s \notin asked

\* OnCharacterHit uses its damage helper after the handlers ran: no script got to destroy
\* it (those of custom hits are the scripts' own).
HelpersLive ==
  \A f \in ToSet(stack) : f.op = "hit" => f.h \in DOMAIN helpers /\ helpers[f.h] = "prepare"

\* The game does not free a status whose Enter is running, unless its deletion is asked for
\* once more when it is marked (StatusHelpers.inl:79); and a deletion that was asked for in
\* Enter is not lost: the status is in the list, once, for the machine's Update.
DeletionWaits ==
  /\ \A f \in ToSet(stack) : f.op = "enter" =>
       life[f.s] = "applied" \/ (f.s \in DOMAIN pendingApply /\ pendingApply[f.s])
  /\ \A s \in requested : s \notin DOMAIN pendingApply => s \in ToSet(list)
  /\ IsInjective(list)

\* When all hooks have returned nothing is left of them.
NothingLeft ==
  stack = <<>> => /\ ~prevent /\ pendingStatuses = Empty /\ pendingApply = Empty
                  /\ \A h \in DOMAIN helpers : helpers[h] = "custom"

=============================================================================
