-------------------------- MODULE Session_proofs --------------------------
(***************************************************************************)
(* Proofs of Session's safety properties, for any values, any stats and    *)
(* any bound on the task queues.                                           *)
(***************************************************************************)
EXTENDS Session, TLAPS

-----------------------------------------------------------------------------
(* The inductive invariant: the VMs.                                        *)

Events   == {"ModuleLoading", "ModuleResume", "SessionLoading", "SessionLoaded"}
Module   == {"ModuleLoading", "ModuleResume"}
Vars     == Values \cup {NoValue}
Contexts == {"none", "Uninitialized", "Game"}
VM       == [ctx : Contexts, told : Seq(Events), vars : Vars, odd : BOOLEAN]

\* What scripts that were told t know: the session is loading, ...
Joining(t) == Len(t) = 2 /\ t[1] \in Module /\ t[2] = "SessionLoading"

\* ... or is loaded.  (A reset resumes the module twice.)
Informed(t) ==
  \/ Len(t) = 3 /\ t[1] \in Module /\ t[2] = "SessionLoading" /\ t[3] = "SessionLoaded"
  \/ /\ Len(t) = 4 /\ t[1] \in Module /\ t[2] = "ModuleResume"
     /\ t[3] = "SessionLoading" /\ t[4] = "SessionLoaded"

\* What the scripts of a side have been told, in game state s with the module prepared up
\* to step.
Told(t, s, step) ==
  /\ s = "Menu" \/ (s = "LoadModule" /\ step = "no") =>
       Len(t) = 0 \/ (Len(t) = 1 /\ t[1] \in Module)
  /\ step = "stats"    => Len(t) = 0
  /\ step = "skills"   => Len(t) = 1 /\ t[1] \in Module
  /\ s = "LoadSession" => Joining(t)
  /\ s \in InSession   => Informed(t)

\* The VM v of a side in that state.  In the menu, and from the end of OnStatsLoad to
\* UnloadSession, there is one for the game; else only one that a late reset has made.
Kept(v, s, step) ==
  /\ v.ctx = "none" => Len(v.told) = 0 /\ v.vars = NoValue /\ ~v.odd
  /\ v.odd => Len(v.told) = 0
  /\ step # "no" => s = "LoadModule" /\ v.ctx = "Game"
  /\ s \in {"Menu", "LoadSession"} \/ s \in InSession => v.ctx = "Game"
  /\ s \in {"none", "Idle", "LoadMenu", "UnloadSession"} => v.ctx = "none" \/ v.odd
  /\ v.ctx # "none" /\ ~v.odd => v.ctx = "Game" /\ Told(v.told, s, step)

VMsKept == \A p \in Sides : Kept(vm[p], state[p], prepared[p])

-----------------------------------------------------------------------------
(* The console and the game threads.                                        *)

Queued(p) == \E i \in 1 .. Len(tasks[p]) : tasks[p][i] = "console"

OneTask ==
  \A p, q \in Sides : \A i \in 1 .. Len(tasks[p]), j \in 1 .. Len(tasks[q]) :
    tasks[p][i] = "console" /\ tasks[q][j] = "console" => p = q /\ i = j

\* The task of the console is not queued yet, or it is in one queue, or it has been run and
\* one game thread is about to notify the console of it.
Handshake ==
  /\ console.pc # "prompt" => console.todo # <<>>
  /\ OneTask
  /\ \A p \in Sides : Queued(p) => console.pc \in {"locked", "waiting"} /\ completed = FALSE
  /\ \A p \in Sides : notifying[p] = TRUE => console.pc = "waiting" /\ completed = TRUE
  /\ \A p, q \in Sides : notifying[p] = TRUE /\ notifying[q] = TRUE => p = q
  /\ completed = TRUE => \E p \in Sides : notifying[p] = TRUE

-----------------------------------------------------------------------------
(* Savegames.                                                               *)

\* In game state s of a server with the VM v.  What is marked in a session is in the game:
\* that is why a savegame of it has all of the stats.
Sources(s, v) ==
  /\ s # "LoadSession" /\ s \notin InSession => v.vars = NoValue
  /\ s = "LoadSession" /\ source.read = "unread" =>
       v.vars = NoValue /\ source.vars = saved.vars /\ ext = EmptyExt /\ wanted = {}
  /\ s = "LoadSession" /\ source.read # "unread" /\ installed = TRUE /\ v.odd = FALSE =>
       v.vars = Returned
  /\ s = "LoadSession" => wiped = FALSE
  /\ /\ s = "LoadSession" \/ s \in InSession
     /\ source.read # "unread" /\ wiped = FALSE
     => ext.cached = source.vars /\ ext.kept = wanted
  /\ s \in InSession => source.read # "unread"
  /\ s = "LoadSession" \/ s \in InSession => ext.kept \subseteq entries

Savegames == Sources(state["server"], vm["server"])

-----------------------------------------------------------------------------
Sorts ==
  /\ state \in [Sides -> DOMAIN ServerMoves \cup DOMAIN ClientMoves]
  /\ state["server"] \in DOMAIN ServerMoves /\ state["client"] \in DOMAIN ClientMoves
  /\ prepared \in [Sides -> {"no", "stats", "skills"}]
  /\ vm \in [Sides -> VM]
  /\ installed \in BOOLEAN
  /\ ext \in [cached : Vars, kept : SUBSET Stats]
  /\ entries \in SUBSET Stats
  /\ source \in [vars : Vars, read : Reads]
  /\ saved \in [vars : Vars, stats : SUBSET Stats]
  /\ tasks \in [Sides -> Seq({"console", "local"})]
  /\ notifying \in [Sides -> BOOLEAN]
  /\ console \in [pc : {"prompt", "check", "accepted", "locked", "waiting"}, todo : Seq(Sides)]
  /\ completed \in BOOLEAN
  /\ resets \in Nat /\ wiped \in BOOLEAN /\ wanted \in SUBSET Stats

\* Messages to reset only go to a client that is connected.
Addressed == state["client"] \notin Connected => resets = 0

IInv == Sorts /\ VMsKept /\ Handshake /\ Savegames /\ Addressed

-----------------------------------------------------------------------------
(* VMs.                                                                     *)

LEMMA States ==
  /\ DOMAIN ServerMoves = {"none", "Idle", "LoadModule", "LoadSession", "LoadLevel", "Running",
                           "Save", "UnloadLevel", "UnloadSession"}
  /\ DOMAIN ClientMoves = {"LoadMenu", "Menu", "LoadModule", "LoadSession", "Running",
                           "UnloadSession"}
  /\ \A s \in DOMAIN ServerMoves : ServerMoves[s] \subseteq DOMAIN ServerMoves
  /\ \A s \in DOMAIN ClientMoves : ClientMoves[s] \subseteq DOMAIN ClientMoves
BY DEF ServerMoves, ClientMoves

LEMMA Concat ==
  ASSUME NEW S, NEW s \in Seq(S), NEW t \in Seq(S)
  PROVE  /\ s \o t \in Seq(S) /\ Len(s \o t) = Len(s) + Len(t)
         /\ \A i \in 1 .. Len(s) : (s \o t)[i] = s[i]
         /\ \A i \in 1 .. Len(t) : (s \o t)[Len(s) + i] = t[i]
OBVIOUS

LEMMA Announcements ==
  /\ \A e \in Events : <<e>> \in Seq(Events) /\ Len(<<e>>) = 1 /\ <<e>>[1] = e
  /\ SessionEvents \in Seq(Events) /\ Len(SessionEvents) = 2
  /\ SessionEvents[1] = "SessionLoading" /\ SessionEvents[2] = "SessionLoaded"
  /\ <<>> \in Seq(Events) /\ Len(<<>>) = 0
BY DEF SessionEvents, Events

\* A new VM has been told at most that the module resumes.
Fresh(v, c) ==
  /\ v.ctx = c /\ v.vars = NoValue /\ v.odd = FALSE /\ v.told \in Seq(Events)
  /\ c \in Contexts => v \in VM

LEMMA Started ==
  ASSUME NEW p, NEW c, NEW s
  PROVE  /\ Fresh(LuaStartup(p, c, s), c)
         /\ Resumes(p, s) => /\ Len(LuaStartup(p, c, s).told) = 1
                             /\ LuaStartup(p, c, s).told[1] = "ModuleResume"
         /\ ~Resumes(p, s) => Len(LuaStartup(p, c, s).told) = 0
<1> DEFINE t == IF Resumes(p, s) THEN <<"ModuleResume">> ELSE <<>>
<1>1. /\ t \in Seq(Events)
      /\ Resumes(p, s) => Len(t) = 1 /\ t[1] = "ModuleResume"
      /\ ~Resumes(p, s) => Len(t) = 0
  <2>1. /\ <<"ModuleResume">> \in Seq(Events) /\ <<"ModuleResume">>[1] = "ModuleResume"
        /\ Len(<<"ModuleResume">>) = 1
        /\ <<>> \in Seq(Events) /\ Len(<<>>) = 0
    BY DEF Events
  <2> QED
    BY <2>1
<1> HIDE DEF t
<1> DEFINE w == LuaStartup(p, c, s)
<1>2. NoVM \in [ctx : {"none"}, told : Seq(Events), vars : {NoValue}, odd : {FALSE}]
  <2>1. <<>> \in Seq(Events)
    OBVIOUS
  <2> QED
    BY <2>1 DEF NoVM
<1>3. w = [NoVM EXCEPT !.ctx = c, !.told = t]
  BY DEF LuaStartup, t
<1> HIDE DEF w
<1>4. /\ w \in [ctx : {c}, told : Seq(Events), vars : {NoValue}, odd : {FALSE}]
      /\ w.told = t
  BY <1>1, <1>2, <1>3
<1>5. Fresh(w, c)
  BY <1>4 DEF Fresh, VM, Vars
<1> QED
  BY <1>1, <1>4, <1>5 DEF w

LEMMA Loads ==
  ASSUME NEW p, NEW v, NEW c, NEW s
  PROVE  /\ v.ctx = c => LoadExtensionState(p, v, c, s) = v
         /\ v.ctx # c => LoadExtensionState(p, v, c, s) = LuaStartup(p, c, s)
BY DEF LoadExtensionState

LEMMA Thrown ==
  ASSUME NEW v \in VM, NEW events \in Seq(Events)
  PROVE  LET w == Throw(v, events) IN
         /\ w \in VM /\ w.ctx = v.ctx /\ w.vars = v.vars /\ w.odd = v.odd
         /\ v.ctx = "none" \/ v.odd => w = v
         /\ v.ctx # "none" /\ ~v.odd =>
              /\ Len(w.told) = Len(v.told) + Len(events)
              /\ \A i \in 1 .. Len(v.told) : w.told[i] = v.told[i]
              /\ \A i \in 1 .. Len(events) : w.told[Len(v.told) + i] = events[i]
<1> DEFINE t == v.told \o events
<1>1. v.told \in Seq(Events)
  BY DEF VM
<1>2. /\ t \in Seq(Events) /\ Len(t) = Len(v.told) + Len(events)
      /\ \A i \in 1 .. Len(v.told) : t[i] = v.told[i]
      /\ \A i \in 1 .. Len(events) : t[Len(v.told) + i] = events[i]
  BY <1>1, Concat
<1> HIDE DEF t
<1>3. CASE v.ctx = "none" \/ v.odd
  BY <1>3 DEF Throw
<1>4. CASE v.ctx # "none" /\ ~v.odd
  <2>1. Throw(v, events) = [v EXCEPT !.told = t]
    BY <1>4 DEF Throw, t
  <2>2. [v EXCEPT !.told = t] \in VM
    BY <1>2 DEF VM
  <2>3. /\ [v EXCEPT !.told = t].told = t /\ [v EXCEPT !.told = t].ctx = v.ctx
        /\ [v EXCEPT !.told = t].vars = v.vars /\ [v EXCEPT !.told = t].odd = v.odd
    BY DEF VM
  <2> QED
    BY <1>2, <1>4, <2>1, <2>2, <2>3
<1> QED
  BY <1>3, <1>4

\* One event.
LEMMA Hears ==
  ASSUME NEW v \in VM, NEW e \in Events
  PROVE  LET w == Throw(v, <<e>>) IN
         /\ w \in VM /\ w.ctx = v.ctx /\ w.vars = v.vars /\ w.odd = v.odd
         /\ v.ctx = "none" \/ v.odd => w = v
         /\ v.ctx # "none" /\ ~v.odd =>
              /\ Len(v.told) = 0 => Len(w.told) = 1 /\ w.told[1] = e
              /\ Len(v.told) = 1 => Len(w.told) = 2 /\ w.told[2] = e /\ w.told[1] = v.told[1]
              /\ Len(v.told) = 2 => /\ Len(w.told) = 3 /\ w.told[3] = e
                                    /\ w.told[1] = v.told[1] /\ w.told[2] = v.told[2]
<1> DEFINE w == Throw(v, <<e>>)
           n == Len(v.told)
<1>1. <<e>> \in Seq(Events) /\ Len(<<e>>) = 1 /\ <<e>>[1] = e /\ 1 \in 1 .. Len(<<e>>)
  BY Announcements
<1>2. /\ w \in VM /\ w.ctx = v.ctx /\ w.vars = v.vars /\ w.odd = v.odd
      /\ v.ctx = "none" \/ v.odd => w = v
      /\ v.ctx # "none" /\ ~v.odd =>
           /\ Len(w.told) = n + 1 /\ w.told[n + 1] = e
           /\ \A i \in 1 .. n : w.told[i] = v.told[i]
  BY <1>1, Thrown
<1>3. n \in Nat
  BY DEF VM
<1> HIDE DEF w, n
<1>4. /\ n = 0 => n + 1 = 1
      /\ n = 1 => n + 1 = 2 /\ 1 \in 1 .. n
      /\ n = 2 => n + 1 = 3 /\ 1 \in 1 .. n /\ 2 \in 1 .. n
  BY <1>3
<1>5. v.ctx # "none" /\ ~v.odd =>
           /\ n = 0 => Len(w.told) = 1 /\ w.told[1] = e
           /\ n = 1 => Len(w.told) = 2 /\ w.told[2] = e /\ w.told[1] = v.told[1]
           /\ n = 2 => /\ Len(w.told) = 3 /\ w.told[3] = e
                      /\ w.told[1] = v.told[1] /\ w.told[2] = v.told[2]
  BY <1>2, <1>4
<1> QED
  BY <1>2, <1>5 DEF w, n

\* A reset in a session, in the menu, and at an odd time.
LEMMA Resets ==
  ASSUME Sorts, NEW p \in Sides, NEW events \in Seq(Events)
  PROVE  LET v == Reset(p, events) IN
         /\ v \in VM /\ v.vars = NoValue
         /\ v.ctx = IF vm[p].ctx = "none" THEN "Uninitialized" ELSE vm[p].ctx
         /\ v.odd = (state[p] \notin {"Menu", "Running"})
         /\ v.odd => Len(v.told) = 0
         /\ state[p] = "Menu" => /\ Len(v.told) = 1 + Len(events) /\ v.told[1] = "ModuleResume"
                                 /\ \A i \in 1 .. Len(events) : v.told[1 + i] = events[i]
         /\ state[p] = "Running" => /\ Len(v.told) = 2 + Len(events)
                                    /\ v.told[1] = "ModuleResume" /\ v.told[2] = "ModuleResume"
                                    /\ \A i \in 1 .. Len(events) : v.told[2 + i] = events[i]
<1> DEFINE c == IF vm[p].ctx = "none" THEN "Uninitialized" ELSE vm[p].ctx
           new == LuaStartup(p, c, state[p])
           es == <<"ModuleResume">> \o events
<1>1. vm[p] \in VM /\ c \in Contexts /\ c # "none"
  BY DEF Sorts, VM, Contexts
<1>2. /\ new \in VM /\ Fresh(new, c)
      /\ Resumes(p, state[p]) => Len(new.told) = 1 /\ new.told[1] = "ModuleResume"
      /\ ~Resumes(p, state[p]) => Len(new.told) = 0
  <2>1. /\ Fresh(new, c)
        /\ Resumes(p, state[p]) => Len(new.told) = 1 /\ new.told[1] = "ModuleResume"
        /\ ~Resumes(p, state[p]) => Len(new.told) = 0
    BY Started
  <2> QED
    BY <1>1, <2>1 DEF Fresh
<1>3. /\ <<"ModuleResume">> \in Seq(Events) /\ Len(<<"ModuleResume">>) = 1
      /\ <<"ModuleResume">>[1] = "ModuleResume"
  BY DEF Events
<1>4. /\ es \in Seq(Events) /\ Len(es) = 1 + Len(events) /\ Len(events) \in Nat
      /\ es[1] = "ModuleResume" /\ \A i \in 1 .. Len(events) : es[1 + i] = events[i]
  BY <1>3, Concat
<1> HIDE DEF c, new, es
<1>5. CASE state[p] \in {"Menu", "Running"}
  <2> DEFINE w == Throw(new, es)
  <2>1. Reset(p, events) = w
    BY <1>5 DEF Reset, c, new, es
  <2>2. /\ w \in VM /\ w.ctx = c /\ w.vars = NoValue /\ w.odd = FALSE
        /\ Len(w.told) = Len(new.told) + Len(es)
        /\ \A i \in 1 .. Len(new.told) : w.told[i] = new.told[i]
        /\ \A i \in 1 .. Len(es) : w.told[Len(new.told) + i] = es[i]
    BY <1>1, <1>2, <1>4, Thrown DEF Fresh
  <2> HIDE DEF w
  <2>3. \A i \in 1 .. Len(events) : 1 + i \in 1 .. Len(es)
    BY <1>4
  <2>4. 1 \in 1 .. Len(es)
    BY <1>4
  <2>5. CASE state[p] = "Menu"
    <3>1. Len(new.told) = 0
      BY <1>2, <2>5 DEF Resumes
    <3>2. Len(w.told) = 1 + Len(events) /\ w.told[1] = "ModuleResume"
      BY <1>4, <2>2, <2>4, <3>1
    <3>3. \A i \in 1 .. Len(events) : w.told[1 + i] = events[i]
      BY <1>4, <2>2, <2>3, <3>1
    <3> QED
      BY <2>1, <2>2, <2>5, <3>2, <3>3 DEF c
  <2>6. CASE state[p] = "Running"
    <3>1. Len(new.told) = 1 /\ new.told[1] = "ModuleResume"
      BY <1>2, <2>6 DEF Resumes
    <3>2. Len(w.told) = 2 + Len(events) /\ w.told[1] = "ModuleResume"
      BY <1>4, <2>2, <2>4, <3>1
    <3>3. w.told[2] = "ModuleResume"
      BY <1>4, <2>2, <2>4, <3>1
    <3>4. \A i \in 1 .. Len(events) : w.told[2 + i] = events[i]
      <4>1. \A i \in 1 .. Len(events) : w.told[1 + (1 + i)] = events[i]
        BY <1>4, <2>2, <2>3, <3>1
      <4> QED
        BY <4>1
    <3> QED
      BY <2>1, <2>2, <2>6, <3>2, <3>3, <3>4 DEF c
  <2> QED
    BY <1>5, <2>5, <2>6
<1>6. CASE state[p] \notin {"Menu", "Running"}
  <2>1. Reset(p, events) = [new EXCEPT !.told = <<>>, !.odd = TRUE]
    BY <1>6 DEF Reset, c, new, es
  <2>2. <<>> \in Seq(Events) /\ Len(<<>>) = 0
    OBVIOUS
  <2>3. LET w == [new EXCEPT !.told = <<>>, !.odd = TRUE] IN
        w \in VM /\ w.told = <<>> /\ w.odd = TRUE /\ w.vars = new.vars /\ w.ctx = new.ctx
    BY <1>2, <2>2 DEF VM
  <2> QED
    BY <1>2, <1>6, <2>1, <2>2, <2>3 DEF Fresh, c
<1> QED
  BY <1>5, <1>6

-----------------------------------------------------------------------------
(* What leaves the parts of the invariant alone.                            *)

LEMMA VMsStep ==
  ASSUME VMsKept, UNCHANGED <<state, prepared>>, NEW p \in Sides,
         Kept(vm'[p], state[p], prepared[p]),
         \A q \in Sides : q # p => vm'[q] = vm[q]
  PROVE  VMsKept'
BY DEF VMsKept

LEMMA HandshakeKept ==
  ASSUME Handshake, UNCHANGED <<tasks, console, notifying, completed>>
  PROVE  Handshake'
BY DEF Handshake, OneTask, Queued

\* New entries do not matter.
LEMMA SavegamesKept ==
  ASSUME Savegames, UNCHANGED <<ext, source, saved, installed, wiped, wanted>>,
         entries \subseteq entries',
         state'["server"] = state["server"], vm'["server"] = vm["server"]
  PROVE  Savegames'
BY DEF Savegames, Sources, Returned

LEMMA ResetKept ==
  ASSUME Sorts, VMsKept, NEW p \in Sides, NEW events \in Seq(Events),
         state[p] = "Menu" => events = <<>>,
         state[p] = "Running" => events = SessionEvents
  PROVE  Kept(Reset(p, events), state[p], prepared[p])
<1> DEFINE v == Reset(p, events)
           s == state[p]
           k == vm[p]
<1>1. /\ v \in VM /\ v.vars = NoValue
      /\ v.ctx = IF k.ctx = "none" THEN "Uninitialized" ELSE k.ctx
      /\ v.odd = (s \notin {"Menu", "Running"})
      /\ v.odd => Len(v.told) = 0
      /\ s = "Menu" => /\ Len(v.told) = 1 + Len(events) /\ v.told[1] = "ModuleResume"
      /\ s = "Running" => /\ Len(v.told) = 2 + Len(events)
                          /\ v.told[1] = "ModuleResume" /\ v.told[2] = "ModuleResume"
                          /\ \A i \in 1 .. Len(events) : v.told[2 + i] = events[i]
  BY Resets
<1>2. Kept(k, s, prepared[p])
  BY DEF VMsKept
<1> HIDE DEF v, s, k
<1>3. s = "Menu" => Len(v.told) = 1 /\ v.told[1] \in Module
  BY <1>1, Announcements DEF s, Module
<1>4. s = "Running" => Informed(v.told)
  <2> SUFFICES ASSUME s = "Running" PROVE Informed(v.told)
    OBVIOUS
  <2>1. events = SessionEvents
    BY DEF s
  <2>2. Len(events) = 2 /\ events[1] = "SessionLoading" /\ events[2] = "SessionLoaded"
    BY <2>1, Announcements
  <2>3. /\ Len(v.told) = 4 /\ v.told[1] = "ModuleResume" /\ v.told[2] = "ModuleResume"
        /\ \A i \in 1 .. 2 : v.told[2 + i] = events[i]
    BY <1>1, <2>2
  <2>4. v.told[2 + 1] = events[1] /\ v.told[2 + 2] = events[2]
    BY <2>3
  <2>5. v.told[3] = "SessionLoading" /\ v.told[4] = "SessionLoaded"
    BY <2>2, <2>4
  <2> QED
    BY <2>3, <2>5 DEF Informed, Module
<1>5. v.ctx # "none" /\ (k.ctx = "Game" => v.ctx = "Game")
  BY <1>1
<1>6. s \in {"Menu", "LoadSession"} \/ s \in InSession \/ prepared[p] # "no" => k.ctx = "Game"
  BY <1>2 DEF Kept
<1>7. prepared[p] # "no" => s = "LoadModule"
  BY <1>2 DEF Kept
<1>8. v.odd = FALSE => s \in {"Menu", "Running"} /\ Told(v.told, s, prepared[p])
  BY <1>1, <1>3, <1>4, <1>7 DEF Told, InSession
<1>9. v.odd = TRUE <=> s \notin {"Menu", "Running"}
  BY <1>1
<1>10. Kept(v, s, prepared[p])
  BY <1>1, <1>5, <1>6, <1>7, <1>8, <1>9 DEF Kept, InSession
<1> QED
  BY <1>10 DEF v, s

\* ResetLuaState, with the rest of the action.
LEMMA ResetLuaStateKeeps ==
  ASSUME Sorts, VMsKept, Savegames, NEW p \in Sides, ResetLuaState(p),
         UNCHANGED <<state, prepared, installed, entries, saved>>
  PROVE  /\ VMsKept' /\ Savegames'
         /\ vm' \in [Sides -> VM] /\ ext' \in [cached : Vars, kept : SUBSET Stats]
         /\ wiped' \in BOOLEAN /\ wanted' \in SUBSET Stats
         /\ source' \in [vars : Vars, read : Reads]
<1>1. CASE vm[p].ctx = "none"
  <2>1. UNCHANGED <<vm, ext, wiped, source, wanted>>
    BY <1>1 DEF ResetLuaState
  <2> QED
    BY <2>1, SavegamesKept DEF Sorts, VMsKept
<1>2. CASE vm[p].ctx # "none"
  <2> DEFINE events == IF state[p] = "Running" THEN SessionEvents ELSE <<>>
             v == Reset(p, events)
  <2>1. events \in Seq(Events)
    BY Announcements
  <2>2. /\ state[p] = "Menu" => events = <<>>
        /\ state[p] = "Running" => events = SessionEvents
    OBVIOUS
  <2>3. /\ vm' = [vm EXCEPT ![p] = v]
        /\ IF p = "server" /\ state[p] = "Running"
             THEN ext' = EmptyExt /\ wiped' = TRUE /\ source' = NewGame /\ wanted' = {}
             ELSE UNCHANGED <<ext, wiped, source, wanted>>
    BY <1>2 DEF ResetLuaState, Forget
  <2> HIDE DEF events
  <2>4. /\ v \in VM /\ v.vars = NoValue /\ v.odd = (state[p] \notin {"Menu", "Running"})
        /\ Kept(v, state[p], prepared[p])
    BY <2>1, <2>2, Resets, ResetKept
  <2> HIDE DEF v
  <2>5. vm' \in [Sides -> VM] /\ vm'[p] = v /\ \A q \in Sides : q # p => vm'[q] = vm[q]
    BY <2>3, <2>4 DEF Sorts
  <2>6. VMsKept'
    BY <2>4, <2>5, VMsStep
  <2>7. /\ ext' \in [cached : Vars, kept : SUBSET Stats] /\ wiped' \in BOOLEAN
        /\ source' \in [vars : Vars, read : Reads] /\ wanted' \in SUBSET Stats
    <3>1. EmptyExt \in [cached : Vars, kept : SUBSET Stats]
          /\ NewGame \in [vars : Vars, read : Reads]
      BY DEF EmptyExt, NewGame, Vars, Reads
    <3> QED
      BY <2>3, <3>1 DEF Sorts
  <2>8. Savegames'
    <3>1. CASE p = "client"
      <4>1. vm'["server"] = vm["server"] /\ UNCHANGED <<ext, wiped, source, wanted>>
        BY <2>3, <2>5, <3>1 DEF Sides
      <4> QED
        BY <4>1, SavegamesKept
    <3>2. CASE p = "server" /\ state[p] = "Running"
      <4>1. vm'["server"] = v /\ ext' = EmptyExt /\ wiped' = TRUE /\ source' = NewGame
        BY <2>3, <2>5, <3>2
      <4> QED
        BY <2>4, <3>2, <4>1 DEF Savegames, Sources, EmptyExt, NewGame, InSession
    <3>3. CASE p = "server" /\ state[p] # "Running"
      <4>1. vm'["server"] = v /\ UNCHANGED <<ext, wiped, source, wanted>>
        BY <2>3, <2>5, <3>3
      <4>2. v.odd = TRUE \/ state["server"] = "Menu"
        BY <2>4, <3>3
      <4>3. state["server"] # "Menu"
        BY States DEF Sorts
      <4> QED
        BY <2>4, <3>3, <4>1, <4>2, <4>3 DEF Savegames, Sources, Returned
    <3> QED
      BY <3>1, <3>2, <3>3 DEF Sides
  <2> QED
    BY <2>5, <2>6, <2>7, <2>8
<1> QED
  BY <1>1, <1>2

-----------------------------------------------------------------------------
(* Changes of the game state.                                               *)

LEMMA Transitions ==
  ASSUME Sorts, NEW p \in Sides, NEW to \in Moves(p)[state[p]]
  PROVE  \/ state[p] = "LoadModule"    /\ to = "LoadSession"
         \/ state[p] = "LoadMenu"      /\ to = "Menu"
         \/ state[p] = "LoadSession"   /\ to \in {"LoadLevel", "Running"}
         \/ state[p] = "UnloadSession" /\ to = "LoadSession"
         \/ state[p] = "UnloadSession" /\ to \in {"Idle", "LoadMenu"}
         \/ state[p] \in {"none", "Idle"} /\ to \in {"none", "Idle", "LoadModule"}
         \/ state[p] = "Menu" /\ to = "LoadModule"
         \/ state[p] \in InSession /\ to \in InSession
         \/ state[p] \in InSession /\ to = "UnloadSession"
<1>1. CASE p = "server"
  BY <1>1 DEF Sorts, Moves, ServerMoves, InSession
<1>2. CASE p = "client"
  BY <1>2 DEF Sorts, Moves, ClientMoves, InSession, Sides
<1> QED
  BY <1>1, <1>2 DEF Sides

\* The VM of a side after a change of its state.
After(p, to) == Entering(p, Leaving(p, vm[p], to), to)

\* The VM v becomes w when the game leaves s for to.
Changes(v, s, w, to) ==
  /\ w \in VM /\ Kept(w, to, "no")
  /\ w.vars = v.vars \/ w.vars = NoValue
  /\ to = "UnloadSession" => w.vars = NoValue
  /\ (s = "LoadSession" \/ s \in InSession) /\ to # "UnloadSession" =>
       w.vars = v.vars /\ w.odd = v.odd

LEMMA VMChanges ==
  ASSUME Sorts, VMsKept, NEW p \in Sides, NEW to \in Moves(p)[state[p]],
         state[p] = "LoadModule" => prepared[p] = "skills"
  PROVE  Changes(vm[p], state[p], After(p, to), to)
<1> DEFINE v == vm[p]
           s == state[p]
           w == After(p, to)
<1> SUFFICES Changes(v, s, w, to)
  OBVIOUS
<1>1. v \in VM /\ Kept(v, s, prepared[p]) /\ v.odd \in BOOLEAN /\ Len(v.told) \in Nat
  BY DEF Sorts, VMsKept, VM
<1> HIDE DEF v, s, w
<1>2. CASE s = "LoadModule" /\ to = "LoadSession"
  <2>1. v.ctx = "Game" /\ (v.odd = FALSE => Len(v.told) = 1 /\ v.told[1] \in Module)
        /\ (v.odd = TRUE => Len(v.told) = 0)
    BY <1>1, <1>2 DEF Kept, Told, s
  <2>2. w = Throw(v, <<"SessionLoading">>)
    BY <1>2, <2>1 DEF After, Entering, Leaving, LoadExtensionState, v, s, w
  <2>3. /\ w \in VM /\ w.ctx = "Game" /\ w.vars = v.vars /\ w.odd = v.odd
        /\ v.odd = TRUE => w = v
        /\ v.odd = FALSE =>
             Len(w.told) = 2 /\ w.told[2] = "SessionLoading" /\ w.told[1] \in Module
    BY <1>1, <2>1, <2>2, Hears DEF Events
  <2> QED
    BY <1>1, <1>2, <2>1, <2>3 DEF Changes, Kept, Told, Joining, InSession
<1>3. CASE s = "LoadMenu" /\ to = "Menu"
  <2>1. v.ctx = "none" \/ v.odd = TRUE
    BY <1>1, <1>3 DEF Kept
  <2>2. w = LoadExtensionState(p, v, "Game", "Menu")
    BY <1>3 DEF After, Entering, Leaving, v, s, w
  <2>3. CASE v.ctx = "Game"
    BY <1>1, <1>3, <2>1, <2>2, <2>3, Loads DEF Changes, Kept, Told, InSession
  <2>4. CASE v.ctx # "Game"
    <3>1. w = LuaStartup(p, "Game", "Menu")
      BY <2>2, <2>4, Loads
    <3>2. Fresh(w, "Game") /\ Len(w.told) = 0
      BY <3>1, Started DEF Resumes
    <3> QED
      BY <1>3, <3>2 DEF Changes, Fresh, Contexts, Kept, Told, InSession
  <2> QED
    BY <2>3, <2>4
<1>4. CASE s = "LoadSession" /\ to \in {"LoadLevel", "Running"}
  <2>1. v.ctx = "Game" /\ (v.odd = FALSE => Joining(v.told)) /\ (v.odd = TRUE => Len(v.told) = 0)
    BY <1>1, <1>4 DEF Kept, Told
  <2>2. w = Throw(v, <<"SessionLoaded">>)
    BY <1>4 DEF After, Entering, Leaving, v, s, w
  <2>3. /\ w \in VM /\ w.ctx = "Game" /\ w.vars = v.vars /\ w.odd = v.odd
        /\ v.odd = TRUE => w = v
        /\ v.odd = FALSE =>
             /\ Len(w.told) = 3 /\ w.told[3] = "SessionLoaded"
             /\ w.told[1] = v.told[1] /\ w.told[2] = v.told[2]
    BY <1>1, <2>1, <2>2, Hears DEF Events, Joining
  <2>4. v.odd = FALSE => Informed(w.told)
    BY <2>1, <2>3 DEF Joining, Informed
  <2> QED
    BY <1>1, <1>4, <2>1, <2>3, <2>4 DEF Changes, Kept, Told, InSession
<1>5. CASE s = "UnloadSession" /\ to = "LoadSession"
  <2>1. (v.ctx = "none" \/ v.odd = TRUE) /\ (v.odd = TRUE => Len(v.told) = 0)
    BY <1>1, <1>5 DEF Kept
  <2> DEFINE u == LoadExtensionState(p, v, "Game", "LoadSession")
  <2>2. w = Throw(u, <<"SessionLoading">>)
    BY <1>5 DEF After, Entering, Leaving, v, s, w
  <2> HIDE DEF u
  <2>3. CASE v.ctx = "Game"
    <3>1. u = v /\ v.odd = TRUE
      BY <2>1, <2>3, Loads DEF u
    <3>2. w = v
      BY <1>1, <2>2, <3>1, Hears DEF Events
    <3> QED
      BY <1>1, <1>5, <2>1, <2>3, <3>1, <3>2 DEF Changes, Kept, InSession
  <2>4. CASE v.ctx # "Game"
    <3>1. u = LuaStartup(p, "Game", "LoadSession")
      BY <2>4, Loads DEF u
    <3>2. Fresh(u, "Game") /\ Len(u.told) = 1 /\ u.told[1] = "ModuleResume"
      BY <3>1, Started DEF Resumes
    <3>3. u \in VM /\ u.ctx = "Game" /\ u.odd = FALSE /\ u.vars = NoValue
      BY <3>2 DEF Fresh, Contexts
    <3>4. /\ w \in VM /\ w.ctx = "Game" /\ w.vars = NoValue /\ w.odd = FALSE
          /\ Len(w.told) = 2 /\ w.told[2] = "SessionLoading" /\ w.told[1] = "ModuleResume"
      BY <2>2, <3>2, <3>3, Hears DEF Events
    <3> QED
      BY <1>5, <3>4 DEF Changes, Kept, Told, Joining, Module, InSession
  <2> QED
    BY <2>3, <2>4
<1>6. CASE s \in InSession /\ to = "UnloadSession"
  <2>1. w = NoVM
    BY <1>6 DEF After, Entering, w
  <2>2. <<>> \in Seq(Events) /\ Len(<<>>) = 0
    OBVIOUS
  <2>3. NoVM \in VM /\ NoVM.ctx = "none" /\ NoVM.told = <<>> /\ NoVM.vars = NoValue
        /\ NoVM.odd = FALSE
    BY <2>2 DEF NoVM, VM, Contexts, Vars
  <2> QED
    BY <1>6, <2>1, <2>2, <2>3 DEF Changes, Kept, InSession
<1>7. CASE \/ s \in InSession /\ to \in InSession
           \/ s = "UnloadSession" /\ to \in {"Idle", "LoadMenu"}
           \/ s \in {"none", "Idle"} /\ to \in {"none", "Idle", "LoadModule"}
           \/ s = "Menu" /\ to = "LoadModule"
  <2>1. w = v
    BY <1>7 DEF After, Entering, Leaving, InSession, v, s, w
  <2>2. Kept(v, to, "no")
    BY <1>1, <1>7 DEF Kept, Told, InSession
  <2>3. to # "UnloadSession"
    BY <1>7 DEF InSession
  <2> QED
    BY <1>1, <2>1, <2>2, <2>3 DEF Changes
<1>8. \/ s = "LoadModule"    /\ to = "LoadSession"
      \/ s = "LoadMenu"      /\ to = "Menu"
      \/ s = "LoadSession"   /\ to \in {"LoadLevel", "Running"}
      \/ s = "UnloadSession" /\ to = "LoadSession"
      \/ s = "UnloadSession" /\ to \in {"Idle", "LoadMenu"}
      \/ s \in {"none", "Idle"} /\ to \in {"none", "Idle", "LoadModule"}
      \/ s = "Menu" /\ to = "LoadModule"
      \/ s \in InSession /\ to \in InSession
      \/ s \in InSession /\ to = "UnloadSession"
  BY Transitions DEF s
<1> QED
  BY <1>2, <1>3, <1>4, <1>5, <1>6, <1>7, <1>8

LEMMA GameStateChanges ==
  ASSUME Sorts, VMsKept, NEW p \in Sides, NEW to, OnGameStateChanged(p, to)
  PROVE  /\ VMsKept' /\ Changes(vm[p], state[p], vm'[p], to)
         /\ vm' \in [Sides -> VM] /\ prepared' \in [Sides -> {"no", "stats", "skills"}]
         /\ state' \in [Sides -> DOMAIN ServerMoves \cup DOMAIN ClientMoves]
         /\ state'["server"] \in DOMAIN ServerMoves /\ state'["client"] \in DOMAIN ClientMoves
         /\ to \in Moves(p)[state[p]] /\ state'[p] = to
         /\ \A q \in Sides : q # p => state'[q] = state[q] /\ vm'[q] = vm[q]
<1> DEFINE w == After(p, to)
<1>1. /\ to \in Moves(p)[state[p]] /\ (state[p] = "LoadModule" => prepared[p] = "skills")
      /\ state' = [state EXCEPT ![p] = to]
      /\ prepared' = [prepared EXCEPT ![p] = "no"]
  BY DEF OnGameStateChanged
<1>2. vm' = [vm EXCEPT ![p] = w]
  BY DEF OnGameStateChanged, After, Sorts
<1>3. Changes(vm[p], state[p], w, to)
  BY <1>1, VMChanges
<1> HIDE DEF w
<1>4. w \in VM /\ Kept(w, to, "no")
  BY <1>3 DEF Changes
<1>5. /\ vm' \in [Sides -> VM] /\ vm'[p] = w
      /\ prepared' \in [Sides -> {"no", "stats", "skills"}] /\ prepared'[p] = "no"
      /\ \A q \in Sides : q # p =>
           state'[q] = state[q] /\ vm'[q] = vm[q] /\ prepared'[q] = prepared[q]
  BY <1>1, <1>2, <1>4 DEF Sorts
<1>6. to \in (IF p = "server" THEN DOMAIN ServerMoves ELSE DOMAIN ClientMoves)
  BY <1>1, States DEF Sorts, Moves, Sides
<1>7. /\ state' \in [Sides -> DOMAIN ServerMoves \cup DOMAIN ClientMoves] /\ state'[p] = to
      /\ state'["server"] \in DOMAIN ServerMoves /\ state'["client"] \in DOMAIN ClientMoves
  <2>1. state' \in [Sides -> DOMAIN ServerMoves \cup DOMAIN ClientMoves] /\ state'[p] = to
    BY <1>1, <1>6 DEF Sorts
  <2>2. CASE p = "server"
    BY <1>5, <1>6, <2>1, <2>2 DEF Sorts, Sides
  <2>3. CASE p = "client"
    BY <1>5, <1>6, <2>1, <2>3 DEF Sorts, Sides
  <2> QED
    BY <2>1, <2>2, <2>3 DEF Sides
<1>8. VMsKept'
  BY <1>4, <1>5, <1>7 DEF VMsKept
<1> QED
  BY <1>1, <1>3, <1>5, <1>7, <1>8

LEMMA ClientStateChangedKeeps == ASSUME IInv, NEW to, ClientStateChanged(to) PROVE IInv'
<1>1. /\ OnGameStateChanged("client", to) /\ "client" \in Sides
      /\ resets' = IF to \in Connected THEN resets ELSE 0
      /\ UNCHANGED <<installed, ext, entries, source, saved, wiped, wanted>>
      /\ UNCHANGED <<tasks, notifying, console, completed>>
  BY DEF ClientStateChanged, OnGameStateChanged, serverData, sessionData, consoleVars, Sides
<1>2. /\ VMsKept' /\ state'["client"] = to
      /\ vm' \in [Sides -> VM] /\ prepared' \in [Sides -> {"no", "stats", "skills"}]
      /\ state' \in [Sides -> DOMAIN ServerMoves \cup DOMAIN ClientMoves]
      /\ state'["server"] \in DOMAIN ServerMoves /\ state'["client"] \in DOMAIN ClientMoves
      /\ state'["server"] = state["server"] /\ vm'["server"] = vm["server"]
  BY <1>1, GameStateChanges DEF IInv, Sides
<1>3. Sorts'
  BY <1>1, <1>2 DEF IInv, Sorts
<1>4. Addressed'
  BY <1>1, <1>2 DEF Addressed
<1>5. Handshake' /\ Savegames'
  BY <1>1, <1>2, HandshakeKept, SavegamesKept DEF IInv
<1> QED
  BY <1>2, <1>3, <1>4, <1>5 DEF IInv

LEMMA ServerStateChangedKeeps == ASSUME IInv, NEW to, ServerStateChanged(to) PROVE IInv'
<1> DEFINE s == state["server"]
           v == vm["server"]
           w == vm'["server"]
<1>1. /\ OnGameStateChanged("server", to) /\ "server" \in Sides
      /\ UNCHANGED <<saved, resets, entries>>
      /\ UNCHANGED <<tasks, notifying, console, completed>>
      /\ s = "LoadSession" => source.read # "unread"
  BY DEF ServerStateChanged, OnGameStateChanged, consoleVars, Sides, IInv, Sorts
<1>2. /\ VMsKept' /\ state'["server"] = to /\ Changes(v, s, w, to) /\ to \in Moves("server")[s]
      /\ vm' \in [Sides -> VM] /\ prepared' \in [Sides -> {"no", "stats", "skills"}]
      /\ state' \in [Sides -> DOMAIN ServerMoves \cup DOMAIN ClientMoves]
      /\ state'["server"] \in DOMAIN ServerMoves /\ state'["client"] \in DOMAIN ClientMoves
      /\ state'["client"] = state["client"]
  BY <1>1, GameStateChanges DEF IInv, Sides
<1>3. /\ to \notin {"LoadModule", "Idle"} => installed' = installed
      /\ to \in {"UnloadSession", "LoadSession"} =>
           ext' = EmptyExt /\ wiped' = FALSE /\ wanted' = {}
      /\ to \notin {"UnloadSession", "LoadSession"} => UNCHANGED <<ext, source, wiped, wanted>>
      /\ to = "LoadSession" =>
           source' = NewGame \/ source' = [vars |-> saved.vars, read |-> "unread"]
      /\ to = "UnloadSession" => source' = NewGame
      /\ installed' \in BOOLEAN
  BY DEF ServerStateChanged, SessionLoading, IInv, Sorts
<1>4. /\ NewGame \in [vars : Vars, read : Reads]
      /\ EmptyExt \in [cached : Vars, kept : SUBSET Stats]
      /\ NewGame.read = "restored" /\ NewGame.vars = NoValue
      /\ EmptyExt.cached = NoValue /\ EmptyExt.kept = {}
  BY DEF NewGame, EmptyExt, Vars, Reads
<1>5. Sorts'
  <2>1. /\ [vars |-> saved.vars, read |-> "unread"] \in [vars : Vars, read : Reads]
        /\ ext \in [cached : Vars, kept : SUBSET Stats]
        /\ source \in [vars : Vars, read : Reads]
        /\ wiped \in BOOLEAN /\ wanted \in SUBSET Stats
    BY DEF IInv, Sorts, Reads
  <2>2. /\ ext' \in [cached : Vars, kept : SUBSET Stats]
        /\ wiped' \in BOOLEAN /\ wanted' \in SUBSET Stats
    BY <1>3, <1>4, <2>1
  <2>3. source' \in [vars : Vars, read : Reads]
    BY <1>3, <1>4, <2>1
  <2> QED
    BY <1>1, <1>2, <1>3, <2>2, <2>3 DEF IInv, Sorts
<1>6. Addressed'
  BY <1>1, <1>2 DEF IInv, Addressed
<1>7. Handshake'
  BY <1>1, HandshakeKept DEF IInv
<1>8. Savegames'
  <2>1. Sources(s, v)
    BY DEF IInv, Savegames
  <2>2. w.vars = v.vars \/ w.vars = NoValue
    BY <1>2 DEF Changes
  <2> SUFFICES Sources(to, vm["server"])'
    BY <1>2 DEF Savegames
  <2> HIDE DEF s, v
  <2>3. CASE to = "LoadSession"
    <3>1. s # "LoadSession" /\ s \notin InSession
      BY <1>2, <2>3, Transitions DEF IInv, Sides, InSession, s
    <3>2. w.vars = NoValue
      BY <2>1, <2>2, <3>1 DEF Sources
    <3>3. /\ ext' = EmptyExt /\ ext'.cached = NoValue /\ ext'.kept = {}
          /\ wiped' = FALSE /\ wanted' = {} /\ vm'["server"].vars = NoValue
      BY <1>3, <1>4, <2>3, <3>2
    <3>4. CASE source' = NewGame
      <4>1. source'.vars = NoValue /\ source'.read = "restored"
        BY <1>4, <3>4
      <4> QED
        BY <2>3, <3>3, <4>1 DEF Sources, Returned, InSession
    <3>5. CASE source' = [vars |-> saved.vars, read |-> "unread"]
      <4>1. source'.vars = saved.vars /\ source'.read = "unread" /\ saved' = saved
        BY <1>1, <3>5
      <4> QED
        BY <2>3, <3>3, <4>1 DEF Sources, InSession
    <3> QED
      BY <1>3, <2>3, <3>4, <3>5
  <2>4. CASE to = "UnloadSession"
    BY <1>2, <2>4 DEF Changes, Sources, InSession
  <2>5. CASE to \in InSession
    <3>1. s = "LoadSession" \/ s \in InSession
      BY <1>2, <2>5, Transitions DEF IInv, Sides, InSession, s
    <3>2. w.vars = v.vars /\ UNCHANGED <<ext, source, wiped, wanted>>
      BY <1>2, <1>3, <2>5, <3>1 DEF Changes, InSession
    <3> QED
      BY <1>1, <2>1, <2>5, <3>1, <3>2 DEF Sources, Returned, InSession
  <2>6. CASE to \notin InSession \cup {"LoadSession", "UnloadSession"}
    <3>1. s # "LoadSession" /\ s \notin InSession
      BY <1>2, <2>6, Transitions DEF IInv, Sides, InSession, s
    <3>2. w.vars = NoValue
      BY <2>1, <2>2, <3>1 DEF Sources
    <3> QED
      BY <2>6, <3>2 DEF Sources
  <2> QED
    BY <2>3, <2>4, <2>5, <2>6
<1> QED
  BY <1>2, <1>5, <1>6, <1>7, <1>8 DEF IInv

LEMMA OnStatsLoadKeeps == ASSUME IInv, NEW p \in Sides, OnStatsLoad(p) PROVE IInv'
<1> DEFINE v == vm[p]
           u == LoadExtensionState(p, v, "Load", state[p])
           w == LoadExtensionState(p, u, "Game", state[p])
<1>1. /\ state[p] = "LoadModule" /\ prepared[p] = "no" /\ v \in VM
      /\ prepared' = [prepared EXCEPT ![p] = "stats"]
      /\ UNCHANGED <<state, tasks, resets, notifying, console, completed>>
      /\ UNCHANGED <<installed, ext, source, saved, wiped, wanted>>
      /\ entries' \in SUBSET Stats /\ (p = "client" => entries' = entries)
  BY DEF OnStatsLoad, LoadStats, IInv, Sorts, serverData, sessionData, consoleVars
<1>2. vm' = [vm EXCEPT ![p] = w]
  BY DEF OnStatsLoad, IInv, Sorts
<1> HIDE DEF v, u
<1>3. u.ctx = "Load"
  <2>1. v.ctx # "Load"
    BY <1>1 DEF VM, Contexts
  <2>2. u = LuaStartup(p, "Load", state[p])
    BY <2>1, Loads DEF u
  <2>3. Fresh(LuaStartup(p, "Load", state[p]), "Load")
    BY Started
  <2> QED
    BY <2>2, <2>3 DEF Fresh
<1>4. w = LuaStartup(p, "Game", state[p])
  BY <1>3, Loads
<1> HIDE DEF w
<1>5. Fresh(w, "Game") /\ w \in VM /\ Len(w.told) = 0
  <2>1. Fresh(w, "Game") /\ (~Resumes(p, state[p]) => Len(w.told) = 0)
    BY <1>4, Started
  <2>2. ~Resumes(p, state[p])
    BY <1>1 DEF Resumes
  <2> QED
    BY <2>1, <2>2 DEF Fresh, Contexts
<1>6. Kept(w, "LoadModule", "stats")
  BY <1>5 DEF Fresh, Kept, Told, InSession
<1>7. /\ vm' \in [Sides -> VM] /\ vm'[p] = w
      /\ prepared' \in [Sides -> {"no", "stats", "skills"}] /\ prepared'[p] = "stats"
      /\ \A q \in Sides : q # p => vm'[q] = vm[q] /\ prepared'[q] = prepared[q]
  BY <1>1, <1>2, <1>5 DEF IInv, Sorts
<1>8. VMsKept'
  BY <1>1, <1>6, <1>7 DEF IInv, VMsKept
<1>9. Savegames'
  <2>1. CASE p = "server"
    BY <1>1, <1>5, <1>7, <2>1 DEF Savegames, Sources, InSession, Fresh
  <2>2. CASE p = "client"
    BY <1>1, <1>7, <2>2, SavegamesKept DEF IInv, Sides
  <2> QED
    BY <2>1, <2>2 DEF Sides
<1>10. Sorts' /\ Addressed'
  BY <1>1, <1>7 DEF IInv, Sorts, Addressed
<1> QED
  BY <1>1, <1>8, <1>9, <1>10, HandshakeKept DEF IInv

LEMMA OnSkillPrototypeManagerInitKeeps ==
  ASSUME IInv, NEW p \in Sides, OnSkillPrototypeManagerInit(p)
  PROVE  IInv'
<1> DEFINE v == vm[p]
           w == Throw(v, <<"ModuleLoading">>)
<1>1. /\ state[p] = "LoadModule" /\ prepared[p] = "stats" /\ v \in VM
      /\ prepared' = [prepared EXCEPT ![p] = "skills"]
      /\ UNCHANGED <<state, tasks, resets, notifying, console, completed>>
      /\ UNCHANGED <<installed, ext, entries, source, saved, wiped, wanted>>
  BY DEF OnSkillPrototypeManagerInit, IInv, Sorts, serverData, sessionData, consoleVars
<1>2. /\ v.ctx = "Game" /\ (v.odd = FALSE => Len(v.told) = 0) /\ (v.odd => Len(v.told) = 0)
      /\ v.odd \in BOOLEAN
  BY <1>1 DEF IInv, VMsKept, Kept, Told, VM
<1>3. vm' = [vm EXCEPT ![p] = w]
  <2>1. LoadExtensionState(p, v, "Game", state[p]) = v
    BY <1>2, Loads
  <2> QED
    BY <2>1 DEF OnSkillPrototypeManagerInit, IInv, Sorts
<1> HIDE DEF v
<1>4. /\ w \in VM /\ w.ctx = "Game" /\ w.vars = v.vars /\ w.odd = v.odd
      /\ v.odd = TRUE => w = v
      /\ v.odd = FALSE => Len(w.told) = 1 /\ w.told[1] = "ModuleLoading"
  BY <1>1, <1>2, Hears DEF Events
<1> HIDE DEF w
<1>5. Kept(w, "LoadModule", "skills")
  BY <1>2, <1>4 DEF Kept, Told, Module, InSession
<1>7. /\ vm' \in [Sides -> VM] /\ vm'[p] = w
      /\ prepared' \in [Sides -> {"no", "stats", "skills"}] /\ prepared'[p] = "skills"
      /\ \A q \in Sides : q # p => vm'[q] = vm[q] /\ prepared'[q] = prepared[q]
  BY <1>1, <1>3, <1>4 DEF IInv, Sorts
<1>8. VMsKept'
  BY <1>1, <1>5, <1>7 DEF IInv, VMsKept
<1>9. Savegames'
  <2>1. CASE p = "server"
    BY <1>1, <1>4, <1>7, <2>1 DEF IInv, Savegames, Sources, InSession, v
  <2>2. CASE p = "client"
    BY <1>1, <1>7, <2>2, SavegamesKept DEF IInv, Sides
  <2> QED
    BY <2>1, <2>2 DEF Sides
<1>10. Sorts' /\ Addressed'
  BY <1>1, <1>7 DEF IInv, Sorts, Addressed
<1> QED
  BY <1>1, <1>8, <1>9, <1>10, HandshakeKept DEF IInv

-----------------------------------------------------------------------------
(* Scripts and savegames.                                                   *)

LEMMA SetPersistentVarsKeeps ==
  ASSUME IInv, NEW x \in Values, SetPersistentVars(x)
  PROVE  IInv'
<1> DEFINE v == vm["server"]
           w == [v EXCEPT !.vars = x]
<1>1. /\ vm' = [vm EXCEPT !["server"] = w] /\ state["server"] = "Running"
      /\ UNCHANGED <<state, prepared, tasks, resets, notifying, console, completed>>
      /\ UNCHANGED <<installed, ext, entries, source, saved, wiped, wanted>>
      /\ v \in VM /\ v.ctx = "Game"
  BY DEF SetPersistentVars, IInv, Sorts, Sides, serverData, sessionData, consoleVars
<1>2. w \in VM /\ w.ctx = v.ctx /\ w.told = v.told /\ w.odd = v.odd
  BY <1>1 DEF VM, Vars
<1> HIDE DEF w
<1>3. /\ vm' \in [Sides -> VM] /\ vm'["server"] = w
      /\ \A q \in Sides : q # "server" => vm'[q] = vm[q]
  BY <1>1, <1>2 DEF IInv, Sorts, Sides
<1>4. Kept(w, state["server"], prepared["server"])
  BY <1>1, <1>2 DEF IInv, VMsKept, Kept, Sides
<1>5. VMsKept'
  BY <1>1, <1>3, <1>4, VMsStep DEF IInv, Sides
<1>6. Savegames'
  BY <1>1, <1>3 DEF IInv, Savegames, Sources, InSession
<1>7. Sorts' /\ Addressed'
  BY <1>1, <1>3 DEF IInv, Sorts, Addressed
<1> QED
  BY <1>1, <1>5, <1>6, <1>7, HandshakeKept DEF IInv

LEMMA CreateStatKeeps ==
  ASSUME IInv, NEW p \in Sides, NEW stat \in Stats, CreateStat(p, stat)
  PROVE  IInv'
<1>1. /\ entries' = entries \cup {stat}
      /\ UNCHANGED <<state, prepared, vm, installed, ext, source, saved, wiped, wanted, tasks,
                     resets, notifying, console, completed>>
  BY DEF CreateStat, sessionData, consoleVars
<1>2. Savegames'
  BY <1>1, SavegamesKept DEF IInv
<1>3. Sorts' /\ Addressed' /\ VMsKept'
  BY <1>1 DEF IInv, Sorts, Addressed, VMsKept
<1> QED
  BY <1>1, <1>2, <1>3, HandshakeKept DEF IInv

\* What scripts do to the marks of an entry, with the rest of the action.
LEMMA MarkKeeps ==
  ASSUME IInv, UNCHANGED <<state, prepared, vm, installed, entries, source, saved, wiped, tasks,
                           resets, notifying, console, completed>>,
         state["server"] \in {"LoadModule", "Running"},
         NEW stat \in entries, NEW persist \in BOOLEAN,
         UNCHANGED <<ext, wanted>> \/ Mark(stat, persist)
  PROVE  IInv'
<1>1. /\ ext \in [cached : Vars, kept : SUBSET Stats] /\ wanted \in SUBSET Stats
      /\ stat \in Stats
  BY DEF IInv, Sorts
<1>2. /\ ext' \in [cached : Vars, kept : SUBSET Stats] /\ ext'.cached = ext.cached
      /\ wanted' \in SUBSET Stats
      /\ state["server"] \in InSession /\ wiped = FALSE /\ ext.kept = wanted => ext'.kept = wanted'
      /\ ext.kept \subseteq entries => ext'.kept \subseteq entries
  <2>1. CASE UNCHANGED <<ext, wanted>>
    BY <1>1, <2>1
  <2>2. CASE Mark(stat, persist)
    <3> DEFINE kept == IF persist THEN ext.kept \cup {stat} ELSE ext.kept \ {stat}
    <3>1. ext' = [ext EXCEPT !.kept = kept]
      BY <1>1, <2>2 DEF Mark
    <3>2. kept \in SUBSET Stats
      BY <1>1
    <3> HIDE DEF kept
    <3>3. ext' \in [cached : Vars, kept : SUBSET Stats] /\ ext'.cached = ext.cached
          /\ ext'.kept = kept
      BY <1>1, <3>1, <3>2
    <3>4. wanted' \in SUBSET Stats
      BY <1>1, <2>2 DEF Mark
    <3>5. ASSUME state["server"] \in InSession, wiped = FALSE, ext.kept = wanted
          PROVE  kept = wanted'
      <4>1. state["server"] = "Running"
        BY <3>5 DEF InSession
      <4>2. CASE persist = TRUE
        BY <2>2, <3>5, <4>1, <4>2 DEF Mark, kept
      <4>3. CASE persist = FALSE
        BY <2>2, <3>5, <4>1, <4>3 DEF Mark, kept
      <4> QED
        BY <4>2, <4>3
    <3>6. ext.kept \subseteq entries => kept \subseteq entries
      BY DEF kept
    <3> QED
      BY <3>3, <3>4, <3>5, <3>6
  <2> QED
    BY <2>1, <2>2
<1>3. Savegames'
  BY <1>2 DEF IInv, Savegames, Sources, Returned
<1>4. Sorts' /\ Addressed' /\ VMsKept'
  BY <1>2 DEF IInv, Sorts, Addressed, VMsKept
<1> QED
  BY <1>3, <1>4, HandshakeKept DEF IInv

LEMMA SyncKeeps ==
  ASSUME IInv, NEW stat \in Stats, NEW persist \in {<<>>, <<TRUE>>, <<FALSE>>}, Sync(stat, persist)
  PROVE  IInv'
<1>1. /\ state["server"] \in {"LoadModule", "Running"}
      /\ UNCHANGED <<ext, wanted>> \/ Mark(stat, TRUE)
      /\ stat \in entries
      /\ UNCHANGED <<state, prepared, vm, installed, entries, source, saved, wiped, tasks, resets,
                     notifying, console, completed>>
  BY DEF Sync, MayScript, consoleVars
<1> QED
  BY <1>1, MarkKeeps

LEMMA SetPersistenceKeeps ==
  ASSUME IInv, NEW stat \in Stats, NEW persist \in BOOLEAN, SetPersistence(stat, persist)
  PROVE  IInv'
<1>1. /\ state["server"] \in {"LoadModule", "Running"} /\ Mark(stat, persist)
      /\ stat \in entries
      /\ UNCHANGED <<state, prepared, vm, installed, entries, source, saved, wiped, tasks, resets,
                     notifying, console, completed>>
  BY DEF SetPersistence, MayScript, consoleVars
<1> QED
  BY <1>1, MarkKeeps

LEMMA Written ==
  ASSUME IInv, NEW readable \in BOOLEAN
  PROVE  GetModPersistentVars(readable) \in Vars
BY DEF IInv, Sorts, GetModPersistentVars, VM, Sides

LEMMA SaveGameKeeps ==
  ASSUME IInv, NEW readable \in BOOLEAN, SaveGame(readable)
  PROVE  IInv'
<1>1. /\ state["server"] = "Save"
      /\ saved' = [vars |-> GetModPersistentVars(readable), stats |-> ext.kept \cap entries]
      /\ UNCHANGED <<state, prepared, vm, installed, ext, entries, source, wiped, wanted, tasks,
                     resets, notifying, console, completed>>
  BY DEF SaveGame, consoleVars
<1>2. saved' \in [vars : Vars, stats : SUBSET Stats]
  BY <1>1, Written DEF IInv, Sorts
<1>3. Savegames'
  BY <1>1 DEF IInv, Savegames, Sources, InSession
<1>4. Sorts' /\ Addressed' /\ VMsKept'
  BY <1>1, <1>2 DEF IInv, Sorts, Addressed, VMsKept
<1> QED
  BY <1>1, <1>3, <1>4, HandshakeKept DEF IInv

\* A savegame that is too new, ...
LEMMA LoadNewerKeeps ==
  ASSUME IInv, NEW blobs \in [Stats -> Blobs], LoadGame("newer", blobs)
  PROVE  IInv'
<1>1. /\ state["server"] = "LoadSession" /\ source.read = "unread"
      /\ source' = NewGame
      /\ UNCHANGED <<vm, ext, entries, wanted, state, prepared, installed, saved, wiped, tasks,
                     resets, notifying, console, completed>>
  BY DEF LoadGame, consoleVars
<1>2. /\ source' \in [vars : Vars, read : Reads]
      /\ source'.vars = NoValue /\ source'.read = "restored"
  BY <1>1 DEF NewGame, Vars, Reads
<1>3. Savegames'
  BY <1>1, <1>2 DEF IInv, Savegames, Sources, Returned, EmptyExt, InSession
<1>4. Sorts' /\ Addressed' /\ VMsKept'
  BY <1>1, <1>2 DEF IInv, Sorts, Addressed, VMsKept
<1> QED
  BY <1>1, <1>3, <1>4, HandshakeKept DEF IInv

\* ... and one that is read.
LEMMA LoadReadKeeps ==
  ASSUME IInv, NEW read \in {"restored", "refused"}, NEW blobs \in [Stats -> Blobs],
         LoadGame(read, blobs)
  PROVE  IInv'
<1> DEFINE v == vm["server"]
           w == vm'["server"]
           fits == {stat \in saved.stats : blobs[stat] = "fits"}
           made == {stat \in saved.stats : blobs[stat] # "foreign"}
<1>1. /\ state["server"] = "LoadSession" /\ source.read = "unread"
      /\ ext' = [cached |-> Remembered, kept |-> ext.kept \cup fits]
      /\ entries' = entries \cup made
      /\ vm' = GivenBack(read) /\ source' = [source EXCEPT !.read = read] /\ wanted' = fits
      /\ UNCHANGED <<state, prepared, installed, saved, wiped, tasks, resets,
                     notifying, console, completed>>
  BY DEF LoadGame, Restore, RestoreStats, IInv, Sorts, consoleVars
<1>2. /\ v \in VM /\ source \in [vars : Vars, read : Reads] /\ vm \in [Sides -> VM]
      /\ saved \in [vars : Vars, stats : SUBSET Stats] /\ entries \in SUBSET Stats
      /\ ext \in [cached : Vars, kept : SUBSET Stats] /\ installed \in BOOLEAN
  BY DEF IInv, Sorts, Sides
<1>3. v.vars = NoValue /\ source.vars = saved.vars /\ ext = EmptyExt
  BY <1>1 DEF IInv, Savegames, Sources
<1>4. /\ vm' \in [Sides -> VM] /\ w.ctx = v.ctx /\ w.told = v.told /\ w.odd = v.odd
      /\ installed = TRUE =>
           w.vars = IF read = "restored" THEN saved.vars ELSE NoValue
      /\ \A q \in Sides : q # "server" => vm'[q] = vm[q]
  <2>1. CASE installed /\ read = "restored" /\ saved.vars # NoValue
    <3>1. vm' = [vm EXCEPT !["server"] = [v EXCEPT !.vars = saved.vars]]
      BY <1>1, <1>2, <2>1 DEF GivenBack, Sides
    <3>2. LET u == [v EXCEPT !.vars = saved.vars] IN
          u \in VM /\ u.ctx = v.ctx /\ u.told = v.told /\ u.odd = v.odd /\ u.vars = saved.vars
      BY <1>2 DEF VM
    <3> QED
      BY <1>2, <2>1, <3>1, <3>2 DEF Sides
  <2>2. CASE ~(installed /\ read = "restored" /\ saved.vars # NoValue)
    <3>1. vm' = vm
      BY <1>1, <2>2 DEF GivenBack
    <3> QED
      BY <1>2, <1>3, <2>2, <3>1
  <2> QED
    BY <2>1, <2>2
<1>5. /\ source' \in [vars : Vars, read : Reads]
      /\ source'.vars = saved.vars /\ source'.read = read
  BY <1>1, <1>2, <1>3 DEF Reads
<1>6. fits \subseteq made /\ made \in SUBSET Stats
  BY <1>2
<1> HIDE DEF fits, made
<1>7. /\ ext' \in [cached : Vars, kept : SUBSET Stats]
      /\ ext'.cached = saved.vars /\ ext'.kept = fits /\ fits \subseteq entries'
      /\ entries' \in SUBSET Stats /\ wanted' \in SUBSET Stats
  <2>1. Remembered = saved.vars /\ ext.kept = {}
    BY <1>3 DEF Remembered, EmptyExt
  <2> QED
    BY <1>1, <1>2, <1>6, <2>1
<1> HIDE DEF v
<1>8. VMsKept'
  <2>1. Kept(w, state["server"], prepared["server"])
    <3>1. Kept(v, state["server"], prepared["server"])
      BY DEF IInv, VMsKept, Sides, v
    <3> QED
      BY <1>1, <1>4, <3>1 DEF Kept, InSession
  <2> QED
    BY <1>1, <1>4, <2>1, VMsStep DEF IInv, Sides
<1>9. Savegames'
  <2>1. wiped = FALSE
    BY <1>1 DEF IInv, Savegames, Sources
  <2>2. Returned' = IF read = "restored" THEN saved.vars ELSE NoValue
    BY <1>5 DEF Returned
  <2> QED
    BY <1>1, <1>4, <1>5, <1>7, <2>1, <2>2 DEF Savegames, Sources, InSession
<1>10. Sorts' /\ Addressed'
  BY <1>1, <1>2, <1>4, <1>5, <1>7 DEF IInv, Sorts, Addressed
<1> QED
  BY <1>1, <1>8, <1>9, <1>10, HandshakeKept DEF IInv

LEMMA OsiLuaResetKeeps ==
  ASSUME IInv, NEW resetServer \in BOOLEAN, NEW resetClient \in BOOLEAN,
         OsiLuaReset(resetServer, resetClient)
  PROVE  IInv'
<1>1. /\ UNCHANGED <<state, prepared, installed, entries, saved, resets,
                     notifying, console, completed>>
      /\ (ResetLuaState("server") \/ UNCHANGED <<vm, ext, wiped, source, wanted>>)
      /\ tasks' = tasks \/ tasks' = [tasks EXCEPT !["client"] = Append(@, "local")]
  BY DEF OsiLuaReset, consoleVars
<1>2. /\ VMsKept' /\ Savegames' /\ vm' \in [Sides -> VM]
      /\ ext' \in [cached : Vars, kept : SUBSET Stats] /\ wiped' \in BOOLEAN
      /\ source' \in [vars : Vars, read : Reads] /\ wanted' \in SUBSET Stats
  <2>1. CASE ResetLuaState("server")
    BY <1>1, <2>1, ResetLuaStateKeeps DEF IInv, Sides
  <2>2. CASE UNCHANGED <<vm, ext, wiped, source, wanted>>
    BY <1>1, <2>2, SavegamesKept DEF IInv, Sorts, VMsKept
  <2> QED
    BY <1>1, <2>1, <2>2
<1>3. tasks' \in [Sides -> Seq({"console", "local"})] /\ Handshake'
  <2>1. CASE tasks' = tasks
    BY <1>1, <2>1, HandshakeKept DEF IInv, Sorts
  <2>2. CASE tasks' = [tasks EXCEPT !["client"] = Append(@, "local")]
    <3> DEFINE q == tasks["client"]
    <3>1. q \in Seq({"console", "local"}) /\ tasks \in [Sides -> Seq({"console", "local"})]
      BY DEF IInv, Sorts, Sides
    <3>2. /\ Append(q, "local") \in Seq({"console", "local"})
          /\ Len(q) \in Nat /\ Len(Append(q, "local")) = Len(q) + 1
          /\ Append(q, "local")[Len(q) + 1] = "local"
          /\ \A i \in 1 .. Len(q) : Append(q, "local")[i] = q[i]
      BY <3>1
    <3>3. /\ tasks' \in [Sides -> Seq({"console", "local"})]
          /\ tasks'["client"] = Append(q, "local") /\ tasks'["server"] = tasks["server"]
      BY <2>2, <3>1, <3>2 DEF Sides
    <3>4. \A p \in Sides : \A i \in 1 .. Len(tasks'[p]) :
             tasks'[p][i] = "console" => i \in 1 .. Len(tasks[p]) /\ tasks[p][i] = "console"
      <4>1. \A i \in 1 .. Len(q) + 1 : i \in 1 .. Len(q) \/ i = Len(q) + 1
        BY <3>2
      <4>2. \A i \in 1 .. Len(tasks'["client"]) :
              tasks'["client"][i] = "console" => i \in 1 .. Len(q) /\ q[i] = "console"
        BY <3>2, <3>3, <4>1
      <4> QED
        BY <3>3, <4>2 DEF Sides
    <3>5. OneTask' /\ \A p \in Sides : Queued(p)' => Queued(p)
      BY <3>4 DEF IInv, Handshake, OneTask, Queued
    <3> QED
      BY <1>1, <3>3, <3>5 DEF IInv, Handshake
  <2> QED
    BY <1>1, <2>1, <2>2
<1>4. Sorts' /\ Addressed'
  BY <1>1, <1>2, <1>3 DEF IInv, Sorts, Addressed
<1> QED
  BY <1>2, <1>3, <1>4 DEF IInv

-----------------------------------------------------------------------------
(* The console and the task queues.                                         *)

\* A step of the console before it has queued its task.
LEMMA HandshakeBefore ==
  ASSUME IInv, console.pc \notin {"locked", "waiting"},
         UNCHANGED <<tasks, notifying, completed>>, console'.pc # "prompt" => console'.todo # <<>>
  PROVE  Handshake'
<1>1. \A p \in Sides : ~Queued(p) /\ notifying[p] # TRUE
  BY DEF IInv, Handshake
<1> QED
  BY <1>1 DEF IInv, Handshake, OneTask, Queued

\* A step of the console alone.
LEMMA ConsoleStep ==
  ASSUME IInv, UNCHANGED <<state, prepared, vm, notifying, resets>>, UNCHANGED serverData,
         tasks' \in [Sides -> Seq({"console", "local"})], completed' \in BOOLEAN,
         console' \in [pc : {"prompt", "check", "accepted", "locked", "waiting"},
                      todo : Seq(Sides)],
         Handshake'
  PROVE  IInv'
<1>1. UNCHANGED <<installed, ext, entries, source, saved, wiped, wanted>>
  BY DEF serverData, sessionData
<1>2. Savegames'
  BY <1>1, SavegamesKept DEF IInv
<1> QED
  BY <1>1, <1>2 DEF IInv, Sorts, VMsKept, Addressed

LEMMA TailOf ==
  ASSUME NEW S, NEW s \in Seq(S), s # <<>>
  PROVE  /\ Tail(s) \in Seq(S) /\ Len(s) \in Nat /\ Len(s) > 0 /\ Len(Tail(s)) = Len(s) - 1
         /\ Head(s) = s[1] /\ 1 \in 1 .. Len(s) /\ Head(s) \in S
         /\ \A i \in 1 .. Len(Tail(s)) : i + 1 \in 1 .. Len(s) /\ i + 1 # 1 /\ Tail(s)[i] = s[i + 1]
         /\ Len(s) > 1 => Tail(s) # <<>>
<1>1. /\ Tail(s) \in Seq(S) /\ Len(s) \in Nat /\ Len(s) > 0 /\ Len(Tail(s)) = Len(s) - 1
      /\ Head(s) = s[1] /\ 1 \in 1 .. Len(s) /\ Head(s) \in S
      /\ \A i \in 1 .. Len(Tail(s)) : i + 1 \in 1 .. Len(s) /\ i + 1 # 1 /\ Tail(s)[i] = s[i + 1]
  OBVIOUS
<1>2. Len(<<>>) = 0
  OBVIOUS
<1>3. Len(s) > 1 => Tail(s) # <<>>
  <2> DEFINE u == Tail(s)
  <2>1. Len(u) = Len(s) - 1 /\ Len(s) \in Nat
    BY <1>1
  <2> HIDE DEF u
  <2>2. Len(s) > 1 => Len(u) # 0
    BY <2>1
  <2>3. Len(s) > 1 => u # <<>>
    BY <1>2, <2>2
  <2> QED
    BY <2>3 DEF u
<1> QED
  BY <1>1, <1>3

LEMMA Submits ==
  ASSUME NEW todo \in Seq(Sides), todo # <<>>, Submit(todo)
  PROVE  /\ console' \in [pc : {"prompt", "check", "accepted", "locked", "waiting"},
                          todo : Seq(Sides)]
         /\ console'.pc # "prompt" => console'.todo # <<>>
<1>1. Tail(todo) \in Seq(Sides) /\ (Len(todo) > 1 => Tail(todo) # <<>>)
  BY TailOf
<1>2. CASE console' = [pc |-> "accepted", todo |-> todo]
  BY <1>2
<1>3. CASE console' = [pc |-> IF Len(todo) > 1 THEN "check" ELSE "prompt", todo |-> Tail(todo)]
  BY <1>1, <1>3
<1> QED
  BY <1>2, <1>3 DEF Submit

LEMMA HandleCommandKeeps == ASSUME IInv, NEW cmd \in Commands, HandleCommand(cmd) PROVE IInv'
<1>1. cmd \in Seq(Sides) /\ cmd # <<>>
  <2>1. "server" \in Sides /\ "client" \in Sides
    BY DEF Sides
  <2>2. <<"server">> \in Seq(Sides) /\ <<"client">> \in Seq(Sides)
        /\ <<"server", "client">> \in Seq(Sides)
    BY <2>1
  <2>3. <<"server">> # <<>> /\ <<"client">> # <<>> /\ <<"server", "client">> # <<>>
    OBVIOUS
  <2> QED
    BY <2>2, <2>3 DEF Commands
<1>2. /\ console.pc = "prompt" /\ Submit(cmd)
      /\ UNCHANGED <<state, prepared, vm, tasks, notifying, completed, resets>>
      /\ UNCHANGED serverData
  BY DEF HandleCommand, ConsoleAt
<1> QED
  BY <1>1, <1>2, Submits, HandshakeBefore, ConsoleStep DEF IInv, Sorts

LEMMA SubmitNextKeeps == ASSUME IInv, SubmitNext PROVE IInv'
<1>1. /\ console.pc = "check" /\ Submit(console.todo)
      /\ UNCHANGED <<state, prepared, vm, tasks, notifying, completed, resets>>
      /\ UNCHANGED serverData
  BY DEF SubmitNext, ConsoleAt
<1>2. console.todo \in Seq(Sides) /\ console.todo # <<>>
  BY <1>1 DEF IInv, Sorts, Handshake
<1> QED
  BY <1>1, <1>2, Submits, HandshakeBefore, ConsoleStep DEF IInv, Sorts

LEMMA EnqueueTaskKeeps == ASSUME IInv, EnqueueTask PROVE IInv'
<1> DEFINE d == Head(console.todo)
           q == tasks[d]
           r == Append(q, "console")
<1>1. /\ console.pc = "accepted" /\ console' = [console EXCEPT !.pc = "locked"]
      /\ UNCHANGED <<state, prepared, vm, notifying, completed, resets>>
      /\ UNCHANGED serverData
  BY DEF EnqueueTask, ConsoleAt
<1>2. /\ console \in [pc : {"prompt", "check", "accepted", "locked", "waiting"}, todo : Seq(Sides)]
      /\ console.todo # <<>> /\ tasks \in [Sides -> Seq({"console", "local"})]
  BY <1>1 DEF IInv, Sorts, Handshake
<1>3. d \in Sides
  BY <1>2
<1>4. tasks' = [tasks EXCEPT ![d] = r]
  BY <1>2, <1>3 DEF EnqueueTask
<1> HIDE DEF d
<1>5. /\ q \in Seq({"console", "local"}) /\ r \in Seq({"console", "local"})
      /\ Len(q) \in Nat /\ Len(r) = Len(q) + 1 /\ r[Len(q) + 1] = "console"
      /\ \A i \in 1 .. Len(q) : r[i] = q[i]
  BY <1>2, <1>3
<1> HIDE DEF q, r
<1>6. /\ tasks' \in [Sides -> Seq({"console", "local"})] /\ tasks'[d] = r
      /\ \A p \in Sides : p # d => tasks'[p] = tasks[p]
  BY <1>2, <1>3, <1>4, <1>5
<1>7. \A p \in Sides : ~Queued(p) /\ notifying[p] # TRUE
  BY <1>1 DEF IInv, Handshake
<1>8. \A p \in Sides : \A i \in 1 .. Len(tasks'[p]) :
        tasks'[p][i] = "console" => p = d /\ i = Len(q) + 1
  <2>1. \A i \in 1 .. Len(r) : r[i] = "console" => i = Len(q) + 1
    <3>1. \A i \in 1 .. Len(r) : i \in 1 .. Len(q) \/ i = Len(q) + 1
      BY <1>5
    <3>2. \A i \in 1 .. Len(q) : q[i] # "console"
      BY <1>3, <1>7 DEF Queued, q
    <3> QED
      BY <1>5, <3>1, <3>2
  <2> QED
    BY <1>6, <1>7, <2>1 DEF Queued
<1>9. console' \in [pc : {"prompt", "check", "accepted", "locked", "waiting"}, todo : Seq(Sides)]
      /\ console'.pc = "locked" /\ console'.todo # <<>>
  BY <1>1, <1>2
<1>10. completed # TRUE
  BY <1>7 DEF IInv, Handshake
<1>11. Handshake'
  <2>1. OneTask'
    BY <1>8 DEF OneTask
  <2>2. completed' = FALSE
    BY <1>1, <1>10 DEF IInv, Sorts
  <2> QED
    BY <1>1, <1>7, <1>9, <2>1, <2>2 DEF Handshake
<1> QED
  BY <1>1, <1>6, <1>9, <1>11, ConsoleStep DEF IInv, Sorts

\* The task is not completed before the console waits, since it holds the mutex.
LEMMA WaitKeeps == ASSUME IInv, Wait PROVE IInv'
<1>1. /\ console.pc \in {"enqueued", "locked"}
      /\ UNCHANGED <<state, prepared, vm, tasks, notifying, resets>> /\ UNCHANGED serverData
  BY DEF Wait
<1>2. console.pc = "locked" /\ completed = FALSE
  BY <1>1 DEF IInv, Handshake, Sorts
<1>3. console' = [console EXCEPT !.pc = "waiting"] /\ completed' = completed
  BY <1>2 DEF Wait
<1>4. console' \in [pc : {"prompt", "check", "accepted", "locked", "waiting"}, todo : Seq(Sides)]
      /\ console'.pc = "waiting" /\ console'.todo = console.todo
  BY <1>3 DEF IInv, Sorts
<1>5. Handshake'
  BY <1>1, <1>2, <1>3, <1>4 DEF IInv, Handshake, OneTask, Queued
<1> QED
  BY <1>1, <1>3, <1>4, <1>5, ConsoleStep DEF IInv, Sorts

LEMMA NotifyKeeps == ASSUME IInv, NEW p \in Sides, Notify(p) PROVE IInv'
<1>1. /\ notifying[p] = TRUE /\ notifying' = [notifying EXCEPT ![p] = FALSE]
      /\ UNCHANGED <<state, prepared, vm, tasks, resets>> /\ UNCHANGED serverData
  BY DEF Notify, IInv, Sorts
<1>2. console.pc = "waiting" /\ completed = TRUE /\ console.todo # <<>>
  BY <1>1 DEF IInv, Handshake
<1>3. console' = Continue /\ completed' = FALSE
  BY <1>2 DEF Notify, ConsoleAt, Submitted
<1>4. /\ console' \in [pc : {"prompt", "check", "accepted", "locked", "waiting"}, todo : Seq(Sides)]
      /\ console'.pc # "prompt" => console'.todo # <<>>
  <2> DEFINE todo == console.todo
  <2>1. todo \in Seq(Sides) /\ todo # <<>>
    BY <1>2 DEF IInv, Sorts
  <2>2. Tail(todo) \in Seq(Sides) /\ (Len(todo) > 1 => Tail(todo) # <<>>)
    BY <2>1, TailOf
  <2>e. <<>> \in Seq(Sides)
    OBVIOUS
  <2>3. CASE Len(todo) > 1
    BY <1>3, <2>2, <2>3 DEF Continue
  <2>4. CASE ~(Len(todo) > 1)
    BY <1>3, <2>e, <2>4 DEF Continue
  <2> QED
    BY <2>3, <2>4
<1>5. notifying' \in [Sides -> BOOLEAN] /\ \A q \in Sides : notifying'[q] = FALSE
  <2>1. \A q \in Sides : q # p => notifying[q] = FALSE
    BY <1>1 DEF IInv, Handshake, Sorts
  <2> QED
    BY <1>1, <2>1 DEF IInv, Sorts
<1>6. Handshake'
  <2>1. \A q \in Sides : ~Queued(q)
    BY <1>2 DEF IInv, Handshake
  <2>2. OneTask' /\ \A q \in Sides : ~Queued(q)'
    BY <1>1, <2>1 DEF IInv, Handshake, OneTask, Queued
  <2>3. completed' # TRUE /\ \A q \in Sides : notifying'[q] # TRUE
    BY <1>3, <1>5
  <2> QED
    BY <1>4, <2>2, <2>3 DEF Handshake
<1>7. UNCHANGED <<installed, ext, entries, source, saved, wiped, wanted>>
  BY <1>1 DEF serverData, sessionData
<1>8. Savegames'
  BY <1>1, <1>7, SavegamesKept DEF IInv
<1>9. Sorts'
  BY <1>1, <1>3, <1>4, <1>5, <1>7 DEF IInv, Sorts
<1>10. VMsKept' /\ Addressed'
  BY <1>1 DEF IInv, VMsKept, Addressed
<1> QED
  BY <1>6, <1>8, <1>9, <1>10 DEF IInv

\* The task that the game thread of p takes from its queue.
LEMMA Dequeued ==
  ASSUME IInv, NEW p \in Sides, tasks[p] # <<>>, tasks' = [tasks EXCEPT ![p] = Tail(@)]
  PROVE  /\ tasks' \in [Sides -> Seq({"console", "local"})] /\ OneTask'
         /\ \A q \in Sides : Queued(q)' => Queued(q)
         /\ Head(tasks[p]) \in {"console", "local"}
         /\ Head(tasks[p]) = "console" => Queued(p) /\ \A q \in Sides : ~Queued(q)'
<1> DEFINE s == tasks[p]
           t == Tail(s)
<1>1. s \in Seq({"console", "local"}) /\ tasks \in [Sides -> Seq({"console", "local"})]
  BY DEF IInv, Sorts
<1>2. /\ t \in Seq({"console", "local"}) /\ Head(s) = s[1] /\ 1 \in 1 .. Len(s)
      /\ Head(s) \in {"console", "local"}
      /\ \A i \in 1 .. Len(t) : i + 1 \in 1 .. Len(s) /\ i + 1 # 1 /\ t[i] = s[i + 1]
      /\ Len(t) \in Nat
  BY <1>1, TailOf
<1> HIDE DEF t
<1>3. /\ tasks' \in [Sides -> Seq({"console", "local"})] /\ tasks'[p] = t
      /\ \A q \in Sides : q # p => tasks'[q] = tasks[q]
  BY <1>1, <1>2 DEF t
<1>4. OneTask
  BY DEF IInv, Handshake
<1>5. \A i, j \in 1 .. Len(t) : i + 1 = j + 1 => i = j
  BY <1>2
<1>6. OneTask'
  <2> SUFFICES \A a, b \in Sides : \A i \in 1 .. Len(tasks'[a]), j \in 1 .. Len(tasks'[b]) :
                 tasks'[a][i] = "console" /\ tasks'[b][j] = "console" => a = b /\ i = j
    BY DEF OneTask
  <2> TAKE a, b \in Sides
  <2> TAKE i \in 1 .. Len(tasks'[a]), j \in 1 .. Len(tasks'[b])
  <2> HAVE tasks'[a][i] = "console" /\ tasks'[b][j] = "console"
  <2>1. CASE a = p /\ b = p
    BY <1>2, <1>3, <1>4, <1>5, <2>1 DEF OneTask
  <2>2. CASE a = p /\ b # p
    BY <1>2, <1>3, <1>4, <2>2 DEF OneTask
  <2>3. CASE a # p /\ b = p
    BY <1>2, <1>3, <1>4, <2>3 DEF OneTask
  <2>4. CASE a # p /\ b # p
    BY <1>3, <1>4, <2>4 DEF OneTask
  <2> QED
    BY <2>1, <2>2, <2>3, <2>4
<1>7. \A q \in Sides : Queued(q)' => Queued(q)
  BY <1>2, <1>3 DEF Queued
<1>8. ASSUME Head(s) = "console" PROVE Queued(p) /\ \A q \in Sides : ~Queued(q)'
  <2>1. s[1] = "console" /\ Queued(p)
    BY <1>2, <1>8 DEF Queued
  <2>2. \A i \in 1 .. Len(t) : t[i] # "console"
    BY <1>2, <1>4, <2>1 DEF OneTask
  <2>3. \A q \in Sides : q # p => \A i \in 1 .. Len(tasks[q]) : tasks[q][i] # "console"
    BY <1>2, <1>4, <2>1 DEF OneTask
  <2> QED
    BY <1>3, <2>1, <2>2, <2>3 DEF Queued
<1> QED
  BY <1>2, <1>3, <1>6, <1>7, <1>8

LEMMA RunTaskKeeps == ASSUME IInv, NEW p \in Sides, RunTask(p) PROVE IInv'
<1> DEFINE task == Head(tasks[p])
<1>1. /\ notifying[p] = FALSE /\ tasks[p] # <<>> /\ (task = "console" => console.pc # "locked")
      /\ tasks' = [tasks EXCEPT ![p] = Tail(@)]
      /\ \/ RequestReset
         \/ ResetLuaState(p) /\ resets' = resets
      /\ UNCHANGED <<state, prepared, installed, entries, saved, console>>
  BY DEF RunTask, Free, ConsoleAt, IInv, Sorts
<1>2. /\ task = "console" => completed' = TRUE /\ notifying' = [notifying EXCEPT ![p] = TRUE]
      /\ task # "console" => UNCHANGED <<completed, notifying>>
  BY DEF RunTask
<1>3. /\ tasks' \in [Sides -> Seq({"console", "local"})] /\ OneTask'
      /\ \A q \in Sides : Queued(q)' => Queued(q)
      /\ task = "console" => Queued(p) /\ \A q \in Sides : ~Queued(q)'
  BY <1>1, Dequeued
<1> HIDE DEF task
<1>4. Handshake' /\ notifying' \in [Sides -> BOOLEAN] /\ completed' \in BOOLEAN
  <2>1. CASE task = "console"
    <3>1. console.pc = "waiting" /\ completed = FALSE
      BY <1>1, <1>3, <2>1 DEF IInv, Handshake
    <3>2. \A q \in Sides : notifying[q] # TRUE
      BY <3>1 DEF IInv, Handshake
    <3>3. /\ notifying' \in [Sides -> BOOLEAN] /\ notifying'[p] = TRUE /\ completed' = TRUE
          /\ \A q \in Sides : q # p => notifying'[q] = notifying[q]
      BY <1>2, <2>1 DEF IInv, Sorts
    <3> QED
      BY <1>1, <1>3, <2>1, <3>1, <3>2, <3>3 DEF IInv, Handshake
  <2>2. CASE task # "console"
    BY <1>1, <1>2, <1>3, <2>2 DEF IInv, Handshake, Sorts
  <2> QED
    BY <2>1, <2>2
<1>5. CASE ResetLuaState(p) /\ resets' = resets
  <2>1. /\ VMsKept' /\ Savegames' /\ vm' \in [Sides -> VM]
        /\ ext' \in [cached : Vars, kept : SUBSET Stats] /\ wiped' \in BOOLEAN
        /\ source' \in [vars : Vars, read : Reads] /\ wanted' \in SUBSET Stats
    BY <1>1, <1>5, ResetLuaStateKeeps DEF IInv
  <2> QED
    BY <1>1, <1>3, <1>4, <1>5, <2>1 DEF IInv, Sorts, Addressed
<1>6. CASE RequestReset
  <2>1. CASE state["server"] # "none"
    <3>1. /\ resets' = resets + (IF state["client"] \in Connected THEN 1 ELSE 0)
          /\ UNCHANGED <<vm, ext, wiped, source, wanted>>
      BY <1>6, <2>1 DEF RequestReset
    <3>2. resets \in Nat
      BY DEF IInv, Sorts
    <3>3. resets' \in Nat /\ Addressed'
      BY <1>1, <3>1, <3>2 DEF IInv, Addressed
    <3>4. Savegames'
      BY <1>1, <3>1, SavegamesKept DEF IInv
    <3> QED
      BY <1>1, <1>3, <1>4, <3>1, <3>3, <3>4 DEF IInv, Sorts, VMsKept
  <2>2. CASE state["server"] = "none"
    <3>1. ResetLuaState("client") /\ resets' = resets
      BY <1>6, <2>2 DEF RequestReset
    <3>2. /\ VMsKept' /\ Savegames' /\ vm' \in [Sides -> VM]
          /\ ext' \in [cached : Vars, kept : SUBSET Stats] /\ wiped' \in BOOLEAN
          /\ source' \in [vars : Vars, read : Reads] /\ wanted' \in SUBSET Stats
      BY <1>1, <3>1, ResetLuaStateKeeps DEF IInv, Sides
    <3> QED
      BY <1>1, <1>3, <1>4, <3>1, <3>2 DEF IInv, Sorts, Addressed
  <2> QED
    BY <2>1, <2>2
<1> QED
  BY <1>1, <1>5, <1>6

\* No client gets the message in the menu, where there is no session to tell of.
LEMMA OnResetMessageKeeps == ASSUME IInv, OnResetMessage PROVE IInv'
<1> DEFINE w == Reset("client", SessionEvents)
<1>1. /\ resets > 0 /\ resets \in Nat /\ resets' = resets - 1 /\ "client" \in Sides
      /\ vm' = [vm EXCEPT !["client"] = w]
      /\ UNCHANGED <<state, prepared, tasks, notifying, console, completed>>
      /\ UNCHANGED <<installed, ext, entries, source, saved, wiped, wanted>>
  BY DEF OnResetMessage, serverData, sessionData, consoleVars, IInv, Sorts, Sides
<1>2. state["client"] \in Connected
  BY <1>1 DEF IInv, Addressed
<1>3. w \in VM /\ Kept(w, state["client"], prepared["client"])
  BY <1>1, <1>2, Announcements, Resets, ResetKept DEF IInv, Connected
<1> HIDE DEF w
<1>4. /\ vm' \in [Sides -> VM] /\ vm'["client"] = w
      /\ \A q \in Sides : q # "client" => vm'[q] = vm[q]
  BY <1>1, <1>3 DEF IInv, Sorts
<1>5. VMsKept'
  BY <1>1, <1>3, <1>4, VMsStep DEF IInv
<1>6. Savegames'
  BY <1>1, <1>4, SavegamesKept DEF IInv, Sides
<1>7. Sorts' /\ Addressed'
  BY <1>1, <1>2, <1>4 DEF IInv, Sorts, Addressed
<1> QED
  BY <1>1, <1>5, <1>6, <1>7, HandshakeKept DEF IInv

-----------------------------------------------------------------------------
(* The invariant.                                                           *)

LEMMA Starts == Init => IInv
<1> SUFFICES ASSUME Init PROVE IInv
  OBVIOUS
<1>1. NoVM \in VM /\ NoVM.ctx = "none" /\ NoVM.told = <<>> /\ NoVM.vars = NoValue
      /\ NoVM.odd = FALSE /\ Len(<<>>) = 0
  <2>1. <<>> \in Seq(Events) /\ Len(<<>>) = 0
    OBVIOUS
  <2> QED
    BY <2>1 DEF NoVM, VM, Contexts, Vars
<1>2. /\ state \in [Sides -> DOMAIN ServerMoves \cup DOMAIN ClientMoves]
      /\ state["server"] = "none" /\ state["client"] = "LoadMenu"
  BY DEF Init, Sides, ServerMoves, ClientMoves
<1>3. /\ <<>> \in Seq({"console", "local"}) /\ <<>> \in Seq(Sides)
  OBVIOUS
<1>4. /\ EmptyExt \in [cached : Vars, kept : SUBSET Stats]
      /\ NewGame \in [vars : Vars, read : Reads]
      /\ EmptySave \in [vars : Vars, stats : SUBSET Stats]
  BY DEF EmptyExt, NewGame, EmptySave, Vars, Reads
<1>5. Sorts
  <2>1. tasks \in [Sides -> Seq({"console", "local"})] /\ vm \in [Sides -> VM]
    BY <1>1, <1>3 DEF Init
  <2>2. console \in [pc : {"prompt", "check", "accepted", "locked", "waiting"}, todo : Seq(Sides)]
    BY <1>3 DEF Init
  <2>3. /\ prepared \in [Sides -> {"no", "stats", "skills"}]
        /\ notifying \in [Sides -> BOOLEAN]
    BY DEF Init
  <2>4. state["server"] \in DOMAIN ServerMoves /\ state["client"] \in DOMAIN ClientMoves
    BY <1>2, States
  <2> QED
    BY <1>2, <1>4, <2>1, <2>2, <2>3, <2>4 DEF Init, Sorts
<1>6. VMsKept
  BY <1>1, <1>2 DEF Init, VMsKept, Kept, InSession, Sides
<1>7. Handshake
  <2>1. \A p \in Sides : Len(tasks[p]) = 0 /\ notifying[p] = FALSE
    BY <1>1 DEF Init
  <2> QED
    BY <2>1 DEF Init, Handshake, OneTask, Queued
<1>8. Savegames
  BY <1>1, <1>2 DEF Init, Savegames, Sources, NewGame, InSession, Sides
<1>9. Addressed
  BY DEF Init, Addressed
<1> QED
  BY <1>5, <1>6, <1>7, <1>8, <1>9 DEF IInv

LEMMA Stutters == ASSUME IInv, UNCHANGED vars PROVE IInv'
<1>1. /\ UNCHANGED <<state, prepared, vm, installed, ext, entries, source, saved, tasks, resets>>
      /\ UNCHANGED <<notifying, console, completed, wiped, wanted>>
  BY DEF vars
<1>2. Handshake' /\ Savegames'
  BY <1>1, HandshakeKept, SavegamesKept DEF IInv
<1> QED
  BY <1>1, <1>2 DEF IInv, Sorts, VMsKept, Addressed

LEMMA Preserves == IInv /\ [Next]_vars => IInv'
<1> SUFFICES ASSUME IInv, [Next]_vars PROVE IInv'
  OBVIOUS
<1>1. CASE Games
  BY <1>1, ServerStateChangedKeeps, ClientStateChangedKeeps, OnStatsLoadKeeps,
     OnSkillPrototypeManagerInitKeeps, SaveGameKeeps, LoadNewerKeeps, LoadReadKeeps
  DEF Games, Reads
<1>2. CASE Scripts
  <2>1. CASE \E v \in Values : SetPersistentVars(v)
    BY <2>1, SetPersistentVarsKeeps
  <2>2. CASE \E stat \in Stats : \E persist \in {<<>>, <<TRUE>>, <<FALSE>>} : Sync(stat, persist)
    BY <2>2, SyncKeeps
  <2>3. CASE \E stat \in Stats, persist \in BOOLEAN : SetPersistence(stat, persist)
    BY <2>3, SetPersistenceKeeps
  <2>4. CASE \E p \in Sides, stat \in Stats : CreateStat(p, stat)
    BY <2>4, CreateStatKeeps
  <2>5. CASE \E s, c \in BOOLEAN : OsiLuaReset(s, c)
    BY <2>5, OsiLuaResetKeeps
  <2> QED
    BY <1>2, <2>1, <2>2, <2>3, <2>4, <2>5 DEF Scripts
<1>3. CASE Console
  BY <1>3, SubmitNextKeeps, EnqueueTaskKeeps, WaitKeeps DEF Console
<1>4. CASE \E cmd \in Commands : HandleCommand(cmd)
  BY <1>4, HandleCommandKeeps
<1>5. CASE \E p \in Sides : RunTask(p) \/ Notify(p)
  BY <1>5, RunTaskKeeps, NotifyKeeps
<1>6. CASE OnResetMessage
  BY <1>6, OnResetMessageKeeps
<1>7. CASE UNCHANGED vars
  BY <1>7, Stutters
<1> QED
  BY <1>1, <1>2, <1>3, <1>4, <1>5, <1>6, <1>7 DEF Next

\* Every state of the process satisfies the inductive invariant: what each VM is and what it
\* was told, how far the handshake of console and game thread is, what a session has of
\* its savegame.
THEOREM Invariance == Spec => []IInv
BY Starts, Preserves, PTL DEF Spec

-----------------------------------------------------------------------------
(* The properties.                                                          *)

\* The state has its shape: in particular no VM is left in the preloading context, and no VM
\* is told of more than six events.
THEOREM TypeCorrect == Spec => []TypeOK
<1>1. IInv => TypeOK
  <2> SUFFICES ASSUME IInv PROVE TypeOK
    OBVIOUS
  <2>1. \A p \in Sides : vm[p] \in VMs
    <3> SUFFICES ASSUME NEW p \in Sides PROVE vm[p] \in VMs
      OBVIOUS
    <3> DEFINE t == vm[p].told
    <3>1. vm[p] \in VM /\ t \in Seq(Events) /\ Kept(vm[p], state[p], prepared[p])
      BY DEF IInv, Sorts, VM, VMsKept
    <3>2. vm[p].odd = FALSE /\ vm[p].ctx # "none" => Told(t, state[p], prepared[p])
      BY <3>1 DEF Kept
    <3>3. prepared[p] \in {"no", "stats", "skills"}
          /\ state[p] \in DOMAIN ServerMoves \cup DOMAIN ClientMoves
      BY DEF IInv, Sorts
    <3>4. vm[p].ctx = "none" \/ vm[p].odd = TRUE => Len(t) = 0
      BY <3>1 DEF Kept
    <3>5. vm[p].odd = FALSE /\ vm[p].ctx # "none" =>
            state[p] \notin {"none", "Idle", "LoadMenu", "UnloadSession"}
      BY <3>1 DEF Kept
    <3>6. vm[p].odd \in BOOLEAN
      BY <3>1 DEF VM
    <3> HIDE DEF t
    <3>7. Len(t) \in {0, 1, 2, 3, 4}
      BY <3>2, <3>3, <3>4, <3>5, <3>6, States DEF Told, Joining, Informed, InSession
    <3>8. Len(t) \in 0 .. 6 /\ t \in [1 .. Len(t) -> Events]
      BY <3>1, <3>7
    <3>9. t \in UNION {[1 .. n -> {"ModuleLoading", "ModuleResume", "SessionLoading",
                                   "SessionLoaded"}] : n \in 0 .. 6}
      BY <3>8 DEF Events
    <3> QED
      BY <3>1, <3>9 DEF VM, VMs, Contexts, Vars, t
  <2> QED
    BY <2>1 DEF IInv, Sorts, TypeOK, Vars
<1> QED
  BY Invariance, <1>1, PTL

\* Scripts that work for a session have heard SessionLoading once and then SessionLoaded
\* once, and of the module first, whatever sessions, menus, level changes and resets (from
\* the console, the story, or the other side's message) there were: except a VM that a
\* reset made while the game was between states.
THEOREM EventsInOrder == Spec => []ToldOnce
<1>1. IInv => ToldOnce
  <2> SUFFICES ASSUME IInv, NEW p \in Sides,
                      state[p] \in InSession, vm[p].ctx # "none", ~vm[p].odd
               PROVE  LET told == vm[p].told IN
                        /\ \E i, j \in DOMAIN told :
                             i < j /\ Once(told, i, "SessionLoading")
                                   /\ Once(told, j, "SessionLoaded")
                        /\ told[1] \in {"ModuleLoading", "ModuleResume"}
    BY DEF ToldOnce
  <2> DEFINE t == vm[p].told
  <2>1. t \in Seq(Events) /\ Informed(t)
    BY DEF IInv, Sorts, VM, VMsKept, Kept, Told
  <2> HIDE DEF t
  <2>2. DOMAIN t = 1 .. Len(t)
    BY <2>1
  <2>3. t[1] \in {"ModuleLoading", "ModuleResume"}
    BY <2>1 DEF Informed, Module
  <2>4. CASE Len(t) = 3
    <3>1. t[1] \in Module /\ t[2] = "SessionLoading" /\ t[3] = "SessionLoaded"
      BY <2>1, <2>4 DEF Informed
    <3>2. DOMAIN t = {1, 2, 3}
      BY <2>2, <2>4
    <3>3. Once(t, 2, "SessionLoading") /\ Once(t, 3, "SessionLoaded")
      BY <3>1, <3>2 DEF Once, Module
    <3> QED
      BY <2>3, <3>2, <3>3 DEF t
  <2>5. CASE Len(t) = 4
    <3>1. /\ t[1] \in Module /\ t[2] = "ModuleResume"
          /\ t[3] = "SessionLoading" /\ t[4] = "SessionLoaded"
      BY <2>1, <2>5 DEF Informed
    <3>2. DOMAIN t = {1, 2, 3, 4}
      BY <2>2, <2>5
    <3>3. Once(t, 3, "SessionLoading") /\ Once(t, 4, "SessionLoaded")
      BY <3>1, <3>2 DEF Once, Module
    <3> QED
      BY <2>3, <3>2, <3>3 DEF t
  <2> QED
    BY <2>1, <2>4, <2>5 DEF Informed
<1> QED
  BY Invariance, <1>1, PTL

\* The game thread only notifies a console that still waits in SubmitTaskAndWait, whose
\* locals it notifies: the lock taken before the task is queued is enough for it.
THEOREM NotifiesTheWaiting == Spec => []NotifiesLive
<1>1. IInv => NotifiesLive
  BY DEF IInv, Sorts, Handshake, NotifiesLive, ConsoleAt
<1> QED
  BY Invariance, <1>1, PTL

\* When the server tells its scripts SessionLoaded, PersistentVars of the mod are what the
\* savegame had; they are empty in a new game, if Lua failed to take those of the savegame,
\* and if the savegame is newer than the extender.
THEOREM VarsBackFirst == Spec => RestoredFirst
<1> DEFINE Back ==
      state["server"] = "LoadSession" /\ state'["server"] # "LoadSession"
        /\ installed /\ ~vm["server"].odd => vm["server"].vars = Returned
<1>1. IInv /\ [Next]_vars => [Back]_vars
  <2> SUFFICES ASSUME IInv, Next, state["server"] = "LoadSession",
                      state'["server"] # "LoadSession", installed, ~vm["server"].odd
               PROVE  vm["server"].vars = Returned
    OBVIOUS
  <2>1. PICK to : ServerStateChanged(to)
    <3>1. \A to : ClientStateChanged(to) => state'["server"] = state["server"]
      BY GameStateChanges DEF ClientStateChanged, IInv, Sides
    <3>2. state' # state /\ ~\E to : ClientStateChanged(to)
      BY <3>1
    <3>3. CASE Games
      BY <3>2, <3>3 DEF Games, OnStatsLoad, OnSkillPrototypeManagerInit, SaveGame, LoadGame
    <3>4. CASE Scripts
      BY <3>2, <3>4 DEF Scripts, SetPersistentVars, Sync, SetPersistence, CreateStat, OsiLuaReset
    <3>5. CASE Console \/ \E cmd \in Commands : HandleCommand(cmd)
      BY <3>2, <3>5 DEF Console, SubmitNext, EnqueueTask, Wait, HandleCommand
    <3>6. CASE OnResetMessage \/ \E p \in Sides : RunTask(p) \/ Notify(p)
      BY <3>2, <3>6 DEF OnResetMessage, RunTask, Notify
    <3> QED
      BY <3>3, <3>4, <3>5, <3>6 DEF Next
  <2>2. source.read # "unread" /\ installed = TRUE /\ vm["server"].odd = FALSE
    BY <2>1 DEF ServerStateChanged, OnGameStateChanged, IInv, Sorts, VM, Sides
  <2> QED
    BY <2>2 DEF IInv, Savegames, Sources
<1> HIDE DEF Back
<1>2. Spec => [][Back]_vars
  BY Invariance, <1>1, PTL DEF Spec
<1> QED
  BY <1>2 DEF RestoredFirst, Back

\* A savegame keeps PersistentVars of a mod that is not installed as the session brought
\* them, never loses those of one that is, whether or not Lua took them and can write them
\* out, and keeps just the stats that the session brought or its scripts wanted: unless a
\* reset has thrown SessionLoading once more (which wipes them: OnGameSessionLoading,
\* LuaServer.cpp).
THEOREM SavegamesComplete == Spec => SavesKeep
<1> DEFINE Keeps ==
      saved' # saved /\ ~wiped =>
        /\ ~installed => saved'.vars = source.vars
        /\ source.vars # NoValue => saved'.vars # NoValue
        /\ saved'.stats = wanted
<1>1. IInv /\ [Next]_vars => [Keeps]_vars
  <2> SUFFICES ASSUME IInv, Next, saved' # saved, ~wiped
               PROVE  /\ ~installed => saved'.vars = source.vars
                      /\ source.vars # NoValue => saved'.vars # NoValue
                      /\ saved'.stats = wanted
    OBVIOUS
  <2>1. PICK readable \in BOOLEAN : SaveGame(readable)
    <3> USE DEF serverData, sessionData
    <3>1. CASE Games
      BY <3>1 DEF Games, ServerStateChanged, ClientStateChanged, OnGameStateChanged,
         OnStatsLoad, OnSkillPrototypeManagerInit, LoadGame
    <3>2. CASE Scripts
      BY <3>2 DEF Scripts, SetPersistentVars, Sync, SetPersistence, CreateStat, OsiLuaReset
    <3>3. CASE Console \/ \E cmd \in Commands : HandleCommand(cmd)
      BY <3>3 DEF Console, SubmitNext, EnqueueTask, Wait, HandleCommand
    <3>4. CASE OnResetMessage \/ \E p \in Sides : RunTask(p) \/ Notify(p)
      BY <3>4 DEF OnResetMessage, RunTask, Notify
    <3> QED
      BY <3>1, <3>2, <3>3, <3>4 DEF Next
  <2>2. /\ state["server"] = "Save"
        /\ saved' = [vars |-> GetModPersistentVars(readable), stats |-> ext.kept \cap entries]
    BY <2>1 DEF SaveGame
  <2>3. ext.cached = source.vars /\ ext.kept = wanted /\ ext.kept \subseteq entries
    BY <2>2 DEF IInv, Sorts, Savegames, Sources, InSession
  <2>4. /\ saved'.stats = wanted
        /\ saved'.vars = IF installed /\ readable /\ vm["server"].vars # NoValue
                            THEN vm["server"].vars ELSE source.vars
    BY <2>2, <2>3 DEF GetModPersistentVars
  <2> QED
    BY <2>4
<1> HIDE DEF Keeps
<1>2. Spec => [][Keeps]_vars
  BY Invariance, <1>1, PTL DEF Spec
<1> QED
  BY <1>2 DEF SavesKeep, Keeps

=============================================================================
