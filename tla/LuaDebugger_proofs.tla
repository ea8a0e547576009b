------------------------- MODULE LuaDebugger_proofs -------------------------
(***************************************************************************)
(* Proofs of LuaDebugger's safety properties, for any set of lines, any    *)
(* depth of scripts, any number of frontends and of requests.              *)
(***************************************************************************)
EXTENDS LuaDebugger, TLAPS

-----------------------------------------------------------------------------
(* The inductive invariant: the stacks of the two threads.                  *)

Lua  == stack["lua"]
Msgr == stack["msgr"]

Sending(f, kind)  == f.at \in {"stamp", "send"} /\ f.msg.kind = kind
Awaiting(f, kind) == f.at = "stamp" /\ f.msg.kind = kind

\* Above its first n frames a thread switches the debugger off.
Off(q, n) ==
  \/ Len(q) = n + 1 /\ q[n + 1].at \in {"disable", "detach"}
  \/ Len(q) = n + 2 /\ q[n + 1].at = "detach" /\ q[n + 2].at = "release"

Quiet(q) == \A i \in 1 .. Len(q) : q[i].at \notin {"disable", "detach", "release"}

\* TriggerBreakpoint has announced no stop yet ...
Announcing(q) ==
  \/ Len(q) = 4 /\ Awaiting(q[3], "stop") /\ q[4].at = "clear"
  \/ Len(q) = 3 /\ Sending(q[3], "stop")

\* ... or it is in the wait, where an expression is evaluated.  (One that raises an error
\* there waits for the mutex for good.)
Evaluating(q) ==
  \/ Len(q) = 3 /\ ((q[3].at = "eval" /\ q[3].msg.kind = "eval") \/ Sending(q[3], "answer"))
  \/ Len(q) = 4 /\ Awaiting(q[3], "answer") /\ q[4].at = "pause"

LuaStack(q) ==
  Len(q) > 0 =>
    /\ q[1].at = "script"
    /\ \/ Len(q) = 1
       \/ Len(q) = 2 /\ q[2].at \in {"hook", "look", "pause", "lock", "wait", "block", "asleep"}
       \/ q[2].at = "lock" /\ (Announcing(q) \/ Off(q, 2))
       \/ q[2].at = "wait" /\ (Evaluating(q) \/ Off(q, 2))

MsgrStack(q) ==
  \/ Len(q) = 0
  \/ Len(q) = 1 /\ q[1].at \in {"recv", "disable", "detach"}
  \/ Len(q) = 2 /\ q[1].at = "detach" /\ q[2].at = "release"
  \/ /\ Len(q) \in 2 .. 6 /\ q[1].at = "recv"
     /\ \/ /\ Len(q) = 2
           /\ \/ Sending(q[2], "result") \/ Sending(q[2], "ready")
              \/ q[2].at \in {"disable", "detach"}
        \/ Len(q) = 3 /\ q[2].at = "detach" /\ q[3].at = "release"
        \/ /\ Len(q) > 2 /\ Awaiting(q[2], "ready") /\ q[3].at = "attach"
           /\ Len(q) > 3 => q[4].at = "enable"
           /\ Len(q) = 5 => Sending(q[5], "connected") \/ q[5].at \in {"disable", "detach"}
           /\ Len(q) = 6 => q[5].at = "detach" /\ q[6].at = "release"

-----------------------------------------------------------------------------
(* The connection.                                                          *)

Has(s, kind)  == \E i \in 1 .. Len(s) : s[i].kind = kind
Lets(m)       == m.kind = "continue" /\ m.action # "pause"
HasLet(s)     == \E i \in 1 .. Len(s) : Lets(s[i])

\* The orders that messages keep: the connect message is the first, nothing that needs a
\* held script comes after the user has let it go, and one stop is on its way at most.
ConnectFirst(s) == \A i \in 1 .. Len(s) : s[i].kind = "connect" => i = 1
LetsLast(s) ==
  \A i, j \in 1 .. Len(s) : i < j /\ Lets(s[i]) => ~Lets(s[j]) /\ s[j].kind # "eval"
OneStop(s)  == \A i, j \in 1 .. Len(s) : s[i].kind = "stop" /\ s[j].kind = "stop" => i = j

\* The backend still receives what is in inbox.
Up == sock \in {"open", "fin"}

\* The messaging thread is in MessageLoop ...
Live(q) == Len(q) > 0 /\ q[1].at = "recv" /\ Quiet(q)

\* ... and is handling the connect message.
Linking(q) == \E i \in 1 .. Len(q) : q[i].at \in {"enable", "attach"}

\* It has handled the connect message, and has seen the Lua thread idle
\* since it accepted the frontend.
Joined ==
  /\ Up /\ ~Has(inbox, "connect")
  /\ ~Linking(Msgr)

Linked ==
  /\ attached <=> sock \in {"backlog", "open"}
  /\ sock \in {"backlog", "open", "fin"} => ConnectFirst(inbox)
  /\ sock = "backlog" =>
       /\ inbox # <<>> /\ inbox[1].kind = "connect" /\ wire = <<>> /\ ~stopped /\ evals = {}
       /\ ~Has(inbox, "eval") /\ ~HasLet(inbox)
  /\ Up => Live(Msgr)
  /\ Up /\ Has(inbox, "connect") => Len(Msgr) = 1
  /\ Joined => Quiet(Lua)

-----------------------------------------------------------------------------
(* Stops.                                                                   *)

\* The Lua thread is in the wait for the user, as far as the frontend can know.
Holding(q) == Len(q) >= 2 /\ q[2].at \in {"lock", "wait", "block", "asleep"}
Waiting(q) == Holding(q) /\ Quiet(q) /\ (q[2].at = "lock" => Len(q) = 2)
Resting    == paused /\ Waiting(Lua)

\* Of the stops that the user has not answered there is one at most.
Stops ==
  /\ attached /\ (stopped \/ Has(wire, "stop")) => Resting
  /\ Up /\ (Has(inbox, "eval") \/ HasLet(inbox)) => Resting
  /\ attached /\ HasLet(inbox) => ~stopped /\ ~Has(wire, "stop")
  /\ attached /\ stopped => ~Has(wire, "stop")
  /\ OneStop(wire)
  /\ sock \in {"backlog", "open", "fin"} => LetsLast(inbox)

\* A stop that is being announced is on, unless the messaging thread switches off.
Announced(q) == Len(q) >= 3 /\ q[2].at = "lock" /\ Sending(q[3], "stop")
Clearing(q)  == Len(q) = 4 /\ q[4].at = "clear"
Detaching(q) == \E i \in 1 .. Len(q) : q[i].at = "detach"

Announces ==
  /\ Announced(Lua) => paused \/ Detaching(Msgr)
  /\ Clearing(Lua) /\ ~paused => ~request

\* Evaluations are queued for a Lua thread that will look again.
Queued == Has(pending, "eval") => Holding(Lua)

-----------------------------------------------------------------------------
(* Breakpoints and evaluations.                                             *)

\* The last update in s is to the lines ls.
Latest(s, ls) ==
  \E i \in 1 .. Len(s) :
    /\ s[i].kind = "breakpoints" /\ s[i].lines = ls
    /\ \A j \in 1 .. Len(s) : i < j => s[j].kind # "breakpoints"

Updates ==
  attached => \A ls \in wanted :
    \/ Latest(inbox, ls)
    \/ /\ ~Has(inbox, "breakpoints") /\ Joined
       /\ \/ Latest(pending, ls)
          \/ ~Has(pending, "breakpoints") /\ breakpoints = ls

IInv ==
  /\ TypeOK
  /\ LuaStack(Lua) /\ MsgrStack(Msgr)
  /\ Linked /\ Stops /\ Announces /\ Queued /\ Updates /\ EvalsAccounted
-----------------------------------------------------------------------------
(* How the actions change a stack q into r.                                 *)

Popped(q, r) ==
  /\ Len(q) > 0 /\ r \in Seq(Frame) /\ Len(r) = Len(q) - 1
  /\ \A i \in 1 .. Len(q) : i < Len(q) => r[i] = q[i]

Pushed(q, r, f) ==
  /\ r \in Seq(Frame) /\ Len(r) = Len(q) + 1 /\ r[Len(q) + 1] = f
  /\ \A i \in 1 .. Len(q) : r[i] = q[i]

\* The top frame gives way to f, ...
Swapped(q, r, f) ==
  /\ Len(q) > 0 /\ r \in Seq(Frame) /\ Len(r) = Len(q) /\ r[Len(q)] = f
  /\ \A i \in 1 .. Len(q) : i < Len(q) => r[i] = q[i]

\* ... to f and g above it, ...
Split(q, r, f, g) ==
  /\ Len(q) > 0 /\ r \in Seq(Frame) /\ Len(r) = Len(q) + 1
  /\ r[Len(q)] = f /\ r[Len(q) + 1] = g
  /\ \A i \in 1 .. Len(q) : i < Len(q) => r[i] = q[i]

\* ... to f, g and h.
Split3(q, r, f, g, h) ==
  /\ Len(q) > 0 /\ r \in Seq(Frame) /\ Len(r) = Len(q) + 2
  /\ r[Len(q)] = f /\ r[Len(q) + 1] = g /\ r[Len(q) + 2] = h
  /\ \A i \in 1 .. Len(q) : i < Len(q) => r[i] = q[i]

\* What Notify does to the stack of "lua".
Woken(q, r) ==
  \/ r = q
  \/ Swapped(q, r, Fr("wait")) /\ q[Len(q)] = Fr("asleep")

Stacks == stack \in [Threads -> Seq(Frame)]

\* Front, as the actions use it.
LEMMA FrontOf ==
  ASSUME NEW q \in Seq(Frame), q # <<>>
  PROVE  /\ Front(q) \in Seq(Frame) /\ Len(Front(q)) = Len(q) - 1 /\ Len(q) > 0
         /\ \A i \in 1 .. Len(q) : i < Len(q) => Front(q)[i] = q[i]
         /\ Last(q) = q[Len(q)] /\ Last(q) \in Frame
<1>1. Len(q) \in Nat /\ Len(q) > 0 /\ q[Len(q)] \in Frame
  OBVIOUS
<1>2. Front(q) \in Seq(Frame) /\ Len(Front(q)) = Len(q) - 1
  BY <1>1 DEF Front
<1>3. \A i \in 1 .. Len(q) : i < Len(q) => Front(q)[i] = q[i]
  BY <1>1 DEF Front
<1> QED
  BY <1>1, <1>2, <1>3 DEF Last

\* Frames of the module's actions.
LEMMA Labels ==
  /\ \A l \in {"script", "hook", "look", "pause", "clear", "lock", "wait", "block", "asleep",
               "recv", "enable", "attach", "disable", "release", "detach"} :
       Fr(l) \in Frame /\ Fr(l).at = l /\ Fr(l).msg = NoMsg
  /\ \A k \in {"connected", "ready", "result", "stop", "answer"}, re \in 0 .. MaxRequests :
       /\ Stamped(k, re) \in Frame /\ Stamped(k, re).at = "stamp"
       /\ Stamped(k, re).msg.kind = k /\ Stamped(k, re).msg.re = re
  /\ \A a \in Action : [at |-> "eval", msg |-> a] \in Frame
BY DEF Frame, Fr, Stamped, ToFrontend, NoMsg

\* A frame that is on top is the last one of the stack.
LEMMA OnTop ==
  ASSUME Stacks, NEW t \in Threads, NEW l, At(t, l)
  PROVE  /\ stack[t] \in Seq(Frame) /\ Len(stack[t]) \in Nat /\ Len(stack[t]) > 0
         /\ Top(t) = stack[t][Len(stack[t])] /\ Top(t).at = l /\ Top(t) \in Frame
BY FrontOf DEF Stacks, At, Top

LEMMA Returns ==
  ASSUME Stacks, NEW t \in Threads, stack[t] # <<>>, Return(t)
  PROVE  Stacks' /\ Popped(stack[t], stack'[t]) /\ \A u \in Threads \ {t} : stack'[u] = stack[u]
BY FrontOf DEF Stacks, Return, Becomes, Popped

LEMMA BecomesOne ==
  ASSUME Stacks, NEW t \in Threads, stack[t] # <<>>, NEW f \in Frame, Becomes(t, <<f>>)
  PROVE  Stacks' /\ Swapped(stack[t], stack'[t], f)
         /\ \A u \in Threads \ {t} : stack'[u] = stack[u]
BY FrontOf DEF Stacks, Becomes, Swapped

LEMMA BecomesTwo ==
  ASSUME Stacks, NEW t \in Threads, stack[t] # <<>>, NEW f \in Frame, NEW g \in Frame,
         Becomes(t, <<f, g>>)
  PROVE  Stacks' /\ Split(stack[t], stack'[t], f, g)
         /\ \A u \in Threads \ {t} : stack'[u] = stack[u]
<1> DEFINE q == stack[t]
           p == Front(q)
           r == p \o <<f, g>>
<1>1. /\ q \in Seq(Frame) /\ p \in Seq(Frame) /\ Len(p) = Len(q) - 1 /\ Len(q) > 0
      /\ \A i \in 1 .. Len(q) : i < Len(q) => p[i] = q[i]
  BY FrontOf DEF Stacks
<1>2. <<f, g>> \in Seq(Frame) /\ Len(<<f, g>>) = 2 /\ <<f, g>>[1] = f /\ <<f, g>>[2] = g
  OBVIOUS
<1>3. Stacks' /\ stack'[t] = r /\ \A u \in Threads \ {t} : stack'[u] = stack[u]
  BY <1>1, <1>2 DEF Stacks, Becomes
<1> HIDE DEF p
<1>4. r \in Seq(Frame) /\ Len(r) = Len(q) + 1 /\ r[Len(q)] = f /\ r[Len(q) + 1] = g
  BY <1>1, <1>2
<1>5. \A i \in 1 .. Len(q) : i < Len(q) => r[i] = q[i]
  BY <1>1, <1>2
<1> QED
  BY <1>1, <1>3, <1>4, <1>5 DEF Split

LEMMA BecomesThree ==
  ASSUME Stacks, NEW t \in Threads, stack[t] # <<>>,
         NEW f \in Frame, NEW g \in Frame, NEW h \in Frame, Becomes(t, <<f, g, h>>)
  PROVE  Stacks' /\ Split3(stack[t], stack'[t], f, g, h)
         /\ \A u \in Threads \ {t} : stack'[u] = stack[u]
<1> DEFINE q == stack[t]
           p == Front(q)
           r == p \o <<f, g, h>>
<1>1. /\ q \in Seq(Frame) /\ p \in Seq(Frame) /\ Len(p) = Len(q) - 1 /\ Len(q) > 0
      /\ \A i \in 1 .. Len(q) : i < Len(q) => p[i] = q[i]
  BY FrontOf DEF Stacks
<1>2. /\ <<f, g, h>> \in Seq(Frame) /\ Len(<<f, g, h>>) = 3
      /\ <<f, g, h>>[1] = f /\ <<f, g, h>>[2] = g /\ <<f, g, h>>[3] = h
  OBVIOUS
<1>3. Stacks' /\ stack'[t] = r /\ \A u \in Threads \ {t} : stack'[u] = stack[u]
  BY <1>1, <1>2 DEF Stacks, Becomes
<1> HIDE DEF p
<1>4. /\ r \in Seq(Frame) /\ Len(r) = Len(q) + 2
      /\ r[Len(q)] = f /\ r[Len(q) + 1] = g /\ r[Len(q) + 2] = h
  BY <1>1, <1>2
<1>5. \A i \in 1 .. Len(q) : i < Len(q) => r[i] = q[i]
  BY <1>1, <1>2
<1> QED
  BY <1>1, <1>3, <1>4, <1>5 DEF Split3

LEMMA CallsOne ==
  ASSUME Stacks, NEW t \in Threads, NEW f \in Frame, Calls(t, <<f>>)
  PROVE  Stacks' /\ Pushed(stack[t], stack'[t], f)
         /\ \A u \in Threads \ {t} : stack'[u] = stack[u]
BY DEF Stacks, Calls, Pushed

\* Notify, after a step that has left the stack of "lua" alone.
LEMMA Notified ==
  ASSUME NEW s \in [Threads -> Seq(Frame)]
  PROVE  /\ Notify(s) \in [Threads -> Seq(Frame)]
         /\ Woken(s["lua"], Notify(s)["lua"])
         /\ Notify(s)["msgr"] = s["msgr"]
<1>1. CASE s["lua"] # <<>> /\ Last(s["lua"]).at = "asleep"
  <2> DEFINE q == s["lua"]
             r == Append(Front(q), Fr("wait"))
  <2>1. q \in Seq(Frame) /\ q # <<>>
    BY <1>1 DEF Threads
  <2>2. Fr("wait") \in Frame
    BY Labels
  <2>3. r \in Seq(Frame) /\ Len(r) = Len(q) /\ r[Len(q)] = Fr("wait") /\ Len(q) > 0
        /\ \A i \in 1 .. Len(q) : i < Len(q) => r[i] = q[i]
    BY <2>1, <2>2, FrontOf
  <2>4. q[Len(q)] = Fr("asleep")
    <3>1. q[Len(q)] \in Frame /\ q[Len(q)].at = "asleep"
      BY <1>1, <2>1, FrontOf
    <3> QED
      BY <3>1 DEF Frame, Fr
  <2>5. Notify(s) = [s EXCEPT !["lua"] = r]
    BY <1>1 DEF Notify
  <2>6. Notify(s) \in [Threads -> Seq(Frame)] /\ Notify(s)["lua"] = r
        /\ Notify(s)["msgr"] = s["msgr"]
    BY <2>3, <2>5 DEF Threads
  <2> QED
    BY <2>3, <2>4, <2>6 DEF Woken, Swapped
<1>2. CASE ~(s["lua"] # <<>> /\ Last(s["lua"]).at = "asleep")
  <2>1. Notify(s) = s
    BY <1>2 DEF Notify
  <2> QED
    BY <2>1 DEF Woken
<1> QED
  BY <1>1, <1>2

-----------------------------------------------------------------------------
(* Steps of "lua", from stack q to r.                                       *)

\* The request e is being evaluated or answered.
Holds(q, e) == \E i \in 1 .. Len(q) : q[i].msg.kind \in {"eval", "answer"} /\ q[i].msg.re = e

\* A step that neither leaves the wait nor switches off nor announces a stop.
Moves(q, r) ==
  /\ LuaStack(r)
  /\ Quiet(q) => Quiet(r)
  /\ Holding(q) => Holding(r)
  /\ Waiting(q) => Waiting(r)
  /\ Announced(r) => Announced(q)
  /\ Clearing(r) => Clearing(q)

Keeps(q, r) == \A e : Holds(q, e) => Holds(r, e)

\* Where the labels of "lua" may be on top.
LEMMA LuaTop ==
  ASSUME NEW q \in Seq(Frame), Len(q) > 0, LuaStack(q), NEW l, q[Len(q)].at = l
  PROVE  /\ Len(q) \in 1 .. 4 /\ q[1].at = "script"
         /\ l = "script" <=> Len(q) = 1
         /\ l \in {"hook", "look", "lock", "wait", "block", "asleep"} => Len(q) = 2
         /\ l = "pause" => \/ Len(q) = 2
                           \/ Len(q) = 4 /\ q[2].at = "wait" /\ Awaiting(q[3], "answer")
         /\ l = "clear" => Len(q) = 4 /\ q[2].at = "lock" /\ Awaiting(q[3], "stop")
         /\ l = "eval"  => Len(q) = 3 /\ q[2].at = "wait" /\ q[3].msg.kind = "eval"
         /\ l \in {"stamp", "send"} =>
              /\ Len(q) = 3
              /\ \/ q[2].at = "lock" /\ Sending(q[3], "stop")
                 \/ q[2].at = "wait" /\ Sending(q[3], "answer")
         /\ l \in {"disable", "detach"} => Len(q) = 3 /\ q[2].at \in {"lock", "wait"}
         /\ l = "release" => Len(q) = 4 /\ q[2].at \in {"lock", "wait"} /\ q[3].at = "detach"
         /\ l \notin {"enable", "attach", "recv"}
BY DEF LuaStack, Announcing, Evaluating, Off, Sending, Awaiting

\* Labels of frames that have no message.
LEMMA NoMessage ==
  ASSUME NEW f \in Frame, f.at \notin {"stamp", "send", "eval"}
  PROVE  f.msg.kind = "none"
BY DEF Frame, NoMsg

LEMMA LuaPush ==
  ASSUME NEW q \in Seq(Frame), NEW r, LuaStack(q), NEW f \in Frame, Pushed(q, r, f),
         \/ q = <<>> /\ f.at = "script"
         \/ Len(q) = 1 /\ f.at \in {"hook", "pause"}
         \/ Len(q) = 2 /\ q[2].at = "wait" /\ f.at = "eval" /\ f.msg.kind = "eval"
  PROVE  Moves(q, r) /\ Keeps(q, r) /\ (f.msg.kind = "eval" => Holds(r, f.msg.re))
<1>1. Keeps(q, r) /\ (f.msg.kind = "eval" => Holds(r, f.msg.re))
  BY DEF Pushed, Keeps, Holds
<1>2. LuaStack(r)
  BY DEF Pushed, LuaStack, Evaluating
<1>3. Quiet(q) => Quiet(r)
  BY DEF Pushed, Quiet
<1>4. /\ Holding(q) => Holding(r)
      /\ Announced(r) => Announced(q)
      /\ Clearing(r) => Clearing(q)
      /\ Holding(q) => q[2].at # "lock"
  BY DEF Pushed, Holding, Announced, Clearing, Sending
<1>5. Waiting(q) => Waiting(r)
  BY <1>3, <1>4 DEF Waiting, Pushed, Holding
<1> QED
  BY <1>1, <1>2, <1>3, <1>4, <1>5 DEF Moves

LEMMA LuaSwap ==
  ASSUME NEW q \in Seq(Frame), NEW r, LuaStack(q), NEW f \in Frame, Swapped(q, r, f),
         \/ Len(q) = 2 /\ <<q[2].at, f.at>> \in
                           {<<"hook", "look">>, <<"look", "pause">>, <<"lock", "wait">>,
                            <<"wait", "block">>, <<"block", "asleep">>, <<"asleep", "wait">>}
         \/ Len(q) = 3 /\ q[3].at = "eval" /\ Awaiting(f, "answer") /\ f.msg.re = q[3].msg.re
         \/ Len(q) = 3 /\ q[3].at = "stamp" /\ f.at = "send"
                       /\ f.msg.kind = q[3].msg.kind /\ f.msg.re = q[3].msg.re
         \/ Len(q) = 3 /\ q[3].at = "disable" /\ f.at = "detach"
  PROVE  Moves(q, r) /\ Keeps(q, r)
<1>0. Len(q) \in Nat /\ Len(r) = Len(q) /\ r[Len(q)] = f /\ Len(q) > 0
      /\ \A i \in 1 .. Len(q) : i < Len(q) => r[i] = q[i]
  BY DEF Swapped
<1>1. Keeps(q, r)
  <2> SUFFICES ASSUME NEW e, NEW i \in 1 .. Len(q), q[i].msg.kind \in {"eval", "answer"},
                      q[i].msg.re = e
               PROVE  Holds(r, e)
    BY DEF Keeps, Holds
  <2>1. CASE i < Len(q)
    BY <1>0, <2>1 DEF Holds
  <2>2. CASE i = Len(q)
    <3>1. Len(q) = 3 /\ q[3].at \in {"eval", "stamp"}
      <4>1. Len(q) = 2 => q[2].at \notin {"stamp", "send", "eval"}
        OBVIOUS
      <4> QED
        BY <1>0, <2>2, <4>1, NoMessage
    <3> QED
      BY <1>0, <2>2, <3>1 DEF Holds, Awaiting
  <2> QED
    BY <1>0, <2>1, <2>2
<1>2. LuaStack(r)
  BY <1>0 DEF LuaStack, Announcing, Evaluating, Off, Sending, Awaiting
<1>3. Quiet(q) => Quiet(r)
  BY <1>0 DEF Quiet, Awaiting
<1>4. /\ Holding(q) => Holding(r)
      /\ Announced(r) => Announced(q)
      /\ Clearing(r) => Clearing(q)
      /\ Len(q) > 2 => r[2] = q[2]
  BY <1>0 DEF Holding, Announced, Clearing, Sending, Awaiting
<1>5. Waiting(q) => Waiting(r)
  BY <1>0, <1>3, <1>4 DEF Waiting, Holding
<1> QED
  BY <1>1, <1>2, <1>3, <1>4, <1>5 DEF Moves

LEMMA LuaPop ==
  ASSUME NEW q \in Seq(Frame), NEW r, LuaStack(q), Popped(q, r),
         \/ Len(q) = 1
         \/ Len(q) = 2 /\ q[2].at = "look"
         \/ Len(q) = 3 /\ q[3].at \in {"stamp", "send", "detach"}
         \/ Len(q) = 4 /\ q[4].at \in {"clear", "release"}
  PROVE  Moves(q, r) /\ (q[Len(q)].msg.kind \notin {"eval", "answer"} => Keeps(q, r))
<1>0. Len(q) \in Nat /\ Len(r) = Len(q) - 1 /\ Len(q) > 0
      /\ \A i \in 1 .. Len(q) : i < Len(q) => r[i] = q[i]
  BY DEF Popped
<1>1. q[Len(q)].msg.kind \notin {"eval", "answer"} => Keeps(q, r)
  BY <1>0 DEF Keeps, Holds
<1>2. LuaStack(r)
  BY <1>0 DEF LuaStack, Announcing, Evaluating, Off, Sending, Awaiting
<1>3. Quiet(q) => Quiet(r)
  BY <1>0 DEF Quiet
<1>4. /\ Holding(q) => Holding(r)
      /\ Announced(r) => Announced(q)
      /\ Clearing(r) => Clearing(q)
      /\ Len(q) > 2 => r[2] = q[2]
  <2>1. Holding(q) => Holding(r)
    BY <1>0 DEF Holding
  <2>2. Announced(r) => Announced(q)
    BY <1>0 DEF Announced, Sending
  <2>3. Clearing(r) => Clearing(q)
    <3>1. Len(r) # 4
      BY <1>0
    <3> QED
      BY <3>1 DEF Clearing
  <2> QED
    BY <1>0, <2>1, <2>2, <2>3
<1>5. Waiting(q) => Waiting(r)
  BY <1>0, <1>3, <1>4 DEF Waiting, Holding
<1> QED
  BY <1>1, <1>2, <1>3, <1>4, <1>5 DEF Moves

\* An evaluation that raises an error, and HandleDisconnect.
LEMMA LuaSplit ==
  ASSUME NEW q \in Seq(Frame), NEW r, LuaStack(q), NEW f \in Frame, NEW g \in Frame,
         Split(q, r, f, g), Len(q) = 3,
         \/ q[3].at = "eval" /\ Awaiting(f, "answer") /\ f.msg.re = q[3].msg.re /\ g.at = "pause"
         \/ q[3].at = "disable" /\ f.at = "detach" /\ g.at = "release"
  PROVE  Moves(q, r) /\ Keeps(q, r)
<1>0. /\ Len(r) = 4 /\ r[3] = f /\ r[4] = g
      /\ r[1] = q[1] /\ r[2] = q[2]
  BY DEF Split
<1>1. Keeps(q, r)
  <2> SUFFICES ASSUME NEW e, NEW i \in 1 .. 3, q[i].msg.kind \in {"eval", "answer"},
                      q[i].msg.re = e
               PROVE  Holds(r, e)
    BY DEF Keeps, Holds
  <2>1. CASE i < 3
    BY <1>0, <2>1 DEF Holds
  <2>2. CASE i = 3
    <3>1. q[3] \in Frame /\ (q[3].at = "disable" => q[3].msg.kind = "none")
      BY NoMessage
    <3>2. f.msg.kind = "answer" /\ f.msg.re = e
      BY <2>2, <3>1 DEF Awaiting
    <3> QED
      BY <1>0, <3>2 DEF Holds
  <2> QED
    BY <1>0, <2>1, <2>2
<1>2. LuaStack(r)
  BY <1>0 DEF LuaStack, Announcing, Evaluating, Off, Sending, Awaiting
<1>3. Quiet(q) => Quiet(r)
  BY <1>0 DEF Quiet, Awaiting
<1>4. /\ Holding(q) => Holding(r)
      /\ Announced(r) => Announced(q)
      /\ Clearing(r) => Clearing(q)
  BY <1>0 DEF Holding, Announced, Clearing, Sending, Awaiting
<1>5. Waiting(q) => Waiting(r)
  BY <1>0, <1>3, <1>4 DEF Waiting, LuaStack, Announcing, Evaluating, Off
<1> QED
  BY <1>1, <1>2, <1>3, <1>4, <1>5 DEF Moves

\* The connection fails on the Lua thread.
LEMMA LuaFails ==
  ASSUME NEW q \in Seq(Frame), NEW r, LuaStack(q), q[Len(q)].at = "send",
         Swapped(q, r, Fr("disable"))
  PROVE  /\ LuaStack(r) /\ ~Announced(r) /\ ~Clearing(r)
         /\ Holding(q) => Holding(r)
<1>1. Len(q) > 0
  BY DEF Swapped
<1>2. Len(q) = 3 /\ q[1].at = "script" /\ q[2].at \in {"lock", "wait"}
  BY <1>1, LuaTop
<1>3. Len(r) = 3 /\ r[1] = q[1] /\ r[2] = q[2] /\ r[3].at = "disable"
  BY <1>2 DEF Swapped, Fr
<1> QED
  BY <1>2, <1>3 DEF LuaStack, Off, Announced, Clearing, Sending, Holding

\* TriggerBreakpoint announces the stop.
LEMMA LuaStops ==
  ASSUME NEW q \in Seq(Frame), NEW r, LuaStack(q), Len(q) = 2, q[2].at = "pause",
         Split3(q, r, Fr("lock"), Stamped("stop", 0), Fr("clear"))
  PROVE  /\ LuaStack(r) /\ Keeps(q, r) /\ ~Waiting(q) /\ Holding(r)
         /\ Quiet(q) => Quiet(r)
<1>0. /\ Len(r) = 4 /\ r[1] = q[1] /\ r[2].at = "lock" /\ r[4].at = "clear"
      /\ r[3].at = "stamp" /\ r[3].msg.kind = "stop"
  BY Labels DEF Split3, Fr, Stamped
<1>1. Keeps(q, r)
  <2> SUFFICES ASSUME NEW e, NEW i \in 1 .. 2, q[i].msg.kind \in {"eval", "answer"},
                      q[i].msg.re = e
               PROVE  Holds(r, e)
    BY DEF Keeps, Holds
  <2> QED
    BY <1>0, NoMessage DEF Holds
<1>2. LuaStack(r)
  BY <1>0 DEF LuaStack, Announcing, Sending, Awaiting
<1>3. Quiet(q) => Quiet(r)
  BY <1>0 DEF Quiet
<1> QED
  BY <1>0, <1>1, <1>2, <1>3 DEF Waiting, Holding

\* The wait ends.
LEMMA LuaLeaves ==
  ASSUME NEW q \in Seq(Frame), NEW r, LuaStack(q), Len(q) = 2, q[2].at \in {"wait"}, Popped(q, r)
  PROVE  /\ LuaStack(r) /\ Keeps(q, r)
         /\ Quiet(q) => Quiet(r)
         /\ ~Announced(r) /\ ~Clearing(r)
<1>0. Len(r) = 1 /\ r[1] = q[1]
  BY DEF Popped
<1>1. Keeps(q, r)
  <2> SUFFICES ASSUME NEW e, NEW i \in 1 .. 2, q[i].msg.kind \in {"eval", "answer"},
                      q[i].msg.re = e
               PROVE  Holds(r, e)
    BY DEF Keeps, Holds
  <2> QED
    BY <1>0, NoMessage DEF Holds
<1> QED
  BY <1>0, <1>1 DEF LuaStack, Quiet, Announced, Clearing

LEMMA LuaWoken ==
  ASSUME NEW q \in Seq(Frame), NEW r, LuaStack(q), Woken(q, r)
  PROVE  Moves(q, r) /\ Keeps(q, r)
<1>1. CASE r = q
  BY <1>1 DEF Moves, Keeps
<1>2. CASE Swapped(q, r, Fr("wait")) /\ q[Len(q)] = Fr("asleep")
  <2>1. Fr("wait") \in Frame /\ Fr("wait").at = "wait" /\ q[Len(q)].at = "asleep" /\ Len(q) > 0
    BY <1>2, Labels DEF Fr, Swapped
  <2>2. Len(q) = 2
    BY <2>1, LuaTop
  <2> QED
    BY <1>2, <2>1, <2>2, LuaSwap
<1> QED
  BY <1>1, <1>2 DEF Woken

-----------------------------------------------------------------------------
(* Steps of "msgr", from stack q to r.                                      *)

\* Where the labels of "msgr" may be on top.
LEMMA MsgrTop ==
  ASSUME NEW q \in Seq(Frame), Len(q) > 0, MsgrStack(q), NEW l, q[Len(q)].at = l
  PROVE  /\ l = "recv" => Len(q) = 1
         /\ l = "attach" => Len(q) = 3
         /\ l = "enable" => Len(q) = 4
         /\ l \in {"stamp", "send"} =>
              \/ Len(q) = 2 /\ (Sending(q[2], "result") \/ Sending(q[2], "ready"))
              \/ Len(q) = 5 /\ Sending(q[5], "connected")
         /\ l = "disable" => Len(q) \in {1, 2, 5}
         /\ l \in {"recv", "attach", "enable", "stamp", "send", "disable", "release", "detach"}
<1>1. Len(q) \in 1 .. 6
  BY DEF MsgrStack
<1>2. CASE Len(q) = 1
  BY <1>2 DEF MsgrStack
<1>3. CASE Len(q) = 2
  BY <1>3 DEF MsgrStack, Sending
<1>4. CASE Len(q) = 3
  BY <1>4 DEF MsgrStack
<1>5. CASE Len(q) = 4
  BY <1>5 DEF MsgrStack
<1>6. CASE Len(q) = 5
  BY <1>6 DEF MsgrStack, Sending
<1>7. CASE Len(q) = 6
  BY <1>7 DEF MsgrStack
<1> QED
  BY <1>1, <1>2, <1>3, <1>4, <1>5, <1>6, <1>7

\* A step that neither switches off nor connects.
Handles(q, r) ==
  /\ MsgrStack(r)
  /\ Live(q) => Live(r)
  /\ Detaching(q) => Detaching(r)
  /\ Linking(q) <=> Linking(r)

LEMMA MsgrPush ==
  ASSUME NEW q \in Seq(Frame), NEW r, MsgrStack(q), NEW f \in Frame, Pushed(q, r, f),
         \/ q = <<>> /\ f.at = "recv"
         \/ Len(q) = 1 /\ q[1].at = "recv" /\ Sending(f, "result")
  PROVE  Handles(q, r) /\ (q = <<>> => Live(r))
<1>0. /\ Len(q) \in Nat /\ Len(r) = Len(q) + 1 /\ r[Len(q) + 1] = f
      /\ \A i \in 1 .. Len(q) : r[i] = q[i]
  BY DEF Pushed
<1>1. MsgrStack(r)
  BY <1>0 DEF MsgrStack
<1>2. (Live(q) => Live(r)) /\ (q = <<>> => Live(r))
  BY <1>0 DEF Live, Quiet, Sending
<1>3. Detaching(q) => Detaching(r)
  BY <1>0 DEF Detaching
<1>4. Linking(q) <=> Linking(r)
  BY <1>0 DEF Linking, Sending
<1> QED
  BY <1>1, <1>2, <1>3, <1>4 DEF Handles

\* Stamp.
LEMMA MsgrStamps ==
  ASSUME NEW q \in Seq(Frame), NEW r, MsgrStack(q), NEW f \in Frame, Swapped(q, r, f),
         q[Len(q)].at = "stamp", f.at = "send", f.msg.kind = q[Len(q)].msg.kind
  PROVE  Handles(q, r)
<1>0. /\ Len(q) \in Nat /\ Len(r) = Len(q) /\ r[Len(q)] = f /\ Len(q) > 0
      /\ \A i \in 1 .. Len(q) : i < Len(q) => r[i] = q[i]
  BY DEF Swapped
<1>a. \/ Len(q) = 2 /\ (Sending(q[2], "result") \/ Sending(q[2], "ready"))
      \/ Len(q) = 5 /\ Sending(q[5], "connected")
  BY <1>0, MsgrTop
<1>1. MsgrStack(r)
  BY <1>0, <1>a DEF MsgrStack, Sending, Awaiting
<1>2. Live(q) => Live(r)
  BY <1>0, <1>a DEF Live, Quiet
<1>3. Detaching(q) => Detaching(r)
  <2> SUFFICES ASSUME NEW i \in 1 .. Len(q), q[i].at = "detach" PROVE Detaching(r)
    BY DEF Detaching
  <2>1. i < Len(q)
    BY <1>0
  <2> QED
    BY <1>0, <2>1 DEF Detaching
<1>4. Linking(q) <=> Linking(r)
  <2>1. \A i \in 1 .. Len(q) :
          q[i].at \in {"enable", "attach"} \/ r[i].at \in {"enable", "attach"}
            => i < Len(q) /\ r[i] = q[i]
    BY <1>0
  <2> QED
    BY <1>0, <2>1 DEF Linking
<1> QED
  BY <1>1, <1>2, <1>3, <1>4 DEF Handles

\* A message is sent or dropped, or debuggerReady_ is set.
LEMMA MsgrPops ==
  ASSUME NEW q \in Seq(Frame), NEW r, MsgrStack(q), Popped(q, r),
         q[Len(q)].at \in {"stamp", "send", "enable"}
  PROVE  Handles(q, r)
<1>0. /\ Len(q) \in Nat /\ Len(r) = Len(q) - 1 /\ Len(q) > 0
      /\ \A i \in 1 .. Len(q) : i < Len(q) => r[i] = q[i]
  BY DEF Popped
<1>a. Len(q) = 2 \/ Len(q) = 5 \/ (Len(q) = 4 /\ q[4].at = "enable")
  BY <1>0, MsgrTop
<1>1. MsgrStack(r)
  <2>1. CASE Len(q) = 2
    BY <1>0, <2>1 DEF MsgrStack
  <2>2. CASE Len(q) = 5
    BY <1>0, <2>2 DEF MsgrStack
  <2>3. CASE Len(q) = 4
    BY <1>0, <2>3 DEF MsgrStack
  <2> QED
    BY <1>a, <2>1, <2>2, <2>3
<1>2. Live(q) => Live(r)
  BY <1>0, <1>a DEF Live, Quiet
<1>3. Detaching(q) => Detaching(r)
  <2> SUFFICES ASSUME NEW i \in 1 .. Len(q), q[i].at = "detach" PROVE Detaching(r)
    BY DEF Detaching
  <2>1. i < Len(q)
    BY <1>0
  <2> QED
    BY <1>0, <2>1 DEF Detaching
<1>4. Linking(q) => Linking(r)
  <2> SUFFICES ASSUME NEW i \in 1 .. Len(q), q[i].at \in {"enable", "attach"} PROVE Linking(r)
    BY DEF Linking
  <2>1. CASE i < Len(q)
    BY <1>0, <2>1 DEF Linking
  <2>2. CASE i = Len(q)
    <3>1. Len(q) = 4 /\ q[3].at = "attach"
      <4>1. q[Len(q)].at = "enable"
        BY <2>2
      <4>2. Len(q) = 4
        BY <1>0, <4>1, MsgrTop
      <4> QED
        BY <4>1, <4>2 DEF MsgrStack, Sending
    <3> QED
      BY <1>0, <3>1 DEF Linking
  <2> QED
    BY <1>0, <2>1, <2>2
<1>5. Linking(r) => Linking(q)
  BY <1>0 DEF Linking
<1> QED
  BY <1>1, <1>2, <1>3, <1>4, <1>5 DEF Handles

\* The thread attaches: it is in MessageLoop, and answers ready.
LEMMA MsgrAttaches ==
  ASSUME NEW q \in Seq(Frame), NEW r, MsgrStack(q), Popped(q, r), q[Len(q)].at = "attach"
  PROVE  /\ MsgrStack(r) /\ (Live(q) => Live(r)) /\ Len(q) = 3
         /\ Detaching(q) => Detaching(r)
<1>0. /\ Len(q) \in Nat /\ Len(r) = Len(q) - 1 /\ Len(q) > 0
      /\ \A i \in 1 .. Len(q) : i < Len(q) => r[i] = q[i]
  BY DEF Popped
<1>a. Len(q) = 3
  BY <1>0, MsgrTop
<1>1. MsgrStack(r)
  BY <1>0, <1>a DEF MsgrStack, Sending, Awaiting
<1>2. Live(q) => Live(r)
  BY <1>0, <1>a DEF Live, Quiet
<1>3. Detaching(q) => Detaching(r)
  <2> SUFFICES ASSUME NEW i \in 1 .. Len(q), q[i].at = "detach" PROVE Detaching(r)
    BY DEF Detaching
  <2>1. i < Len(q)
    BY <1>0
  <2> QED
    BY <1>0, <2>1 DEF Detaching
<1> QED
  BY <1>a, <1>1, <1>2, <1>3

\* The connection fails on the messaging thread, ...
LEMMA MsgrFails ==
  ASSUME NEW q \in Seq(Frame), NEW r, MsgrStack(q), Swapped(q, r, Fr("disable")),
         q[Len(q)].at \in {"recv", "send"}
  PROVE  MsgrStack(r) /\ (Detaching(q) => Detaching(r))
<1>0. /\ Len(q) \in Nat /\ Len(r) = Len(q) /\ r[Len(q)].at = "disable" /\ Len(q) > 0
      /\ \A i \in 1 .. Len(q) : i < Len(q) => r[i] = q[i]
  BY DEF Swapped, Fr
<1>1. Len(q) \in {1, 2, 5}
  BY <1>0, MsgrTop
<1>2. MsgrStack(r)
  <2>1. CASE Len(q) = 1
    BY <1>0, <2>1 DEF MsgrStack
  <2>2. CASE Len(q) = 2
    BY <1>0, <2>2 DEF MsgrStack
  <2>3. CASE Len(q) = 5
    BY <1>0, <2>3 DEF MsgrStack
  <2> QED
    BY <1>1, <2>1, <2>2, <2>3
<1>3. ASSUME NEW i \in 1 .. Len(q), q[i].at = "detach" PROVE Detaching(r)
  <2>1. i < Len(q)
    BY <1>0, <1>3
  <2> QED
    BY <1>0, <1>3, <2>1 DEF Detaching
<1> QED
  BY <1>2, <1>3 DEF Detaching

\* ... was closed by the other thread, ...
LEMMA MsgrLeaves ==
  ASSUME NEW q \in Seq(Frame), NEW r, MsgrStack(q), Popped(q, r), q[Len(q)].at = "recv"
  PROVE  MsgrStack(r) /\ ~Detaching(q)
<1>1. Len(q) = 1 /\ Len(r) = 0
  BY MsgrTop DEF Popped
<1> QED
  BY <1>1 DEF MsgrStack, Detaching

\* ... and EnableDebugging(false) runs there.
LEMMA MsgrDisables ==
  ASSUME NEW q \in Seq(Frame), NEW r, MsgrStack(q), q[Len(q)].at = "disable",
         Swapped(q, r, Fr("detach")) \/ Split(q, r, Fr("detach"), Fr("release"))
  PROVE  MsgrStack(r) /\ Detaching(r) /\ ~Live(q)
<1>1. Len(q) > 0 /\ Len(q) \in Nat /\ Len(q) \in {1, 2, 5} /\ ~Live(q)
  BY MsgrTop DEF Swapped, Split, Live, Quiet
<1>2. CASE Swapped(q, r, Fr("detach"))
  <2>1. /\ Len(r) = Len(q) /\ r[Len(q)].at = "detach"
        /\ \A i \in 1 .. Len(q) : i < Len(q) => r[i] = q[i]
    BY <1>2 DEF Swapped, Fr
  <2>2. Detaching(r)
    BY <1>1, <2>1 DEF Detaching
  <2>3. CASE Len(q) = 1
    BY <1>1, <2>1, <2>2, <2>3 DEF MsgrStack
  <2>4. CASE Len(q) = 2
    BY <1>1, <2>1, <2>2, <2>4 DEF MsgrStack
  <2>5. CASE Len(q) = 5
    BY <1>1, <2>1, <2>2, <2>5 DEF MsgrStack
  <2> QED
    BY <1>1, <2>3, <2>4, <2>5
<1>3. CASE Split(q, r, Fr("detach"), Fr("release"))
  <2>1. /\ Len(r) = Len(q) + 1 /\ r[Len(q)].at = "detach" /\ r[Len(q) + 1].at = "release"
        /\ \A i \in 1 .. Len(q) : i < Len(q) => r[i] = q[i]
    BY <1>3 DEF Split, Fr
  <2>2. Detaching(r)
    BY <1>1, <2>1 DEF Detaching
  <2>3. CASE Len(q) = 1
    BY <1>1, <2>1, <2>2, <2>3 DEF MsgrStack
  <2>4. CASE Len(q) = 2
    BY <1>1, <2>1, <2>2, <2>4 DEF MsgrStack
  <2>5. CASE Len(q) = 5
    BY <1>1, <2>1, <2>2, <2>5 DEF MsgrStack
  <2> QED
    BY <1>1, <2>3, <2>4, <2>5
<1> QED
  BY <1>2, <1>3

LEMMA MsgrUndoes ==
  ASSUME NEW q \in Seq(Frame), NEW r, MsgrStack(q), Popped(q, r),
         q[Len(q)].at \in {"release", "detach"}
  PROVE  MsgrStack(r) /\ ~Live(q) /\ (q[Len(q)].at = "release" => Detaching(r))
<1>1. Len(q) > 0 /\ Len(q) \in Nat /\ Len(q) \in 1 .. 6 /\ ~Live(q)
      /\ Len(r) = Len(q) - 1 /\ \A i \in 1 .. Len(q) : i < Len(q) => r[i] = q[i]
  BY DEF Popped, Live, Quiet, MsgrStack
<1>2. CASE Len(q) = 1
  BY <1>1, <1>2 DEF MsgrStack, Detaching
<1>3. CASE Len(q) = 2
  BY <1>1, <1>3 DEF MsgrStack, Detaching, Sending
<1>4. CASE Len(q) = 3
  BY <1>1, <1>4 DEF MsgrStack, Detaching
<1>5. CASE Len(q) = 4
  BY <1>1, <1>5 DEF MsgrStack, Detaching
<1>6. CASE Len(q) = 5
  BY <1>1, <1>6 DEF MsgrStack, Detaching, Sending
<1>7. CASE Len(q) = 6
  BY <1>1, <1>7 DEF MsgrStack, Detaching
<1> QED
  BY <1>1, <1>2, <1>3, <1>4, <1>5, <1>6, <1>7

-----------------------------------------------------------------------------
(* What leaves the parts of the invariant alone.                            *)

LEMMA LinkedKept ==
  ASSUME Linked, UNCHANGED <<attached, sock, inbox, wire, stopped, evals>>,
         Up /\ Live(Msgr) => Live(Msgr)',
         Up /\ Has(inbox, "connect") /\ Len(Msgr) = 1 => Len(Msgr') = 1,
         Up /\ Linking(Msgr) => Linking(Msgr)',
         Up /\ Quiet(Lua) => Quiet(Lua)'
  PROVE  Linked'
BY DEF Linked, Joined, Up

LEMMA StopsKept ==
  ASSUME Stops, UNCHANGED <<attached, sock, inbox, wire, stopped>>, Resting => Resting'
  PROVE  Stops'
BY DEF Stops, Up

\* While nobody is received from the Lua thread need not rest.
LEMMA StopsUnlinked ==
  ASSUME Linked, Stops, UNCHANGED <<attached, sock, inbox, wire, stopped>>, ~Up
  PROVE  Stops'
<1>1. attached /\ (stopped \/ Has(wire, "stop")) => FALSE
  BY DEF Linked, Up, Has
<1> QED
  BY <1>1 DEF Stops, Up, Has, HasLet

LEMMA UpdatesKept ==
  ASSUME Updates, UNCHANGED <<attached, wanted, sock, inbox, pending, breakpoints>>,
         Linking(Msgr)' => Linking(Msgr)
  PROVE  Updates'
BY DEF Updates, Joined, Up

\* The breakpoints are not those of the frontend before it has connected.
LEMMA UpdatesUnjoined ==
  ASSUME Updates, UNCHANGED <<attached, wanted, inbox>>, ~Joined
  PROVE  Updates'
BY DEF Updates

LEMMA AccountedKept ==
  ASSUME TypeOK, EvalsAccounted, UNCHANGED <<attached, inbox, wire, pending, evals>>, Stacks',
         attached /\ evals # {} => Keeps(Lua, Lua')
  PROVE  EvalsAccounted'
<1> SUFFICES ASSUME attached, NEW e \in evals PROVE InFlight(e)'
  BY DEF EvalsAccounted
<1>1. InFlight(e) /\ Keeps(Lua, Lua')
  BY DEF EvalsAccounted
<1>2. DOMAIN Lua = 1 .. Len(Lua) /\ DOMAIN Lua' = 1 .. Len(Lua')
  BY DEF TypeOK, Stacks, Lua, Threads
<1>3. CASE \E i \in DOMAIN stack["lua"] : LET m == stack["lua"][i].msg IN
             m.kind \in {"eval", "answer"} /\ m.re = e
  <2>1. Holds(Lua, e)
    BY <1>2, <1>3 DEF Holds, Lua
  <2>2. Holds(Lua', e)
    BY <1>1, <2>1 DEF Keeps
  <2> QED
    BY <1>2, <2>2 DEF Holds, Lua, InFlight
<1>4. CASE ~\E i \in DOMAIN stack["lua"] : LET m == stack["lua"][i].msg IN
             m.kind \in {"eval", "answer"} /\ m.re = e
  BY <1>1, <1>4 DEF InFlight
<1> QED
  BY <1>3, <1>4

\* A step of "lua" that changes its stack alone.
LEMMA LuaStep ==
  ASSUME IInv, TypeOK', Msgr' = Msgr, Moves(Lua, Lua'),
         attached /\ evals # {} => Keeps(Lua, Lua'),
         UNCHANGED <<sock, inbox, wire, breakpoints, pending, paused, request,
                     attached, stopped, evals, wanted>>
  PROVE  IInv'
<1>1. Linked'
  BY LinkedKept DEF IInv, Moves
<1>2. Stops'
  BY StopsKept DEF IInv, Moves, Resting
<1>3. Updates'
  BY UpdatesKept DEF IInv
<1>4. EvalsAccounted'
  BY AccountedKept DEF IInv, TypeOK, Stacks
<1>5. Announces' /\ Queued' /\ LuaStack(Lua)' /\ MsgrStack(Msgr)'
  BY DEF IInv, Announces, Queued, Moves, Has
<1> QED
  BY <1>1, <1>2, <1>3, <1>4, <1>5 DEF IInv

\* A step of "msgr" that changes its stack alone.
LEMMA MsgrStep ==
  ASSUME IInv, TypeOK', Lua' = Lua, Handles(Msgr, Msgr'),
         Len(Msgr) # 1,
         UNCHANGED <<sock, inbox, wire, breakpoints, pending, paused, request,
                     attached, stopped, evals, wanted>>
  PROVE  IInv'
<1>1. Linked'
  BY LinkedKept DEF IInv, Handles
<1>2. Stops'
  BY StopsKept DEF IInv, Resting
<1>3. Updates'
  BY UpdatesKept DEF IInv, Handles
<1>4. EvalsAccounted'
  BY AccountedKept DEF IInv, TypeOK, Stacks, Keeps
<1>5. Announces' /\ Queued' /\ LuaStack(Lua)' /\ MsgrStack(Msgr)'
  BY DEF IInv, Announces, Queued, Handles, Has
<1> QED
  BY <1>1, <1>2, <1>3, <1>4, <1>5 DEF IInv

-----------------------------------------------------------------------------
(* A frame l on top of "lua", and what the step does to its stack.          *)

LEMMA LuaAt ==
  ASSUME TypeOK, NEW l, At("lua", l)
  PROVE  /\ Lua \in Seq(Frame) /\ Lua # <<>> /\ Len(Lua) \in Nat /\ Len(Lua) > 0
         /\ Top("lua") = Lua[Len(Lua)] /\ Top("lua") \in Frame /\ Lua[Len(Lua)].at = l
<1>1. Stacks /\ "lua" \in Threads
  BY DEF TypeOK, Stacks, Threads
<1> QED
  BY <1>1, OnTop DEF Lua, At

LEMMA LuaReturns ==
  ASSUME TypeOK, NEW l, At("lua", l), Return("lua")
  PROVE  Stacks' /\ Popped(Lua, Lua') /\ Msgr' = Msgr
<1>1. Stacks /\ "lua" \in Threads /\ "msgr" \in Threads \ {"lua"} /\ stack["lua"] # <<>>
  BY DEF TypeOK, Stacks, Threads, At
<1> QED
  BY <1>1, Returns DEF Lua, Msgr

LEMMA LuaBecomes ==
  ASSUME TypeOK, NEW l, At("lua", l), NEW f \in Frame, Becomes("lua", <<f>>)
  PROVE  Stacks' /\ Swapped(Lua, Lua', f) /\ Msgr' = Msgr
<1>1. Stacks /\ "lua" \in Threads /\ "msgr" \in Threads \ {"lua"} /\ stack["lua"] # <<>>
  BY DEF TypeOK, Stacks, Threads, At
<1> QED
  BY <1>1, BecomesOne DEF Lua, Msgr

LEMMA LuaCalls ==
  ASSUME TypeOK, NEW f \in Frame, Calls("lua", <<f>>)
  PROVE  Stacks' /\ Pushed(Lua, Lua', f) /\ Msgr' = Msgr
<1>1. Stacks /\ "lua" \in Threads /\ "msgr" \in Threads \ {"lua"}
  BY DEF TypeOK, Stacks, Threads
<1> QED
  BY <1>1, CallsOne DEF Lua, Msgr

-----------------------------------------------------------------------------
(* The actions of "lua".                                                    *)

LEMMA StartScriptKeeps == ASSUME IInv, StartScript PROVE IInv'
<1> DEFINE f == Fr("script")
<1>1. f \in Frame /\ f.at = "script" /\ Lua = <<>> /\ Lua \in Seq(Frame)
  BY Labels DEF StartScript, Lua
<1>2. Stacks' /\ Pushed(Lua, Lua', f) /\ Msgr' = Msgr
  BY <1>1, LuaCalls DEF StartScript, IInv
<1> HIDE DEF f
<1>3. TypeOK'
  BY <1>2 DEF StartScript, IInv, TypeOK, Stacks, link, script, halt, frontend
<1>4. Moves(Lua, Lua') /\ Keeps(Lua, Lua')
  BY <1>1, <1>2, LuaPush DEF IInv
<1> QED
  BY <1>2, <1>3, <1>4, LuaStep DEF StartScript, link, script, halt, frontend

LEMMA EndScriptKeeps == ASSUME IInv, EndScript PROVE IInv'
<1>1. Lua \in Seq(Frame) /\ Len(Lua) > 0 /\ Lua[Len(Lua)].at = "script" /\ Lua[Len(Lua)] \in Frame
  BY LuaAt DEF EndScript, IInv
<1>2. Stacks' /\ Popped(Lua, Lua') /\ Msgr' = Msgr
  BY LuaReturns DEF EndScript, IInv
<1>3. TypeOK'
  BY <1>2 DEF EndScript, IInv, TypeOK, Stacks, link, script, halt, frontend
<1>4. Len(Lua) = 1 /\ Lua[Len(Lua)].msg.kind = "none"
  BY <1>1, LuaTop, NoMessage DEF IInv
<1>5. Moves(Lua, Lua') /\ Keeps(Lua, Lua')
  BY <1>1, <1>2, <1>4, LuaPop DEF IInv
<1> QED
  BY <1>2, <1>3, <1>5, LuaStep DEF EndScript, link, script, halt, frontend

LEMMA OnLuaHookKeeps == ASSUME IInv, OnLuaHook PROVE IInv'
<1> DEFINE f == Fr("hook")
<1>1. /\ f \in Frame /\ f.at = "hook"
      /\ Lua \in Seq(Frame) /\ Len(Lua) > 0 /\ Lua[Len(Lua)].at = "script"
  BY Labels, LuaAt DEF OnLuaHook, IInv
<1>2. Stacks' /\ Pushed(Lua, Lua', f) /\ Msgr' = Msgr
  BY <1>1, LuaCalls DEF OnLuaHook, IInv
<1> HIDE DEF f
<1>3. TypeOK'
  <2>1. pos' \in [line : Lines \cup {0}, depth : 0 .. MaxDepth]
    BY LuaDebuggerAssumption DEF OnLuaHook
  <2> QED
    BY <1>2, <2>1 DEF OnLuaHook, IInv, TypeOK, Stacks, link, halt, frontend
<1>4. Len(Lua) = 1
  BY <1>1, LuaTop DEF IInv
<1>5. Moves(Lua, Lua') /\ Keeps(Lua, Lua')
  BY <1>1, <1>2, <1>4, LuaPush DEF IInv
<1> QED
  BY <1>2, <1>3, <1>5, LuaStep DEF OnLuaHook, link, halt, frontend

LEMMA BreakKeeps == ASSUME IInv, NEW cause, Break(cause) PROVE IInv'
<1> DEFINE f == Fr("pause")
<1>1. /\ f \in Frame /\ f.at = "pause"
      /\ Lua \in Seq(Frame) /\ Len(Lua) > 0 /\ Lua[Len(Lua)].at = "script"
  BY Labels, LuaAt DEF Break, IInv
<1>2. Stacks' /\ Pushed(Lua, Lua', f) /\ Msgr' = Msgr
  BY <1>1, LuaCalls DEF Break, IInv
<1> HIDE DEF f
<1>3. TypeOK'
  <2>1. pos' \in [line : Lines \cup {0}, depth : 0 .. MaxDepth]
    BY LuaDebuggerAssumption DEF Break
  <2> QED
    BY <1>2, <2>1 DEF Break, IInv, TypeOK, Stacks, link, halt, frontend
<1>4. Len(Lua) = 1
  BY <1>1, LuaTop DEF IInv
<1>5. Moves(Lua, Lua') /\ Keeps(Lua, Lua')
  BY <1>1, <1>2, <1>4, LuaPush DEF IInv
<1> QED
  BY <1>2, <1>3, <1>5, LuaStep DEF Break, link, halt, frontend

LEMMA EndHookKeeps == ASSUME IInv, EndHook PROVE IInv'
<1> DEFINE f == Fr("look")
<1>1. /\ f \in Frame /\ f.at = "look"
      /\ Lua \in Seq(Frame) /\ Len(Lua) > 0 /\ Lua[Len(Lua)].at = "hook"
  BY Labels, LuaAt DEF EndHook, IInv
<1>2. Stacks' /\ Swapped(Lua, Lua', f) /\ Msgr' = Msgr
  BY <1>1, LuaBecomes DEF EndHook, IInv
<1> HIDE DEF f
<1>3. TypeOK'
  BY <1>2 DEF EndHook, IInv, TypeOK, Stacks, link, script, halt, frontend
<1>4. Len(Lua) = 2
  BY <1>1, LuaTop DEF IInv
<1>5. Moves(Lua, Lua') /\ Keeps(Lua, Lua')
  BY <1>1, <1>2, <1>4, LuaSwap DEF IInv
<1> QED
  BY <1>2, <1>3, <1>5, LuaStep DEF EndHook, link, script, halt, frontend

LEMMA LockKeeps == ASSUME IInv, Lock PROVE IInv'
<1> DEFINE f == Fr("wait")
<1>1. /\ f \in Frame /\ f.at = "wait"
      /\ Lua \in Seq(Frame) /\ Len(Lua) > 0 /\ Lua[Len(Lua)].at = "lock"
  BY Labels, LuaAt DEF Lock, IInv
<1>2. Stacks' /\ Swapped(Lua, Lua', f) /\ Msgr' = Msgr
  BY <1>1, LuaBecomes DEF Lock, IInv
<1> HIDE DEF f
<1>3. TypeOK'
  BY <1>2 DEF Lock, IInv, TypeOK, Stacks, link, script, halt, frontend
<1>4. Len(Lua) = 2
  BY <1>1, LuaTop DEF IInv
<1>5. Moves(Lua, Lua') /\ Keeps(Lua, Lua')
  BY <1>1, <1>2, <1>4, LuaSwap DEF IInv
<1> QED
  BY <1>2, <1>3, <1>5, LuaStep DEF Lock, link, script, halt, frontend

LEMMA BlockKeeps == ASSUME IInv, Block PROVE IInv'
<1> DEFINE f == Fr("asleep")
<1>1. /\ f \in Frame /\ f.at = "asleep"
      /\ Lua \in Seq(Frame) /\ Len(Lua) > 0 /\ Lua[Len(Lua)].at = "block"
  BY Labels, LuaAt DEF Block, IInv
<1>2. Stacks' /\ Swapped(Lua, Lua', f) /\ Msgr' = Msgr
  BY <1>1, LuaBecomes DEF Block, IInv
<1> HIDE DEF f
<1>3. TypeOK'
  BY <1>2 DEF Block, IInv, TypeOK, Stacks, link, script, halt, frontend
<1>4. Len(Lua) = 2
  BY <1>1, LuaTop DEF IInv
<1>5. Moves(Lua, Lua') /\ Keeps(Lua, Lua')
  BY <1>1, <1>2, <1>4, LuaSwap DEF IInv
<1> QED
  BY <1>2, <1>3, <1>5, LuaStep DEF Block, link, script, halt, frontend

LEMMA SpuriousWakeupKeeps == ASSUME IInv, SpuriousWakeup PROVE IInv'
<1> DEFINE f == Fr("wait")
<1>1. /\ f \in Frame /\ f.at = "wait"
      /\ Lua \in Seq(Frame) /\ Len(Lua) > 0 /\ Lua[Len(Lua)].at = "asleep"
  BY Labels, LuaAt DEF SpuriousWakeup, IInv
<1>2. Stacks' /\ Swapped(Lua, Lua', f) /\ Msgr' = Msgr
  BY <1>1, LuaBecomes DEF SpuriousWakeup, IInv
<1> HIDE DEF f
<1>3. TypeOK'
  BY <1>2 DEF SpuriousWakeup, IInv, TypeOK, Stacks, link, script, halt, frontend
<1>4. Len(Lua) = 2
  BY <1>1, LuaTop DEF IInv
<1>5. Moves(Lua, Lua') /\ Keeps(Lua, Lua')
  BY <1>1, <1>2, <1>4, LuaSwap DEF IInv
<1> QED
  BY <1>2, <1>3, <1>5, LuaStep DEF SpuriousWakeup, link, script, halt, frontend

LEMMA LookKeeps == ASSUME IInv, Look PROVE IInv'
<1> DEFINE f == Fr("pause")
<1>1. /\ f \in Frame /\ f.at = "pause" /\ Lua[Len(Lua)] \in Frame
      /\ Lua \in Seq(Frame) /\ Len(Lua) > 0 /\ Lua[Len(Lua)].at = "look"
  BY Labels, LuaAt DEF Look, IInv
<1>2. /\ Stacks' /\ Msgr' = Msgr
      /\ Swapped(Lua, Lua', f) \/ Popped(Lua, Lua')
  BY <1>1, LuaBecomes, LuaReturns DEF Look, IInv
<1> HIDE DEF f
<1>3. TypeOK'
  BY <1>2 DEF Look, IInv, TypeOK, Stacks, link, script, halt, frontend
<1>4. Len(Lua) = 2 /\ Lua[Len(Lua)].msg.kind = "none"
  BY <1>1, LuaTop, NoMessage DEF IInv
<1>5. Moves(Lua, Lua') /\ Keeps(Lua, Lua')
  BY <1>1, <1>2, <1>4, LuaSwap, LuaPop DEF IInv
<1> QED
  BY <1>2, <1>3, <1>5, LuaStep DEF Look, link, script, halt, frontend

\* The answer to an evaluation.
LEMMA EvaluateKeeps == ASSUME IInv, Evaluate PROVE IInv'
<1> DEFINE f == Stamped("answer", Top("lua").msg.re)
<1>1. /\ Lua \in Seq(Frame) /\ Len(Lua) > 0 /\ Lua[Len(Lua)].at = "eval"
      /\ Top("lua") = Lua[Len(Lua)] /\ Top("lua") \in Frame /\ Lua # <<>>
  BY LuaAt DEF Evaluate, IInv
<1>2. Len(Lua) = 3 /\ Lua[3].msg.kind = "eval"
  BY <1>1, LuaTop DEF IInv
<1>3. Top("lua").msg.re \in 0 .. MaxRequests
  BY <1>1, <1>2 DEF Frame, Action, NoMsg
<1>4. /\ f \in Frame /\ f.at = "stamp" /\ f.msg.kind = "answer" /\ f.msg.re = Lua[3].msg.re
  BY <1>1, <1>2, <1>3, Labels
<1>5. Fr("pause") \in Frame /\ Fr("pause").at = "pause"
  BY Labels
<1>6. Becomes("lua", <<f>>) \/ Becomes("lua", <<f, Fr("pause")>>)
  BY DEF Evaluate
<1> HIDE DEF f
<1>7. /\ Stacks' /\ Msgr' = Msgr
      /\ Swapped(Lua, Lua', f) \/ Split(Lua, Lua', f, Fr("pause"))
  <2>1. Stacks /\ "lua" \in Threads /\ "msgr" \in Threads \ {"lua"}
    BY DEF IInv, TypeOK, Stacks, Threads
  <2> QED
    BY <1>1, <1>4, <1>5, <1>6, <2>1, BecomesOne, BecomesTwo DEF Lua, Msgr
<1>8. TypeOK'
  BY <1>7 DEF Evaluate, IInv, TypeOK, Stacks, link, script, halt, frontend
<1>9. Moves(Lua, Lua') /\ Keeps(Lua, Lua')
  <2>1. CASE Swapped(Lua, Lua', f)
    BY <1>1, <1>2, <1>4, <2>1, LuaSwap DEF IInv, Awaiting
  <2>2. CASE Split(Lua, Lua', f, Fr("pause"))
    BY <1>1, <1>2, <1>4, <1>5, <2>2, LuaSplit DEF IInv, Awaiting
  <2> QED
    BY <1>7, <2>1, <2>2
<1> QED
  BY <1>7, <1>8, <1>9, LuaStep DEF Evaluate, link, script, halt, frontend

-----------------------------------------------------------------------------
(* Messages that arrive and are taken.                                      *)

LEMMA TailOf ==
  ASSUME NEW S, NEW s \in Seq(S), s # <<>>
  PROVE  /\ Tail(s) \in Seq(S) /\ Head(s) \in S /\ Head(s) = s[1]
         /\ Len(s) \in Nat /\ Len(s) > 0 /\ Len(Tail(s)) = Len(s) - 1
         /\ \A i \in 1 .. Len(Tail(s)) : i + 1 \in 1 .. Len(s) /\ Tail(s)[i] = s[i + 1]
         /\ \A i \in 1 .. Len(s) : i # 1 => i - 1 \in 1 .. Len(Tail(s)) /\ Tail(s)[i - 1] = s[i]
OBVIOUS

LEMMA AppendOf ==
  ASSUME NEW S, NEW s \in Seq(S), NEW m \in S
  PROVE  /\ Append(s, m) \in Seq(S) /\ Len(s) \in Nat /\ Len(Append(s, m)) = Len(s) + 1
         /\ Append(s, m)[Len(s) + 1] = m
         /\ \A i \in 1 .. Len(s) : Append(s, m)[i] = s[i]
OBVIOUS

\* A message e of some kind is in s.
Carries(s, kind, e) == \E i \in 1 .. Len(s) : s[i].kind = kind /\ s[i].re = e

LEMMA HasTail ==
  ASSUME NEW S, NEW s \in Seq(S), s # <<>>
  PROVE  /\ \A k : Has(Tail(s), k) => Has(s, k)
         /\ \A k : Has(s, k) => Head(s).kind = k \/ Has(Tail(s), k)
         /\ HasLet(Tail(s)) => HasLet(s)
         /\ \A k, e : Carries(s, k, e) =>
              (Head(s).kind = k /\ Head(s).re = e) \/ Carries(Tail(s), k, e)
         /\ Has(s, Head(s).kind)
         /\ Lets(Head(s)) => HasLet(s)
<1> DEFINE u == Tail(s)
<1>1. /\ Head(s) = s[1] /\ Len(s) \in Nat /\ Len(s) > 0 /\ Len(u) = Len(s) - 1
      /\ \A i \in 1 .. Len(u) : i + 1 \in 1 .. Len(s) /\ u[i] = s[i + 1]
      /\ \A i \in 1 .. Len(s) : i # 1 => i - 1 \in 1 .. Len(u) /\ u[i - 1] = s[i]
  BY TailOf
<1> HIDE DEF u
<1>2. \A k : Has(u, k) => Has(s, k)
  BY <1>1 DEF Has
<1>3. \A k : Has(s, k) => Head(s).kind = k \/ Has(u, k)
  BY <1>1 DEF Has
<1>4. HasLet(u) => HasLet(s)
  BY <1>1 DEF HasLet
<1>5. \A k, e : Carries(s, k, e) => (Head(s).kind = k /\ Head(s).re = e) \/ Carries(u, k, e)
  BY <1>1 DEF Carries
<1>6. Has(s, Head(s).kind) /\ (Lets(Head(s)) => HasLet(s))
  BY <1>1 DEF Has, HasLet
<1> QED
  BY <1>2, <1>3, <1>4, <1>5, <1>6 DEF u

LEMMA HasAppend ==
  ASSUME NEW S, NEW s \in Seq(S), NEW m \in S
  PROVE  /\ \A k : Has(Append(s, m), k) <=> Has(s, k) \/ m.kind = k
         /\ HasLet(Append(s, m)) <=> HasLet(s) \/ Lets(m)
         /\ \A k, e : Carries(Append(s, m), k, e)
                        <=> Carries(s, k, e) \/ (m.kind = k /\ m.re = e)
<1> DEFINE u == Append(s, m)
<1>1. /\ Len(s) \in Nat /\ Len(u) = Len(s) + 1 /\ u[Len(s) + 1] = m
      /\ \A i \in 1 .. Len(s) : u[i] = s[i]
  BY AppendOf
<1> HIDE DEF u
<1>2. \A i \in 1 .. Len(u) : i \in 1 .. Len(s) \/ i = Len(s) + 1
  BY <1>1
<1>3. 1 .. Len(s) \subseteq 1 .. Len(u) /\ Len(s) + 1 \in 1 .. Len(u)
  BY <1>1
<1>4. \A k : Has(u, k) <=> Has(s, k) \/ m.kind = k
  BY <1>1, <1>2, <1>3 DEF Has
<1>5. HasLet(u) <=> HasLet(s) \/ Lets(m)
  BY <1>1, <1>2, <1>3 DEF HasLet
<1>6. \A k, e : Carries(u, k, e) <=> Carries(s, k, e) \/ (m.kind = k /\ m.re = e)
  BY <1>1, <1>2, <1>3 DEF Carries
<1> QED
  BY <1>4, <1>5, <1>6 DEF u

LEMMA LatestTail ==
  ASSUME NEW S, NEW s \in Seq(S), s # <<>>, NEW ls, Latest(s, ls)
  PROVE  \/ Latest(Tail(s), ls)
         \/ Head(s).kind = "breakpoints" /\ Head(s).lines = ls /\ ~Has(Tail(s), "breakpoints")
<1> DEFINE u == Tail(s)
<1>1. /\ Head(s) = s[1] /\ Len(s) \in Nat /\ Len(s) > 0 /\ Len(u) = Len(s) - 1
      /\ \A i \in 1 .. Len(u) : i + 1 \in 1 .. Len(s) /\ u[i] = s[i + 1]
      /\ \A i \in 1 .. Len(s) : i # 1 => i - 1 \in 1 .. Len(u) /\ u[i - 1] = s[i]
  BY TailOf
<1> HIDE DEF u
<1>2. PICK i \in 1 .. Len(s) :
         /\ s[i].kind = "breakpoints" /\ s[i].lines = ls
         /\ \A j \in 1 .. Len(s) : i < j => s[j].kind # "breakpoints"
  BY DEF Latest
<1>3. CASE i = 1
  <2>1. \A j \in 1 .. Len(u) : u[j].kind # "breakpoints"
    BY <1>1, <1>2, <1>3
  <2> QED
    BY <1>1, <1>2, <1>3, <2>1 DEF Has, u
<1>4. CASE i # 1
  <2>1. i - 1 \in 1 .. Len(u) /\ u[i - 1].kind = "breakpoints" /\ u[i - 1].lines = ls
    BY <1>1, <1>2, <1>4
  <2>2. \A j \in 1 .. Len(u) : i - 1 < j => u[j].kind # "breakpoints"
    BY <1>1, <1>2, <1>4
  <2>3. Latest(u, ls)
    BY <2>1, <2>2 DEF Latest
  <2> QED
    BY <2>3 DEF u
<1> QED
  BY <1>3, <1>4

LEMMA LatestAppend ==
  ASSUME NEW S, NEW s \in Seq(S), NEW m \in S, NEW ls
  PROVE  /\ m.kind = "breakpoints" /\ m.lines = ls => Latest(Append(s, m), ls)
         /\ m.kind # "breakpoints" /\ Latest(s, ls) => Latest(Append(s, m), ls)
<1> DEFINE u == Append(s, m)
<1>1. /\ Len(s) \in Nat /\ Len(u) = Len(s) + 1 /\ u[Len(s) + 1] = m
      /\ \A i \in 1 .. Len(s) : u[i] = s[i]
  BY AppendOf
<1> HIDE DEF u
<1>2. \A i \in 1 .. Len(u) : i \in 1 .. Len(s) \/ i = Len(s) + 1
  BY <1>1
<1>3. 1 .. Len(s) \subseteq 1 .. Len(u) /\ Len(s) + 1 \in 1 .. Len(u)
  BY <1>1
<1>4. m.kind = "breakpoints" /\ m.lines = ls => Latest(u, ls)
  BY <1>1, <1>2, <1>3 DEF Latest
<1>5. m.kind # "breakpoints" /\ Latest(s, ls) => Latest(u, ls)
  BY <1>1, <1>2, <1>3 DEF Latest
<1> QED
  BY <1>4, <1>5 DEF u

LEMMA LatestHas ==
  ASSUME NEW s, NEW ls, Latest(s, ls)
  PROVE  Has(s, "breakpoints")
BY DEF Latest, Has

\* The requests in flight.
InFlightNow(e) ==
  Carries(inbox, "eval", e) \/ Carries(pending, "eval", e) \/ Holds(Lua, e)
    \/ Carries(wire, "answer", e)

LEMMA InFlightIs == TypeOK => \A e : InFlight(e) <=> InFlightNow(e)
<1> SUFFICES ASSUME TypeOK, NEW e PROVE InFlight(e) <=> InFlightNow(e)
  OBVIOUS
<1>1. /\ DOMAIN inbox = 1 .. Len(inbox) /\ DOMAIN pending = 1 .. Len(pending)
      /\ DOMAIN wire = 1 .. Len(wire) /\ DOMAIN Lua = 1 .. Len(Lua)
  BY DEF TypeOK, Lua, Threads
<1> QED
  BY <1>1 DEF InFlight, InFlightNow, Carries, Holds, Lua

LEMMA AccountedBy ==
  ASSUME TypeOK, TypeOK', EvalsAccounted,
         attached' => \A e \in evals' :
           e \in evals /\ attached /\ (InFlightNow(e) => InFlightNow(e)')
  PROVE  EvalsAccounted'
<1>1. \A e : InFlight(e) <=> InFlightNow(e)
  BY InFlightIs
<1>2. (TypeOK => \A e : InFlight(e) <=> InFlightNow(e))'
  BY InFlightIs, PTL
<1> QED
  BY <1>1, <1>2 DEF EvalsAccounted

\* The orders of messages, as they arrive and are taken.
LEMMA OrderTail ==
  ASSUME NEW S, NEW s \in Seq(S), s # <<>>
  PROVE  /\ ConnectFirst(s) => ~Has(Tail(s), "connect") /\ ConnectFirst(Tail(s))
         /\ LetsLast(s) => /\ LetsLast(Tail(s))
                           /\ Lets(Head(s)) => ~HasLet(Tail(s)) /\ ~Has(Tail(s), "eval")
         /\ OneStop(s) => /\ OneStop(Tail(s))
                          /\ Head(s).kind = "stop" => ~Has(Tail(s), "stop")
<1> DEFINE u == Tail(s)
<1>1. /\ Head(s) = s[1] /\ Len(s) \in Nat /\ Len(s) > 0 /\ Len(u) = Len(s) - 1
      /\ \A i \in 1 .. Len(u) : i + 1 \in 1 .. Len(s) /\ u[i] = s[i + 1]
  BY TailOf
<1> HIDE DEF u
<1>2. ConnectFirst(s) => ~Has(u, "connect") /\ ConnectFirst(u)
  BY <1>1 DEF ConnectFirst, Has
<1>3. LetsLast(s) => LetsLast(u)
  BY <1>1 DEF LetsLast
<1>4. LetsLast(s) /\ Lets(Head(s)) => ~HasLet(u) /\ ~Has(u, "eval")
  BY <1>1 DEF LetsLast, HasLet, Has
<1>5. OneStop(s) => OneStop(u)
  BY <1>1 DEF OneStop
<1>6. OneStop(s) /\ Head(s).kind = "stop" => ~Has(u, "stop")
  BY <1>1 DEF OneStop, Has
<1> QED
  BY <1>2, <1>3, <1>4, <1>5, <1>6 DEF u

LEMMA OrderAppend ==
  ASSUME NEW S, NEW s \in Seq(S), NEW m \in S
  PROVE  /\ ConnectFirst(s) /\ m.kind # "connect" => ConnectFirst(Append(s, m))
         /\ LetsLast(s) /\ (HasLet(s) => ~Lets(m) /\ m.kind # "eval") => LetsLast(Append(s, m))
         /\ OneStop(s) /\ (m.kind = "stop" => ~Has(s, "stop")) => OneStop(Append(s, m))
<1> DEFINE u == Append(s, m)
<1>1. /\ Len(s) \in Nat /\ Len(u) = Len(s) + 1 /\ u[Len(s) + 1] = m
      /\ \A i \in 1 .. Len(s) : u[i] = s[i]
  BY AppendOf
<1> HIDE DEF u
<1>2. \A i \in 1 .. Len(u) : i \in 1 .. Len(s) \/ i = Len(s) + 1
  BY <1>1
<1>4. ConnectFirst(s) /\ m.kind # "connect" => ConnectFirst(u)
  BY <1>1, <1>2 DEF ConnectFirst
<1>5. LetsLast(s) /\ (HasLet(s) => ~Lets(m) /\ m.kind # "eval") => LetsLast(u)
  BY <1>1, <1>2 DEF LetsLast, HasLet
<1>6. OneStop(s) /\ (m.kind = "stop" => ~Has(s, "stop")) => OneStop(u)
  BY <1>1, <1>2 DEF OneStop, Has
<1> QED
  BY <1>4, <1>5, <1>6 DEF u

-----------------------------------------------------------------------------
(* The actions of "lua" that change more than its stack.                    *)

LEMMA PauseKeeps == ASSUME IInv, Pause PROVE IInv'
<1> DEFINE f == Fr("lock")
           g == Stamped("stop", 0)
           h == Fr("clear")
<1>1. /\ Lua \in Seq(Frame) /\ Lua # <<>> /\ Len(Lua) > 0 /\ Lua[Len(Lua)].at = "pause"
      /\ Stacks /\ "lua" \in Threads /\ "msgr" \in Threads \ {"lua"}
  BY LuaAt DEF Pause, IInv, TypeOK, Stacks, Threads
<1>2. f \in Frame /\ g \in Frame /\ h \in Frame
  BY Labels, LuaDebuggerAssumption
<1>3. Len(Lua) = 2 /\ Lua[2].at = "pause"
  <2>1. \A i \in 1 .. Len(Lua) : Lua[i].at # "wait"
    BY <1>1 DEF Pause, MutexFree, Lua
  <2> QED
    BY <1>1, <2>1, LuaTop DEF IInv
<1>4. Stacks' /\ Split3(Lua, Lua', f, g, h) /\ Msgr' = Msgr
  BY <1>1, <1>2, BecomesThree DEF Pause, Lua, Msgr
<1>5. TypeOK'
  BY <1>4 DEF Pause, IInv, TypeOK, Stacks, link, script, frontend
<1>6. /\ LuaStack(Lua)' /\ Keeps(Lua, Lua') /\ ~Waiting(Lua) /\ Holding(Lua')
      /\ Quiet(Lua) => Quiet(Lua')
  BY <1>1, <1>3, <1>4, LuaStops DEF IInv
<1>u. /\ UNCHANGED <<sock, inbox, wire, breakpoints, pending, request,
                     attached, stopped, evals, wanted>>
      /\ paused' = TRUE
  BY DEF Pause, link, script, frontend
<1>7. Linked'
  BY <1>4, <1>6, <1>u, LinkedKept DEF IInv
<1>8. Stops'
  BY <1>6, <1>u, StopsKept DEF IInv, Resting
<1>9. Updates'
  BY <1>4, <1>u, UpdatesKept DEF IInv
<1>10. EvalsAccounted'
  BY <1>4, <1>6, <1>u, AccountedKept DEF IInv
<1>11. Announces' /\ Queued' /\ MsgrStack(Msgr)'
  BY <1>4, <1>6, <1>u DEF IInv, Announces, Queued, Has
<1> QED
  BY <1>5, <1>6, <1>7, <1>8, <1>9, <1>10, <1>11 DEF IInv

LEMMA ClearKeeps == ASSUME IInv, Clear PROVE IInv'
<1>1. /\ Lua \in Seq(Frame) /\ Len(Lua) > 0 /\ Lua[Len(Lua)].at = "clear"
      /\ Lua[Len(Lua)] \in Frame
  BY LuaAt DEF Clear, IInv
<1>2. Stacks' /\ Popped(Lua, Lua') /\ Msgr' = Msgr
  BY LuaReturns DEF Clear, IInv
<1>3. Len(Lua) = 4 /\ Lua[Len(Lua)].msg.kind = "none"
  BY <1>1, LuaTop, NoMessage DEF IInv
<1>4. Moves(Lua, Lua') /\ Keeps(Lua, Lua')
  BY <1>1, <1>2, <1>3, LuaPop DEF IInv
<1>5. TypeOK'
  <2>1. maxDepth \in -1 .. AnyDepth /\ -1 \in -1 .. AnyDepth
    BY LuaDebuggerAssumption DEF IInv, TypeOK, AnyDepth
  <2>2. maxDepth' \in -1 .. AnyDepth
    BY <2>1 DEF Clear
  <2> QED
    BY <1>2, <2>2 DEF Clear, IInv, TypeOK, Stacks, link, script, frontend
<1>u. /\ UNCHANGED <<sock, inbox, wire, breakpoints, pending, paused,
                     attached, stopped, evals, wanted>>
      /\ request' = FALSE
  BY DEF Clear, link, script, frontend
<1>7. Linked'
  BY <1>2, <1>4, <1>u, LinkedKept DEF IInv, Moves
<1>8. Stops'
  BY <1>4, <1>u, StopsKept DEF IInv, Moves, Resting
<1>9. Updates'
  BY <1>2, <1>u, UpdatesKept DEF IInv
<1>10. EvalsAccounted'
  BY <1>2, <1>4, <1>u, AccountedKept DEF IInv
<1>11. Announces' /\ Queued' /\ LuaStack(Lua)' /\ MsgrStack(Msgr)'
  BY <1>2, <1>4, <1>u DEF IInv, Announces, Queued, Moves, Has
<1> QED
  BY <1>5, <1>7, <1>8, <1>9, <1>10, <1>11 DEF IInv

LEMMA DecideKeeps == ASSUME IInv, Decide PROVE IInv'
<1> DEFINE f == Fr("block")
<1>1. /\ f \in Frame /\ f.at = "block"
      /\ Lua \in Seq(Frame) /\ Len(Lua) > 0 /\ Lua[Len(Lua)].at = "wait"
  BY Labels, LuaAt DEF Decide, IInv
<1>2. Len(Lua) = 2 /\ Lua[2].at = "wait"
  BY <1>1, LuaTop DEF IInv
<1>u. UNCHANGED <<sock, inbox, wire, breakpoints, pending, paused, request,
                  attached, stopped, evals, wanted>>
  BY DEF Decide, link, script, halt, frontend
<1>3. CASE paused
  <2>1. Stacks' /\ Swapped(Lua, Lua', f) /\ Msgr' = Msgr
    BY <1>1, <1>3, LuaBecomes DEF Decide, IInv
  <2> HIDE DEF f
  <2>2. TypeOK'
    BY <2>1 DEF Decide, IInv, TypeOK, Stacks, link, script, halt, frontend
  <2>3. Moves(Lua, Lua') /\ Keeps(Lua, Lua')
    BY <1>1, <1>2, <2>1, LuaSwap DEF IInv
  <2> QED
    BY <1>u, <2>1, <2>2, <2>3, LuaStep
<1>4. CASE ~paused
  <2>1. Stacks' /\ Popped(Lua, Lua') /\ Msgr' = Msgr
    BY <1>4, LuaReturns DEF Decide, IInv
  <2>2. TypeOK'
    BY <2>1 DEF Decide, IInv, TypeOK, Stacks, link, script, halt, frontend
  <2>3. /\ LuaStack(Lua)' /\ Keeps(Lua, Lua') /\ ~Announced(Lua') /\ ~Clearing(Lua')
        /\ Quiet(Lua) => Quiet(Lua')
    BY <1>1, <1>2, <2>1, LuaLeaves DEF IInv
  <2>4. Linked'
    BY <1>u, <2>1, <2>3, LinkedKept DEF IInv
  <2>5. Stops'
    BY <1>u, <1>4, StopsKept DEF IInv, Resting
  <2>6. Updates'
    BY <1>u, <2>1, UpdatesKept DEF IInv
  <2>7. EvalsAccounted'
    BY <1>u, <2>1, <2>3, AccountedKept DEF IInv
  <2>8. ~Has(pending, "eval")
    BY DEF Decide, Has
  <2>9. Announces' /\ Queued' /\ MsgrStack(Msgr)'
    BY <1>u, <2>1, <2>3, <2>8 DEF IInv, Announces, Queued, Has
  <2> QED
    BY <2>2, <2>3, <2>4, <2>5, <2>6, <2>7, <2>9 DEF IInv
<1> QED
  BY <1>3, <1>4

LEMMA ExecuteQueuedActionKeeps == ASSUME IInv, ExecuteQueuedAction PROVE IInv'
<1> DEFINE a == Head(pending)
<1>1. /\ Lua \in Seq(Frame) /\ Len(Lua) = 2 /\ Lua[2].at \in {"hook", "wait"}
      /\ Lua # <<>>
  <2>1. CASE At("lua", "hook")
    BY <2>1, LuaAt, LuaTop DEF IInv
  <2>2. CASE At("lua", "wait")
    BY <2>2, LuaAt, LuaTop DEF IInv
  <2> QED
    BY <2>1, <2>2 DEF ExecuteQueuedAction
<1>2. /\ pending \in Seq(Action) /\ pending # <<>> /\ pending' = Tail(pending)
      /\ pending' \in Seq(Action) /\ a \in Action
  BY TailOf DEF ExecuteQueuedAction, IInv, TypeOK
<1>3. /\ \A k : Has(pending', k) => Has(pending, k)
      /\ \A k, e : Carries(pending, k, e) => (a.kind = k /\ a.re = e) \/ Carries(pending', k, e)
      /\ Has(pending, a.kind)
  BY <1>2, HasTail
<1>u. UNCHANGED <<sock, inbox, wire, paused, request, attached, stopped, evals, wanted>>
  BY DEF ExecuteQueuedAction, link, halt, frontend
<1> HIDE DEF a
<1>4. CASE a.kind = "breakpoints" /\ breakpoints' = a.lines /\ UNCHANGED stack
  <2>1. Lua' = Lua /\ Msgr' = Msgr
    BY <1>4 DEF Lua, Msgr
  <2>2. TypeOK'
    <3>1. a.lines \subseteq Lines
      BY <1>2, <1>4 DEF Action
    <3> QED
      BY <1>2, <1>4, <3>1 DEF ExecuteQueuedAction, IInv, TypeOK, link, halt, frontend
  <2>3. Linked'
    BY <1>u, <2>1, LinkedKept DEF IInv
  <2>4. Stops'
    BY <1>u, <2>1, StopsKept DEF IInv, Resting
  <2>5. Announces' /\ Queued' /\ LuaStack(Lua)' /\ MsgrStack(Msgr)'
    BY <1>3, <1>u, <2>1 DEF IInv, Announces, Queued
  <2>6. Updates'
    <3>1. \A ls : Latest(pending, ls) => Latest(pending', ls)
                    \/ (breakpoints' = ls /\ ~Has(pending', "breakpoints"))
      BY <1>2, <1>4, LatestTail DEF a
    <3>2. Has(pending, "breakpoints")
      BY <1>3, <1>4
    <3>3. (Joined => Joined') /\ \A ls : Latest(inbox, ls) => Latest(inbox, ls)'
      BY <1>u, <2>1 DEF Joined, Up, Has, Latest
    <3>4. ~Has(inbox, "breakpoints") => ~Has(inbox', "breakpoints")
      BY <1>u
    <3> QED
      BY <1>u, <3>1, <3>2, <3>3, <3>4 DEF Updates, IInv
  <2>7. EvalsAccounted'
    <3>1. \A e : InFlightNow(e) => InFlightNow(e)'
      BY <1>3, <1>4, <1>u, <2>1 DEF InFlightNow
    <3> QED
      BY <1>u, <2>2, <3>1, AccountedBy DEF IInv
  <2> QED
    BY <2>2, <2>3, <2>4, <2>5, <2>6, <2>7 DEF IInv
<1>5. CASE /\ a.kind = "eval" /\ Calls("lua", <<[at |-> "eval", msg |-> a]>>)
           /\ UNCHANGED breakpoints
  <2> DEFINE f == [at |-> "eval", msg |-> a]
  <2>0. f \in Frame /\ f.at = "eval" /\ f.msg = a
    BY <1>2, Labels
  <2>1. Stacks' /\ Pushed(Lua, Lua', f) /\ Msgr' = Msgr
    BY <1>5, <2>0, LuaCalls DEF IInv
  <2> HIDE DEF f
  <2>2. TypeOK'
    BY <1>2, <1>5, <2>1 DEF ExecuteQueuedAction, IInv, TypeOK, Stacks, link, halt, frontend
  <2>3. Lua[2].at = "wait"
    BY <1>1, <1>3, <1>5 DEF IInv, Queued, Holding
  <2>4. Moves(Lua, Lua') /\ Keeps(Lua, Lua') /\ Holds(Lua', a.re)
    BY <1>1, <1>5, <2>0, <2>1, <2>3, LuaPush DEF IInv
  <2>5. Linked'
    BY <1>u, <2>1, <2>4, LinkedKept DEF IInv, Moves
  <2>6. Stops'
    BY <1>u, <2>4, StopsKept DEF IInv, Moves, Resting
  <2>7. Announces' /\ Queued' /\ LuaStack(Lua)' /\ MsgrStack(Msgr)'
    BY <1>3, <1>u, <2>1, <2>4 DEF IInv, Announces, Queued, Moves
  <2>8. Updates'
    <3>1. \A ls : Latest(pending, ls) => Latest(pending', ls)
      BY <1>2, <1>5, LatestTail DEF a
    <3>2. Joined => Joined'
      BY <1>u, <2>1 DEF Joined, Up
    <3>3. \A ls : Latest(inbox, ls) => Latest(inbox, ls)'
      BY <1>u
    <3>4. ~Has(pending, "breakpoints") => ~Has(pending', "breakpoints")
      BY <1>3
    <3>5. ~Has(inbox, "breakpoints") => ~Has(inbox', "breakpoints")
      BY <1>u
    <3> QED
      BY <1>u, <1>5, <3>1, <3>2, <3>3, <3>4, <3>5 DEF Updates, IInv
  <2>9. EvalsAccounted'
    <3>1. \A e : InFlightNow(e) => InFlightNow(e)'
      BY <1>3, <1>5, <1>u, <2>4 DEF InFlightNow, Keeps
    <3> QED
      BY <1>u, <2>2, <3>1, AccountedBy DEF IInv
  <2> QED
    BY <2>2, <2>5, <2>6, <2>7, <2>8, <2>9 DEF IInv
<1> QED
  BY <1>4, <1>5 DEF ExecuteQueuedAction, a

-----------------------------------------------------------------------------
(* A frame l on top of "msgr", and what the step does to its stack.         *)

LEMMA MsgrAt ==
  ASSUME TypeOK, NEW l, At("msgr", l)
  PROVE  /\ Msgr \in Seq(Frame) /\ Msgr # <<>> /\ Len(Msgr) \in Nat /\ Len(Msgr) > 0
         /\ Top("msgr") = Msgr[Len(Msgr)] /\ Top("msgr") \in Frame /\ Msgr[Len(Msgr)].at = l
<1>1. Stacks /\ "msgr" \in Threads
  BY DEF TypeOK, Stacks, Threads
<1> QED
  BY <1>1, OnTop DEF Msgr, At

LEMMA MsgrReturns ==
  ASSUME TypeOK, NEW l, At("msgr", l), Return("msgr")
  PROVE  Stacks' /\ Popped(Msgr, Msgr') /\ Lua' = Lua
<1>1. Stacks /\ "msgr" \in Threads /\ "lua" \in Threads \ {"msgr"} /\ stack["msgr"] # <<>>
  BY DEF TypeOK, Stacks, Threads, At
<1> QED
  BY <1>1, Returns DEF Lua, Msgr

LEMMA MsgrBecomes ==
  ASSUME TypeOK, NEW l, At("msgr", l), NEW f \in Frame, Becomes("msgr", <<f>>)
  PROVE  Stacks' /\ Swapped(Msgr, Msgr', f) /\ Lua' = Lua
<1>1. Stacks /\ "msgr" \in Threads /\ "lua" \in Threads \ {"msgr"} /\ stack["msgr"] # <<>>
  BY DEF TypeOK, Stacks, Threads, At
<1> QED
  BY <1>1, BecomesOne DEF Lua, Msgr

LEMMA MsgrCalls ==
  ASSUME TypeOK, NEW f \in Frame, Calls("msgr", <<f>>)
  PROVE  Stacks' /\ Pushed(Msgr, Msgr', f) /\ Lua' = Lua
<1>1. Stacks /\ "msgr" \in Threads /\ "lua" \in Threads \ {"msgr"}
  BY DEF TypeOK, Stacks, Threads
<1> QED
  BY <1>1, CallsOne DEF Lua, Msgr

LEMMA MovesNot == ASSUME NEW q, LuaStack(q) PROVE Moves(q, q) /\ Keeps(q, q)
BY DEF Moves, Keeps

LEMMA HandlesNot == ASSUME NEW q, MsgrStack(q) PROVE Handles(q, q)
BY DEF Handles

-----------------------------------------------------------------------------
(* Sending.                                                                 *)

\* The frame of a message that has got its number.
LEMMA Numbered ==
  ASSUME NEW f \in Frame, f.at = "stamp", NEW n \in Nat
  PROVE  /\ [at |-> "send", msg |-> [f.msg EXCEPT !.seq = n]] \in Frame
         /\ [f.msg EXCEPT !.seq = n].kind = f.msg.kind
         /\ [f.msg EXCEPT !.seq = n].re = f.msg.re
<1>1. f.msg \in ToFrontend
  BY DEF Frame
<1> DEFINE m == [f.msg EXCEPT !.seq = n]
<1>2. m \in ToFrontend /\ m.kind = f.msg.kind /\ m.re = f.msg.re
  BY <1>1 DEF ToFrontend
<1> HIDE DEF m
<1>3. [at |-> "send", msg |-> m] \in Frame
  BY <1>2 DEF Frame
<1> QED
  BY <1>2, <1>3 DEF m

LEMMA StampLuaKeeps == ASSUME IInv, Stamp("lua") PROVE IInv'
<1> DEFINE g == [at |-> "send", msg |-> [Top("lua").msg EXCEPT !.seq = outSeq]]
<1>1. /\ Lua \in Seq(Frame) /\ Len(Lua) > 0 /\ Lua[Len(Lua)].at = "stamp"
      /\ Top("lua") = Lua[Len(Lua)] /\ Top("lua") \in Frame
  BY LuaAt DEF Stamp, IInv
<1>2. Len(Lua) = 3
  BY <1>1, LuaTop DEF IInv
<1>3. /\ g \in Frame /\ g.at = "send"
      /\ g.msg.kind = Lua[3].msg.kind /\ g.msg.re = Lua[3].msg.re
  <2>1. outSeq \in Nat
    BY DEF IInv, TypeOK
  <2>2. /\ g \in Frame
        /\ [Top("lua").msg EXCEPT !.seq = outSeq].kind = Top("lua").msg.kind
        /\ [Top("lua").msg EXCEPT !.seq = outSeq].re = Top("lua").msg.re
    BY <1>1, <2>1, Numbered
  <2> QED
    BY <1>1, <1>2, <2>2
<1>4. CASE IsConnected
  <2>1. Stacks' /\ Swapped(Lua, Lua', g) /\ Msgr' = Msgr
    BY <1>3, <1>4, LuaBecomes DEF Stamp, IInv
  <2> HIDE DEF g
  <2>2. TypeOK'
    BY <1>4, <2>1 DEF Stamp, IInv, TypeOK, Stacks, script, halt, frontend
  <2>3. Moves(Lua, Lua') /\ Keeps(Lua, Lua')
    BY <1>1, <1>2, <1>3, <2>1, LuaSwap DEF IInv
  <2> QED
    BY <2>1, <2>2, <2>3, LuaStep DEF Stamp, script, halt, frontend
<1>5. CASE ~IsConnected
  <2>1. Stacks' /\ Popped(Lua, Lua') /\ Msgr' = Msgr
    BY <1>5, LuaReturns DEF Stamp, IInv
  <2>2. TypeOK'
    BY <1>5, <2>1 DEF Stamp, IInv, TypeOK, Stacks, script, halt, frontend
  <2>3. Moves(Lua, Lua')
    BY <1>1, <1>2, <2>1, LuaPop DEF IInv
  <2>4. ~(attached /\ evals # {})
    BY <1>5 DEF IInv, Linked, IsConnected
  <2> QED
    BY <2>1, <2>2, <2>3, <2>4, LuaStep DEF Stamp, script, halt, frontend
<1> QED
  BY <1>4, <1>5

LEMMA StampMsgrKeeps == ASSUME IInv, Stamp("msgr") PROVE IInv'
<1> DEFINE g == [at |-> "send", msg |-> [Top("msgr").msg EXCEPT !.seq = outSeq]]
<1>1. /\ Msgr \in Seq(Frame) /\ Len(Msgr) > 0 /\ Msgr[Len(Msgr)].at = "stamp"
      /\ Top("msgr") = Msgr[Len(Msgr)] /\ Top("msgr") \in Frame
  BY MsgrAt DEF Stamp, IInv
<1>2. Len(Msgr) # 1
  BY <1>1, MsgrTop DEF IInv
<1>3. g \in Frame /\ g.at = "send" /\ g.msg.kind = Msgr[Len(Msgr)].msg.kind
  <2>1. outSeq \in Nat
    BY DEF IInv, TypeOK
  <2>2. /\ g \in Frame
        /\ [Top("msgr").msg EXCEPT !.seq = outSeq].kind = Top("msgr").msg.kind
    BY <1>1, <2>1, Numbered
  <2> QED
    BY <1>1, <2>2
<1>4. CASE IsConnected
  <2>1. Stacks' /\ Swapped(Msgr, Msgr', g) /\ Lua' = Lua
    BY <1>3, <1>4, MsgrBecomes DEF Stamp, IInv
  <2> HIDE DEF g
  <2>2. TypeOK'
    BY <1>4, <2>1 DEF Stamp, IInv, TypeOK, Stacks, script, halt, frontend
  <2>3. Handles(Msgr, Msgr')
    BY <1>1, <1>3, <2>1, MsgrStamps DEF IInv
  <2> QED
    BY <1>2, <2>1, <2>2, <2>3, MsgrStep DEF Stamp, script, halt, frontend
<1>5. CASE ~IsConnected
  <2>1. Stacks' /\ Popped(Msgr, Msgr') /\ Lua' = Lua
    BY <1>5, MsgrReturns DEF Stamp, IInv
  <2>2. TypeOK'
    BY <1>5, <2>1 DEF Stamp, IInv, TypeOK, Stacks, script, halt, frontend
  <2>3. Handles(Msgr, Msgr')
    BY <1>1, <2>1, MsgrPops DEF IInv
  <2> QED
    BY <1>2, <2>1, <2>2, <2>3, MsgrStep DEF Stamp, script, halt, frontend
<1> QED
  BY <1>4, <1>5

\* A message goes out.
LEMMA WireStep ==
  ASSUME IInv, TypeOK', sock = "open", NEW m \in ToFrontend, wire' = Append(wire, m),
         UNCHANGED <<sock, inbox, breakpoints, pending, paused, request,
                     attached, stopped, evals, wanted>>,
         Moves(Lua, Lua'), Handles(Msgr, Msgr'),
         Len(Msgr) # 1 \/ Msgr' = Msgr,
         m.kind = "stop" => Resting' /\ ~Resting,
         \A e : Holds(Lua, e) => Holds(Lua', e) \/ (m.kind = "answer" /\ m.re = e)
  PROVE  IInv'
<1>w. wire \in Seq(ToFrontend)
  BY DEF IInv, TypeOK
<1>1. /\ \A k : Has(wire', k) <=> Has(wire, k) \/ m.kind = k
      /\ \A k, e : Carries(wire', k, e) <=> Carries(wire, k, e) \/ (m.kind = k /\ m.re = e)
  BY <1>w, HasAppend
<1>2. OneStop(wire) /\ (m.kind = "stop" => ~Has(wire, "stop")) => OneStop(wire')
  BY <1>w, OrderAppend
<1>3. Linked'
  BY DEF IInv, Linked, Up, Joined, Moves, Handles
<1>4. Resting => Resting'
  BY DEF Moves, Resting
<1>5. m.kind = "stop" => ~(attached /\ stopped) /\ ~Has(wire, "stop") /\ ~HasLet(inbox)
  BY DEF IInv, Stops, Linked, Up
<1>6. Stops'
  BY <1>1, <1>2, <1>4, <1>5 DEF IInv, Stops, Up
<1>7. Announces' /\ Queued' /\ LuaStack(Lua)' /\ MsgrStack(Msgr)'
  BY DEF IInv, Announces, Queued, Moves, Handles, Has
<1>8. Updates'
  BY UpdatesKept DEF IInv, Handles
<1>9. EvalsAccounted'
  <2>1. \A e : InFlightNow(e) => InFlightNow(e)'
    BY <1>1 DEF InFlightNow
  <2> QED
    BY <2>1, AccountedBy DEF IInv
<1> QED
  BY <1>3, <1>6, <1>7, <1>8, <1>9 DEF IInv

\* Once the connection has failed all that is left to keep is what the threads do.
LEMMA DeadStep ==
  ASSUME IInv, TypeOK', ~attached, UNCHANGED <<attached, inbox, wire, evals>>,
         sock' \in {"rst", "none"}, LuaStack(Lua)', MsgrStack(Msgr)', Announces', Queued'
  PROVE  IInv'
<1>1. Linked' /\ Updates' /\ EvalsAccounted'
  BY DEF Linked, Joined, Up, Updates, EvalsAccounted
<1>2. Stops'
  BY DEF Stops, Up, IInv
<1> QED
  BY <1>1, <1>2 DEF IInv

LEMMA SendLuaKeeps == ASSUME IInv, Send("lua") PROVE IInv'
<1> DEFINE m == Top("lua").msg
<1>1. /\ Lua \in Seq(Frame) /\ Len(Lua) > 0 /\ Lua[Len(Lua)].at = "send"
      /\ Top("lua") = Lua[Len(Lua)] /\ Top("lua") \in Frame
  BY LuaAt DEF Send, IInv
<1>2. /\ Len(Lua) = 3 /\ m = Lua[3].msg
      /\ \/ Lua[2].at = "lock" /\ m.kind = "stop"
         \/ Lua[2].at = "wait" /\ m.kind = "answer"
  BY <1>1, LuaTop DEF IInv, Sending
<1>3. m \in ToFrontend
  BY <1>1 DEF Frame
<1>u. UNCHANGED <<inbox, breakpoints, pending, paused, request,
                  attached, stopped, evals, wanted>>
  BY DEF Send, script, halt, frontend
<1>r. ASSUME Return("lua")
      PROVE  Stacks' /\ Popped(Lua, Lua') /\ Msgr' = Msgr /\ Moves(Lua, Lua')
  <2>1. Stacks' /\ Popped(Lua, Lua') /\ Msgr' = Msgr
    BY <1>r, LuaReturns DEF Send, IInv
  <2> QED
    BY <1>1, <1>2, <2>1, LuaPop DEF IInv
<1>4. CASE sock = "open" /\ wire' = Append(wire, m) /\ Return("lua") /\ UNCHANGED sock
  <2>1. TypeOK'
    BY <1>3, <1>4, <1>r DEF Send, IInv, TypeOK, Stacks, script, halt, frontend
  <2>2. Len(Lua') = 2 /\ Lua'[1] = Lua[1] /\ Lua'[2] = Lua[2]
    BY <1>2, <1>4, <1>r DEF Popped
  <2>3. m.kind = "stop" => Resting' /\ ~Resting
    <3> SUFFICES ASSUME m.kind = "stop" PROVE Resting' /\ ~Resting
      OBVIOUS
    <3>1. Lua[2].at = "lock" /\ Announced(Lua)
      BY <1>1, <1>2 DEF Announced, Sending
    <3>2. ~Resting
      BY <1>2, <3>1 DEF Resting, Waiting
    <3>3. Live(Msgr)
      BY <1>4 DEF IInv, Linked, Up
    <3>4. paused
      BY <3>1, <3>3 DEF IInv, Announces, Live, Quiet, Detaching
    <3>5. Waiting(Lua')
      BY <1>1, <1>2, <2>2, <3>1, LuaTop DEF Waiting, Holding, Quiet, IInv
    <3> QED
      BY <1>u, <3>2, <3>4, <3>5 DEF Resting
  <2>4. \A e : Holds(Lua, e) => Holds(Lua', e) \/ (m.kind = "answer" /\ m.re = e)
    BY <1>2, <2>2 DEF Holds
  <2> HIDE DEF m
  <2>5. Handles(Msgr, Msgr') /\ Msgr' = Msgr
    BY <1>4, <1>r, HandlesNot DEF IInv
  <2> QED
    BY <1>3, <1>4, <1>u, <1>r, <2>1, <2>3, <2>4, <2>5, WireStep
<1>5. CASE sock = "fin" /\ sock' = "rst" /\ Return("lua") /\ UNCHANGED wire
  <2>1. TypeOK'
    BY <1>5, <1>r DEF Send, IInv, TypeOK, Stacks, script, halt, frontend
  <2>2. ~attached
    BY <1>5 DEF IInv, Linked
  <2>3. Announces' /\ Queued' /\ LuaStack(Lua)' /\ MsgrStack(Msgr)'
    BY <1>5, <1>u, <1>r DEF IInv, Announces, Queued, Moves, Has
  <2> QED
    BY <1>5, <1>u, <2>1, <2>2, <2>3, DeadStep
<1>6. CASE /\ sock = "rst" /\ sock' = "none" /\ Becomes("lua", <<Fr("disable")>>)
           /\ UNCHANGED wire
  <2>1. Fr("disable") \in Frame
    BY Labels
  <2>2. Stacks' /\ Swapped(Lua, Lua', Fr("disable")) /\ Msgr' = Msgr
    BY <1>6, <2>1, LuaBecomes DEF Send, IInv
  <2>3. TypeOK'
    BY <1>6, <2>2 DEF Send, IInv, TypeOK, Stacks, script, halt, frontend
  <2>4. /\ LuaStack(Lua') /\ ~Announced(Lua') /\ ~Clearing(Lua')
        /\ Holding(Lua) => Holding(Lua')
    BY <1>1, <2>2, LuaFails DEF IInv
  <2>5. ~attached
    BY <1>6 DEF IInv, Linked
  <2>6. Announces' /\ Queued' /\ LuaStack(Lua)' /\ MsgrStack(Msgr)'
    BY <1>u, <2>2, <2>4 DEF IInv, Announces, Queued, Has
  <2> QED
    BY <1>6, <1>u, <2>3, <2>5, <2>6, DeadStep
<1>7. CASE ~IsConnected /\ Return("lua") /\ UNCHANGED <<sock, wire>>
  <2>1. TypeOK'
    BY <1>7, <1>r DEF Send, IInv, TypeOK, Stacks, script, halt, frontend
  <2>2. ~(attached /\ evals # {})
    BY <1>7 DEF IInv, Linked, IsConnected
  <2> QED
    BY <1>7, <1>u, <1>r, <2>1, <2>2, LuaStep
<1> QED
  BY <1>4, <1>5, <1>6, <1>7 DEF Send

LEMMA SendMsgrKeeps == ASSUME IInv, Send("msgr") PROVE IInv'
<1> DEFINE m == Top("msgr").msg
<1>1. /\ Msgr \in Seq(Frame) /\ Len(Msgr) > 0 /\ Msgr[Len(Msgr)].at = "send"
      /\ Top("msgr") = Msgr[Len(Msgr)] /\ Top("msgr") \in Frame
  BY MsgrAt DEF Send, IInv
<1>2. Len(Msgr) # 1 /\ m.kind \notin {"stop", "answer"}
  BY <1>1, MsgrTop DEF IInv, Sending
<1>3. m \in ToFrontend
  BY <1>1 DEF Frame
<1>u. UNCHANGED <<inbox, breakpoints, pending, paused, request,
                  attached, stopped, evals, wanted>>
  BY DEF Send, script, halt, frontend
<1>r. ASSUME Return("msgr")
      PROVE  Stacks' /\ Popped(Msgr, Msgr') /\ Lua' = Lua /\ Handles(Msgr, Msgr')
  <2>1. Stacks' /\ Popped(Msgr, Msgr') /\ Lua' = Lua
    BY <1>r, MsgrReturns DEF Send, IInv
  <2> QED
    BY <1>1, <2>1, MsgrPops DEF IInv
<1>4. CASE sock = "open" /\ wire' = Append(wire, m) /\ Return("msgr") /\ UNCHANGED sock
  <2>1. TypeOK'
    BY <1>3, <1>4, <1>r DEF Send, IInv, TypeOK, Stacks, script, halt, frontend
  <2>2. \A e : Holds(Lua, e) => Holds(Lua', e)
    BY <1>4, <1>r
  <2> HIDE DEF m
  <2>3. Moves(Lua, Lua')
    BY <1>4, <1>r, MovesNot DEF IInv
  <2> QED
    BY <1>2, <1>3, <1>4, <1>u, <1>r, <2>1, <2>2, <2>3, WireStep
<1>5. CASE sock = "fin" /\ sock' = "rst" /\ Return("msgr") /\ UNCHANGED wire
  <2>1. TypeOK'
    BY <1>5, <1>r DEF Send, IInv, TypeOK, Stacks, script, halt, frontend
  <2>2. ~attached
    BY <1>5 DEF IInv, Linked
  <2>3. Announces' /\ Queued' /\ LuaStack(Lua)' /\ MsgrStack(Msgr)'
    BY <1>5, <1>u, <1>r DEF IInv, Announces, Queued, Handles, Has
  <2> QED
    BY <1>5, <1>u, <2>1, <2>2, <2>3, DeadStep
<1>6. CASE /\ sock = "rst" /\ sock' = "none" /\ Becomes("msgr", <<Fr("disable")>>)
           /\ UNCHANGED wire
  <2>1. Fr("disable") \in Frame
    BY Labels
  <2>2. Stacks' /\ Swapped(Msgr, Msgr', Fr("disable")) /\ Lua' = Lua
    BY <1>6, <2>1, MsgrBecomes DEF Send, IInv
  <2>3. TypeOK'
    BY <1>6, <2>2 DEF Send, IInv, TypeOK, Stacks, script, halt, frontend
  <2>4. MsgrStack(Msgr') /\ (Detaching(Msgr) => Detaching(Msgr'))
    BY <1>1, <2>2, MsgrFails DEF IInv
  <2>5. ~attached
    BY <1>6 DEF IInv, Linked
  <2>6. Announces' /\ Queued' /\ LuaStack(Lua)' /\ MsgrStack(Msgr)'
    BY <1>u, <2>2, <2>4 DEF IInv, Announces, Queued, Has
  <2> QED
    BY <1>6, <1>u, <2>3, <2>5, <2>6, DeadStep
<1>7. CASE ~IsConnected /\ Return("msgr") /\ UNCHANGED <<sock, wire>>
  <2>1. TypeOK'
    BY <1>7, <1>r DEF Send, IInv, TypeOK, Stacks, script, halt, frontend
  <2> QED
    BY <1>2, <1>7, <1>u, <1>r, <2>1, MsgrStep
<1> QED
  BY <1>4, <1>5, <1>6, <1>7 DEF Send

-----------------------------------------------------------------------------
(* EnableDebugging(false).                                                  *)

LEMMA DisableLuaKeeps == ASSUME IInv, Disable("lua") PROVE IInv'
<1> DEFINE f == Fr("detach")
           g == Fr("release")
<1>1. /\ Lua \in Seq(Frame) /\ Lua # <<>> /\ Len(Lua) > 0 /\ Lua[Len(Lua)].at = "disable"
      /\ Lua[Len(Lua)] \in Frame
      /\ Stacks /\ "lua" \in Threads /\ "msgr" \in Threads \ {"lua"}
  BY LuaAt DEF Disable, IInv, TypeOK, Stacks, Threads
<1>2. f \in Frame /\ f.at = "detach" /\ g \in Frame /\ g.at = "release"
  BY Labels
<1>3. Len(Lua) = 3 /\ ~Quiet(Lua)
  BY <1>1, LuaTop DEF IInv, Quiet
<1>4. Becomes("lua", <<f, g>>) \/ Becomes("lua", <<f>>)
  BY DEF Disable
<1> HIDE DEF f, g
<1>5. /\ Stacks' /\ Msgr' = Msgr
      /\ Split(Lua, Lua', f, g) \/ Swapped(Lua, Lua', f)
  BY <1>1, <1>2, <1>4, BecomesOne, BecomesTwo DEF Lua, Msgr
<1>6. Moves(Lua, Lua') /\ Keeps(Lua, Lua')
  <2>1. CASE Split(Lua, Lua', f, g)
    BY <1>1, <1>2, <1>3, <2>1, LuaSplit DEF IInv
  <2>2. CASE Swapped(Lua, Lua', f)
    BY <1>1, <1>2, <1>3, <2>2, LuaSwap DEF IInv
  <2> QED
    BY <1>5, <2>1, <2>2
<1>7. TypeOK'
  <2>1. -1 \in -1 .. AnyDepth
    BY LuaDebuggerAssumption DEF AnyDepth
  <2> QED
    BY <1>5, <2>1 DEF Disable, IInv, TypeOK, Stacks, frontend
<1>u. /\ UNCHANGED <<sock, inbox, wire, pending, paused, attached, stopped, evals, wanted>>
      /\ request' = FALSE
  BY DEF Disable, frontend
<1>8. Linked'
  BY <1>3, <1>5, <1>u, LinkedKept DEF IInv
<1>9. Stops'
  BY <1>3, <1>u, StopsKept DEF IInv, Resting, Waiting
<1>10. Updates'
  BY <1>3, <1>u, UpdatesUnjoined DEF IInv, Linked
<1>11. EvalsAccounted'
  BY <1>5, <1>6, <1>u, AccountedKept DEF IInv
<1>12. Announces' /\ Queued' /\ LuaStack(Lua)' /\ MsgrStack(Msgr)'
  BY <1>5, <1>6, <1>u DEF IInv, Announces, Queued, Moves, Has
<1> QED
  BY <1>7, <1>8, <1>9, <1>10, <1>11, <1>12 DEF IInv

LEMMA DisableMsgrKeeps == ASSUME IInv, Disable("msgr") PROVE IInv'
<1> DEFINE f == Fr("detach")
           g == Fr("release")
<1>1. /\ Msgr \in Seq(Frame) /\ Msgr # <<>> /\ Len(Msgr) > 0 /\ Msgr[Len(Msgr)].at = "disable"
      /\ Stacks /\ "msgr" \in Threads /\ "lua" \in Threads \ {"msgr"}
  BY MsgrAt DEF Disable, IInv, TypeOK, Stacks, Threads
<1>2. f \in Frame /\ g \in Frame
  BY Labels
<1>3. Becomes("msgr", <<f, g>>) \/ Becomes("msgr", <<f>>)
  BY DEF Disable
<1>4. /\ Stacks' /\ Lua' = Lua
      /\ Split(Msgr, Msgr', f, g) \/ Swapped(Msgr, Msgr', f)
  BY <1>1, <1>2, <1>3, BecomesOne, BecomesTwo DEF Lua, Msgr
<1>5. MsgrStack(Msgr') /\ Detaching(Msgr') /\ ~Live(Msgr)
  BY <1>1, <1>4, MsgrDisables DEF IInv
<1>6. ~Up
  BY <1>5 DEF IInv, Linked
<1>7. TypeOK'
  <2>1. -1 \in -1 .. AnyDepth
    BY LuaDebuggerAssumption DEF AnyDepth
  <2> QED
    BY <1>4, <2>1 DEF Disable, IInv, TypeOK, Stacks, frontend
<1>u. /\ UNCHANGED <<sock, inbox, wire, pending, paused, attached, stopped, evals, wanted>>
      /\ request' = FALSE
  BY DEF Disable, frontend
<1>8. Linked'
  BY <1>4, <1>6, <1>u, LinkedKept DEF IInv
<1>9. Stops'
  BY <1>6, <1>u, StopsUnlinked DEF IInv
<1>10. Updates'
  BY <1>6, <1>u, UpdatesUnjoined DEF IInv, Joined
<1>11. EvalsAccounted'
  BY <1>4, <1>u, AccountedKept DEF IInv, Keeps
<1>12. Announces' /\ Queued' /\ LuaStack(Lua)' /\ MsgrStack(Msgr)'
  BY <1>4, <1>5, <1>u DEF IInv, Announces, Queued, Has
<1> QED
  BY <1>7, <1>8, <1>9, <1>10, <1>11, <1>12 DEF IInv

LEMMA ReleaseLuaKeeps == ASSUME IInv, Release("lua") PROVE IInv'
<1> DEFINE s == [stack EXCEPT !["lua"] = Front(@)]
<1>1. /\ Lua \in Seq(Frame) /\ Lua # <<>> /\ Len(Lua) > 0 /\ Lua[Len(Lua)].at = "release"
      /\ Lua[Len(Lua)] \in Frame /\ Stacks
  BY LuaAt DEF Release, IInv, TypeOK, Stacks
<1>2. /\ Len(Lua) = 4 /\ Lua[3].at = "detach" /\ ~Quiet(Lua)
      /\ Lua[Len(Lua)].msg.kind = "none"
  BY <1>1, LuaTop, NoMessage DEF IInv, Quiet
<1>3. /\ s \in [Threads -> Seq(Frame)] /\ Popped(Lua, s["lua"]) /\ s["msgr"] = Msgr
  <2>1. /\ Front(Lua) \in Seq(Frame) /\ Len(Front(Lua)) = Len(Lua) - 1
        /\ \A i \in 1 .. Len(Lua) : i < Len(Lua) => Front(Lua)[i] = Lua[i]
    BY <1>1, FrontOf
  <2>2. s \in [Threads -> Seq(Frame)] /\ s["lua"] = Front(Lua) /\ s["msgr"] = Msgr
    BY <1>1, <2>1 DEF Stacks, Threads, Lua, Msgr
  <2> QED
    BY <1>1, <2>1, <2>2 DEF Popped
<1>4. stack' = s \/ stack' = Notify(s)
  BY DEF Release
<1> HIDE DEF s
<1>5. Notify(s) = s
  <2>1. s["lua"] \in Seq(Frame) /\ Len(s["lua"]) = 3 /\ s["lua"][3].at = "detach"
    BY <1>2, <1>3 DEF Popped
  <2>2. Last(s["lua"]).at # "asleep"
    BY <2>1 DEF Last
  <2> QED
    BY <2>2 DEF Notify
<1>6. Stacks' /\ Popped(Lua, Lua') /\ Msgr' = Msgr
  BY <1>3, <1>4, <1>5 DEF Stacks, Lua, Msgr
<1>7. Moves(Lua, Lua') /\ Keeps(Lua, Lua')
  BY <1>1, <1>2, <1>6, LuaPop DEF IInv
<1>8. TypeOK'
  <2>1. maxDepth' \in -1 .. AnyDepth
    <3>1. maxDepth \in -1 .. AnyDepth /\ -1 \in -1 .. AnyDepth
      BY LuaDebuggerAssumption DEF IInv, TypeOK, AnyDepth
    <3> QED
      BY <3>1 DEF Release
  <2>2. request' \in BOOLEAN
    BY DEF Release, IInv, TypeOK
  <2> QED
    BY <1>6, <2>1, <2>2 DEF Release, IInv, TypeOK, Stacks, link, script, frontend
<1>u. /\ UNCHANGED <<sock, inbox, wire, breakpoints, pending, attached, stopped, evals, wanted>>
  BY DEF Release, link, script, frontend
<1>9. Linked'
  BY <1>2, <1>6, <1>u, LinkedKept DEF IInv
<1>10. Stops'
  BY <1>2, <1>u, StopsKept DEF IInv, Resting, Waiting
<1>11. Updates'
  BY <1>6, <1>u, UpdatesKept DEF IInv
<1>12. EvalsAccounted'
  BY <1>6, <1>7, <1>u, AccountedKept DEF IInv
<1>13. Announces' /\ Queued' /\ LuaStack(Lua)' /\ MsgrStack(Msgr)'
  <2>1. ~Announced(Lua') /\ ~Clearing(Lua')
    BY <1>1, <1>2, <1>7 DEF Moves, Announced, Clearing, Sending
  <2> QED
    BY <1>6, <1>7, <1>u, <2>1 DEF IInv, Announces, Queued, Moves, Has
<1> QED
  BY <1>8, <1>9, <1>10, <1>11, <1>12, <1>13 DEF IInv

LEMMA ReleaseMsgrKeeps == ASSUME IInv, Release("msgr") PROVE IInv'
<1> DEFINE s == [stack EXCEPT !["msgr"] = Front(@)]
<1>1. /\ Msgr \in Seq(Frame) /\ Msgr # <<>> /\ Len(Msgr) > 0 /\ Msgr[Len(Msgr)].at = "release"
      /\ Stacks
  BY MsgrAt DEF Release, IInv, TypeOK, Stacks
<1>3. /\ s \in [Threads -> Seq(Frame)] /\ Popped(Msgr, s["msgr"]) /\ s["lua"] = Lua
  <2>1. /\ Front(Msgr) \in Seq(Frame) /\ Len(Front(Msgr)) = Len(Msgr) - 1
        /\ \A i \in 1 .. Len(Msgr) : i < Len(Msgr) => Front(Msgr)[i] = Msgr[i]
    BY <1>1, FrontOf
  <2>2. s \in [Threads -> Seq(Frame)] /\ s["msgr"] = Front(Msgr) /\ s["lua"] = Lua
    BY <1>1, <2>1 DEF Stacks, Threads, Lua, Msgr
  <2> QED
    BY <1>1, <2>1, <2>2 DEF Popped
<1>4. stack' = s \/ stack' = Notify(s)
  BY DEF Release
<1> HIDE DEF s
<1>5. Stacks' /\ Popped(Msgr, Msgr') /\ Woken(Lua, Lua')
  BY <1>3, <1>4, Notified DEF Stacks, Lua, Msgr, Woken
<1>6. MsgrStack(Msgr') /\ Detaching(Msgr') /\ ~Live(Msgr)
  BY <1>1, <1>5, MsgrUndoes DEF IInv
<1>7. Moves(Lua, Lua') /\ Keeps(Lua, Lua')
  <2>1. Lua \in Seq(Frame)
    BY <1>1 DEF Stacks, Lua, Threads
  <2> QED
    BY <1>5, <2>1, LuaWoken DEF IInv
<1>8. TypeOK'
  <2>1. maxDepth' \in -1 .. AnyDepth
    <3>1. maxDepth \in -1 .. AnyDepth /\ -1 \in -1 .. AnyDepth
      BY LuaDebuggerAssumption DEF IInv, TypeOK, AnyDepth
    <3> QED
      BY <3>1 DEF Release
  <2>2. request' \in BOOLEAN
    BY DEF Release, IInv, TypeOK
  <2> QED
    BY <1>5, <2>1, <2>2 DEF Release, IInv, TypeOK, Stacks, link, script, frontend
<1>u. /\ UNCHANGED <<sock, inbox, wire, breakpoints, pending, attached, stopped, evals, wanted>>
      /\ request' = (request /\ ~paused) /\ paused' = FALSE
  BY DEF Release, link, script, frontend
<1>9. ~Up
  BY <1>6 DEF IInv, Linked
<1>10. Linked'
  BY <1>9, <1>u, LinkedKept DEF IInv
<1>11. Stops'
  BY <1>9, <1>u, StopsUnlinked DEF IInv
<1>12. Updates'
  BY <1>9, <1>u, UpdatesUnjoined DEF IInv, Joined
<1>13. EvalsAccounted'
  BY <1>5, <1>7, <1>u, AccountedKept DEF IInv
<1>14. Announces' /\ Queued' /\ LuaStack(Lua)' /\ MsgrStack(Msgr)'
  BY <1>6, <1>7, <1>u DEF IInv, Announces, Queued, Moves, Has
<1> QED
  BY <1>8, <1>10, <1>11, <1>12, <1>13, <1>14 DEF IInv

LEMMA DetachLuaKeeps == ASSUME IInv, Detach("lua") PROVE IInv'
<1>1. /\ Lua \in Seq(Frame) /\ Len(Lua) > 0 /\ Lua[Len(Lua)].at = "detach"
      /\ Lua[Len(Lua)] \in Frame
  BY LuaAt DEF Detach, IInv
<1>2. Stacks' /\ Popped(Lua, Lua') /\ Msgr' = Msgr
  BY LuaReturns DEF Detach, IInv
<1>3. Len(Lua) = 3 /\ Lua[Len(Lua)].msg.kind = "none"
  BY <1>1, LuaTop, NoMessage DEF IInv
<1>4. Moves(Lua, Lua') /\ Keeps(Lua, Lua')
  BY <1>1, <1>2, <1>3, LuaPop DEF IInv
<1>5. TypeOK'
  BY <1>2 DEF Detach, IInv, TypeOK, Stacks, link, halt, frontend
<1> QED
  BY <1>2, <1>4, <1>5, LuaStep DEF Detach, link, halt, frontend

LEMMA DetachMsgrKeeps == ASSUME IInv, Detach("msgr") PROVE IInv'
<1>1. /\ Msgr \in Seq(Frame) /\ Len(Msgr) > 0 /\ Msgr[Len(Msgr)].at = "detach"
  BY MsgrAt DEF Detach, IInv
<1>2. Stacks' /\ Popped(Msgr, Msgr') /\ Lua' = Lua
  BY MsgrReturns DEF Detach, IInv
<1>3. MsgrStack(Msgr') /\ ~Live(Msgr)
  BY <1>1, <1>2, MsgrUndoes DEF IInv
<1>4. ~Up /\ Lua = <<>>
  BY <1>3 DEF Detach, CanPin, Lua, IInv, Linked
<1>5. TypeOK'
  BY <1>2 DEF Detach, IInv, TypeOK, Stacks, link, halt, frontend
<1>u. UNCHANGED <<sock, inbox, wire, breakpoints, pending, paused, request,
                  attached, stopped, evals, wanted>>
  BY DEF Detach, link, halt, frontend
<1>6. Linked'
  BY <1>2, <1>4, <1>u, LinkedKept DEF IInv
<1>7. Stops'
  BY <1>4, <1>u, StopsUnlinked DEF IInv
<1>8. Updates'
  BY <1>4, <1>u, UpdatesUnjoined DEF IInv, Joined
<1>9. EvalsAccounted'
  BY <1>2, <1>u, AccountedKept DEF IInv, Keeps
<1>10. ~Announced(Lua') /\ ~Clearing(Lua')
  BY <1>2, <1>4 DEF Announced, Clearing
<1>11. Announces' /\ Queued' /\ LuaStack(Lua)' /\ MsgrStack(Msgr)'
  BY <1>2, <1>3, <1>10, <1>u DEF IInv, Announces, Queued, Has
<1> QED
  BY <1>5, <1>6, <1>7, <1>8, <1>9, <1>11 DEF IInv

-----------------------------------------------------------------------------
(* The messaging thread.                                                    *)

LEMMA AcceptKeeps == ASSUME IInv, Accept PROVE IInv'
<1> DEFINE f == Fr("recv")
<1>1. f \in Frame /\ f.at = "recv" /\ Msgr = <<>> /\ Msgr \in Seq(Frame)
  BY Labels DEF Accept, Msgr
<1>2. Stacks' /\ Pushed(Msgr, Msgr', f) /\ Lua' = Lua
  BY <1>1, MsgrCalls DEF Accept, IInv
<1> HIDE DEF f
<1>3. Handles(Msgr, Msgr') /\ Live(Msgr') /\ Len(Msgr') = 1
  <2>1. Handles(Msgr, Msgr') /\ Live(Msgr')
    BY <1>1, <1>2, MsgrPush DEF IInv
  <2>2. Len(Msgr) = 0
    BY <1>1
  <2>3. Len(Msgr') = 1
    BY <1>2, <2>2 DEF Pushed
  <2> QED
    BY <2>1, <2>3
<1>4. TypeOK'
  BY <1>2 DEF Accept, IInv, TypeOK, Stacks, script, halt, frontend
<1>u. /\ UNCHANGED <<inbox, wire, breakpoints, pending, paused, request,
                     attached, stopped, evals, wanted>>
      /\ sock = "backlog" /\ sock' = "open"
  BY DEF Accept, script, halt, frontend
<1>5. /\ attached /\ wire = <<>> /\ ~stopped /\ evals = {}
      /\ ConnectFirst(inbox) /\ Has(inbox, "connect") /\ ~Has(inbox, "eval") /\ ~HasLet(inbox)
  <2>1. inbox # <<>> /\ inbox[1].kind = "connect" /\ inbox \in Seq(FromFrontend)
    BY <1>u DEF IInv, Linked, TypeOK
  <2>2. 1 \in 1 .. Len(inbox)
    BY <2>1
  <2>3. Has(inbox, "connect")
    BY <2>1, <2>2 DEF Has
  <2> QED
    BY <1>u, <2>3 DEF IInv, Linked
<1>6. Linked'
  BY <1>3, <1>5, <1>u DEF Linked, Joined, Up
<1>7. Stops'
  BY <1>5, <1>u DEF IInv, Stops, Has, Up
<1>8. Updates'
  BY <1>5, <1>u, UpdatesUnjoined DEF IInv, Joined
<1>9. EvalsAccounted'
  BY <1>5, <1>u DEF EvalsAccounted
<1>10. Announces' /\ Queued' /\ LuaStack(Lua)' /\ MsgrStack(Msgr)'
  BY <1>2, <1>3, <1>u DEF IInv, Announces, Queued, Handles, Has
<1> QED
  BY <1>4, <1>6, <1>7, <1>8, <1>9, <1>10 DEF IInv

LEMMA EnableKeeps == ASSUME IInv, Enable PROVE IInv'
<1>1. Msgr \in Seq(Frame) /\ Len(Msgr) > 0 /\ Msgr[Len(Msgr)].at = "enable"
  BY MsgrAt DEF Enable, IInv
<1>2. Stacks' /\ Popped(Msgr, Msgr') /\ Lua' = Lua
  BY MsgrReturns DEF Enable, IInv
<1>3. Len(Msgr) = 4 /\ Handles(Msgr, Msgr')
  BY <1>1, <1>2, MsgrTop, MsgrPops DEF IInv
<1>4. TypeOK'
  BY <1>2 DEF Enable, IInv, TypeOK, Stacks, script, halt, frontend
<1> QED
  BY <1>2, <1>3, <1>4, MsgrStep DEF Enable, script, halt, frontend

\* No script runs while the messaging thread pins the Lua state.
LEMMA AttachKeeps == ASSUME IInv, Attach PROVE IInv'
<1>1. Msgr \in Seq(Frame) /\ Len(Msgr) > 0 /\ Msgr[Len(Msgr)].at = "attach"
  BY MsgrAt DEF Attach, IInv
<1>2. Stacks' /\ Popped(Msgr, Msgr') /\ Lua' = Lua /\ Lua = <<>>
  BY MsgrReturns DEF Attach, IInv, CanPin, Lua
<1>3. /\ MsgrStack(Msgr') /\ (Live(Msgr) => Live(Msgr')) /\ Len(Msgr) = 3
      /\ Detaching(Msgr) => Detaching(Msgr')
  BY <1>1, <1>2, MsgrAttaches DEF IInv
<1>4. TypeOK'
  BY <1>2 DEF Attach, IInv, TypeOK, Stacks, link, halt, frontend
<1>u. UNCHANGED <<sock, inbox, wire, breakpoints, pending, paused, request,
                  attached, stopped, evals, wanted>>
  BY DEF Attach, link, halt, frontend
<1>5. Linking(Msgr)
  BY <1>1, <1>3 DEF Linking
<1>6. Quiet(Lua')
  BY <1>2 DEF Quiet
<1>7. Linked'
  BY <1>3, <1>6, <1>u DEF IInv, Linked, Up
<1>8. Stops'
  BY <1>2, <1>u, StopsKept DEF IInv, Resting
<1>9. Updates'
  BY <1>5, <1>u, UpdatesUnjoined DEF IInv, Joined
<1>10. EvalsAccounted'
  BY <1>2, <1>u, AccountedKept DEF IInv, Keeps
<1>11. Announces' /\ Queued' /\ LuaStack(Lua)' /\ MsgrStack(Msgr)'
  BY <1>2, <1>3, <1>u DEF IInv, Announces, Queued, Has
<1> QED
  BY <1>4, <1>7, <1>8, <1>9, <1>10, <1>11 DEF IInv

LEMMA ConnectionLostKeeps == ASSUME IInv, ConnectionLost PROVE IInv'
<1>1. Msgr \in Seq(Frame) /\ Len(Msgr) > 0 /\ Msgr[Len(Msgr)].at = "recv" /\ ~Up
  BY MsgrAt DEF ConnectionLost, IInv, Up
<1>u. UNCHANGED <<inbox, wire, breakpoints, pending, paused, request,
                  attached, stopped, evals, wanted>>
  BY DEF ConnectionLost, script, halt, frontend
<1>2. CASE sock = "rst" /\ sock' = "none" /\ Becomes("msgr", <<Fr("disable")>>)
  <2>1. Fr("disable") \in Frame
    BY Labels
  <2>2. Stacks' /\ Swapped(Msgr, Msgr', Fr("disable")) /\ Lua' = Lua
    BY <1>2, <2>1, MsgrBecomes DEF ConnectionLost, IInv
  <2>3. TypeOK'
    BY <1>2, <2>2 DEF ConnectionLost, IInv, TypeOK, Stacks, script, halt, frontend
  <2>4. MsgrStack(Msgr') /\ (Detaching(Msgr) => Detaching(Msgr'))
    BY <1>1, <2>2, MsgrFails DEF IInv
  <2>5. ~attached
    BY <1>2 DEF IInv, Linked
  <2>6. Announces' /\ Queued' /\ LuaStack(Lua)' /\ MsgrStack(Msgr)'
    BY <1>u, <2>2, <2>4 DEF IInv, Announces, Queued, Has
  <2> QED
    BY <1>2, <1>u, <2>3, <2>5, <2>6, DeadStep
<1>3. CASE Return("msgr") /\ UNCHANGED sock
  <2>1. Stacks' /\ Popped(Msgr, Msgr') /\ Lua' = Lua
    BY <1>3, MsgrReturns DEF ConnectionLost, IInv
  <2>2. MsgrStack(Msgr') /\ ~Detaching(Msgr)
    BY <1>1, <2>1, MsgrLeaves DEF IInv
  <2>3. TypeOK'
    BY <1>3, <2>1 DEF ConnectionLost, IInv, TypeOK, Stacks, script, halt, frontend
  <2>4. Linked'
    BY <1>1, <1>3, <1>u, <2>1, LinkedKept DEF IInv
  <2>5. Stops'
    BY <1>3, <1>u, <2>1, StopsKept DEF IInv, Resting
  <2>6. Updates'
    BY <1>1, <1>u, UpdatesUnjoined DEF IInv, Joined
  <2>7. EvalsAccounted'
    BY <1>u, <2>1, AccountedKept DEF IInv, Keeps
  <2>8. Announces' /\ Queued' /\ LuaStack(Lua)' /\ MsgrStack(Msgr)'
    BY <1>u, <2>1, <2>2 DEF IInv, Announces, Queued, Has
  <2> QED
    BY <2>3, <2>4, <2>5, <2>6, <2>7, <2>8 DEF IInv
<1> QED
  BY <1>2, <1>3 DEF ConnectionLost

-----------------------------------------------------------------------------
(* Its handlers of messages.                                                *)

LEMMA Received ==
  ASSUME IInv, NEW kind, Receive(kind)
  PROVE  /\ Msgr \in Seq(Frame) /\ Len(Msgr) = 1 /\ Msgr[1].at = "recv"
         /\ Up /\ Live(Msgr) /\ ~Detaching(Msgr) /\ ~Linking(Msgr)
         /\ inbox \in Seq(FromFrontend) /\ inbox # <<>>
         /\ Head(inbox) \in FromFrontend /\ Head(inbox).kind = kind
         /\ inbox' = Tail(inbox) /\ inbox' \in Seq(FromFrontend)
         /\ ~Has(inbox', "connect") /\ ConnectFirst(inbox') /\ LetsLast(inbox')
         /\ kind # "connect" => Joined
         /\ kind = "connect" => ~Joined
<1>1. Msgr \in Seq(Frame) /\ Len(Msgr) > 0 /\ Msgr[Len(Msgr)].at = "recv"
  BY MsgrAt DEF Receive, IInv
<1>2. Len(Msgr) = 1 /\ ~Detaching(Msgr) /\ ~Linking(Msgr) /\ Up /\ Live(Msgr)
  BY <1>1, MsgrTop DEF IInv, Linked, Up, Receive, Detaching, Linking
<1>3. /\ inbox \in Seq(FromFrontend) /\ inbox # <<>>
      /\ Head(inbox) \in FromFrontend /\ Head(inbox).kind = kind
      /\ inbox' = Tail(inbox) /\ inbox' \in Seq(FromFrontend)
  BY TailOf DEF Receive, IInv, TypeOK
<1>4. ConnectFirst(inbox) /\ LetsLast(inbox)
  BY <1>2 DEF IInv, Linked, Stops, Up
<1>5. ~Has(inbox', "connect") /\ ConnectFirst(inbox') /\ LetsLast(inbox')
  BY <1>3, <1>4, OrderTail
<1>6. Has(inbox, kind)
  BY <1>3, HasTail
<1>7. kind # "connect" => ~Has(inbox, "connect")
  BY <1>3, <1>5, HasTail
<1> QED
  BY <1>1, <1>2, <1>3, <1>5, <1>6, <1>7 DEF Joined

LEMMA ReceivedLinked ==
  ASSUME IInv, NEW kind, Receive(kind), UNCHANGED <<attached, sock>>,
         Live(Msgr'), kind = "connect" => Linking(Msgr'), Quiet(Lua) => Quiet(Lua')
  PROVE  Linked'
<1>1. /\ Up /\ ~Has(inbox', "connect") /\ ConnectFirst(inbox') /\ (kind # "connect" => Joined)
  BY Received
<1> QED
  BY <1>1 DEF IInv, Linked, Up, Joined

LEMMA ReceivedStops ==
  ASSUME IInv, NEW kind, Receive(kind), UNCHANGED <<attached, sock, wire, stopped>>,
         Resting => Resting' \/ Lets(Head(inbox))
  PROVE  Stops'
<1>1. LetsLast(inbox') /\ Up
  BY Received
<1>2. inbox \in Seq(FromFrontend) /\ inbox # <<>> /\ inbox' = Tail(inbox)
  BY Received
<1>3. /\ Has(inbox', "eval") => Has(inbox, "eval")
      /\ HasLet(inbox') => HasLet(inbox)
      /\ Lets(Head(inbox)) => HasLet(inbox)
  BY <1>2, HasTail
<1>4. Lets(Head(inbox)) => ~HasLet(inbox') /\ ~Has(inbox', "eval")
  BY <1>1, <1>2, OrderTail DEF IInv, Stops, Up
<1>5. CASE Lets(Head(inbox))
  BY <1>1, <1>3, <1>4, <1>5 DEF IInv, Stops, Up
<1>6. CASE ~Lets(Head(inbox))
  BY <1>1, <1>3, <1>6 DEF IInv, Stops, Up
<1> QED
  BY <1>5, <1>6

LEMMA ReceivedUpdates ==
  ASSUME IInv, NEW kind, Receive(kind), kind # "breakpoints",
         UNCHANGED <<attached, wanted, sock, breakpoints>>,
         kind # "connect" => ~Linking(Msgr'),
         \A ls : Latest(pending, ls) => Latest(pending', ls),
         ~Has(pending, "breakpoints") => ~Has(pending', "breakpoints")
  PROVE  Updates'
<1>1. /\ inbox \in Seq(FromFrontend) /\ inbox # <<>> /\ inbox' = Tail(inbox)
      /\ Head(inbox).kind = kind /\ Up /\ ~Has(inbox', "connect")
      /\ kind = "connect" => ~Joined
  BY Received
<1>2. \A ls : Latest(inbox, ls) => Latest(inbox', ls)
  BY <1>1, LatestTail
<1>3. ~Has(inbox, "breakpoints") => ~Has(inbox', "breakpoints")
  BY <1>1, HasTail
<1>4. Joined => Joined'
  BY <1>1 DEF Joined, Up
<1> QED
  BY <1>2, <1>3, <1>4 DEF IInv, Updates

LEMMA AppendPushes ==
  ASSUME NEW q \in Seq(Frame), NEW f \in Frame
  PROVE  Pushed(q, Append(q, f), f)
BY AppendOf DEF Pushed

\* The Reply to a message, and the wakeup of the Lua thread.
LEMMA Replied ==
  ASSUME IInv, NEW kind, Receive(kind),
         NEW s, s = [stack EXCEPT !["msgr"] = Append(@, Reply)],
         stack' = s \/ stack' = Notify(s)
  PROVE  /\ Stacks' /\ Handles(Msgr, Msgr') /\ Live(Msgr') /\ ~Linking(Msgr')
         /\ Moves(Lua, Lua') /\ Keeps(Lua, Lua')
<1>1. Stacks /\ Lua \in Seq(Frame)
  BY DEF IInv, TypeOK, Stacks, Lua, Threads
<1>2. Reply \in Frame /\ Sending(Reply, "result")
  BY Labels, LuaDebuggerAssumption DEF Reply, Sending
<1>3. s \in [Threads -> Seq(Frame)] /\ s["msgr"] = Append(Msgr, Reply) /\ s["lua"] = Lua
  BY <1>1, <1>2 DEF Stacks, Threads, Msgr, Lua
<1>4. Stacks' /\ Msgr' = Append(Msgr, Reply) /\ Woken(Lua, Lua')
  BY <1>3, Notified DEF Stacks, Lua, Msgr, Woken
<1>5. /\ Msgr \in Seq(Frame) /\ Len(Msgr) = 1 /\ Msgr[1].at = "recv"
      /\ Live(Msgr) /\ ~Linking(Msgr)
  BY Received
<1>6. Pushed(Msgr, Msgr', Reply)
  <2>1. Pushed(Msgr, Append(Msgr, Reply), Reply)
    BY <1>2, <1>5, AppendPushes
  <2> QED
    BY <1>4, <2>1
<1>7. Handles(Msgr, Msgr')
  BY <1>2, <1>5, <1>6, MsgrPush DEF IInv
<1>8. Moves(Lua, Lua') /\ Keeps(Lua, Lua')
  BY <1>1, <1>4, LuaWoken DEF IInv
<1> QED
  BY <1>4, <1>5, <1>7, <1>8 DEF Handles

LEMMA FramesAbove ==
  ASSUME NEW q \in Seq(Frame), NEW fs \in Seq(Frame)
  PROVE  /\ q \o fs \in Seq(Frame) /\ Len(q \o fs) = Len(q) + Len(fs)
         /\ \A i \in 1 .. Len(q) : (q \o fs)[i] = q[i]
         /\ \A i \in 1 .. Len(fs) : (q \o fs)[Len(q) + i] = fs[i]
OBVIOUS

LEMMA HandleConnectMessageKeeps == ASSUME IInv, HandleConnectMessage PROVE IInv'
<1> DEFINE a == Stamped("ready", 0)
           d == Stamped("connected", 0)
           fs == <<a, Fr("attach"), Fr("enable"), d>>
<1>1. Receive("connect") /\ stack' = [stack EXCEPT !["msgr"] = @ \o fs]
  BY DEF HandleConnectMessage, Calls
<1>2. /\ Msgr \in Seq(Frame) /\ Len(Msgr) = 1 /\ Msgr[1].at = "recv" /\ ~Detaching(Msgr)
      /\ inbox' \in Seq(FromFrontend) /\ ~Joined
  BY <1>1, Received
<1>u. UNCHANGED <<sock, wire, breakpoints, pending, paused, request,
                  attached, stopped, evals, wanted>>
  BY DEF HandleConnectMessage, script, halt, frontend
<1>3. /\ a \in Frame /\ d \in Frame /\ Fr("attach") \in Frame /\ Fr("enable") \in Frame
      /\ Awaiting(a, "ready") /\ Sending(d, "connected")
      /\ Fr("attach").at = "attach" /\ Fr("enable").at = "enable"
  BY Labels, LuaDebuggerAssumption DEF Awaiting, Sending
<1> HIDE DEF a, d
<1>4. /\ fs \in Seq(Frame) /\ Len(fs) = 4
      /\ fs[1] = a /\ fs[2] = Fr("attach") /\ fs[3] = Fr("enable") /\ fs[4] = d
  BY <1>3
<1> HIDE DEF fs
<1>5. Stacks' /\ Msgr' = Msgr \o fs /\ Lua' = Lua
  <2>1. stack \in [Threads -> Seq(Frame)] /\ Msgr \o fs \in Seq(Frame)
    BY <1>2, <1>4, FramesAbove DEF IInv, TypeOK
  <2>2. stack' = [stack EXCEPT !["msgr"] = Msgr \o fs]
    BY <1>1 DEF Msgr
  <2> QED
    BY <2>1, <2>2 DEF Stacks, Lua, Msgr, Threads
<1>6. /\ Len(Msgr') = 5 /\ Msgr'[1] = Msgr[1] /\ Msgr'[2] = a /\ Msgr'[3] = Fr("attach")
      /\ Msgr'[4] = Fr("enable") /\ Msgr'[5] = d
  <2> DEFINE r == Msgr \o fs
  <2>1. /\ Len(r) = Len(Msgr) + Len(fs)
        /\ \A i \in 1 .. Len(Msgr) : r[i] = Msgr[i]
        /\ \A i \in 1 .. Len(fs) : r[Len(Msgr) + i] = fs[i]
    BY <1>2, <1>4, FramesAbove
  <2> HIDE DEF r
  <2>2. 1 \in 1 .. Len(Msgr) /\ \A i \in 1 .. 4 : r[1 + i] = fs[i]
    BY <1>2, <1>4, <2>1
  <2>3. Len(r) = 5 /\ r[1] = Msgr[1]
    BY <1>2, <1>4, <2>1, <2>2
  <2>4. r[2] = fs[1] /\ r[3] = fs[2] /\ r[4] = fs[3] /\ r[5] = fs[4]
    BY <2>2
  <2> QED
    BY <1>4, <1>5, <2>3, <2>4 DEF r
<1>7. MsgrStack(Msgr') /\ Linking(Msgr')
  BY <1>2, <1>3, <1>6 DEF MsgrStack, Linking
<1>8. Live(Msgr')
  BY <1>2, <1>3, <1>6 DEF Live, Quiet, Awaiting, Sending
<1>9. TypeOK'
  BY <1>2, <1>5 DEF HandleConnectMessage, IInv, TypeOK, Stacks, script, halt, frontend
<1>10. Linked'
  BY <1>1, <1>5, <1>7, <1>8, <1>u, ReceivedLinked
<1>11. Stops'
  BY <1>1, <1>5, <1>u, ReceivedStops DEF Resting
<1>12. Updates'
  BY <1>1, <1>u, ReceivedUpdates
<1>13. Announces' /\ Queued' /\ LuaStack(Lua)' /\ MsgrStack(Msgr)'
  BY <1>2, <1>5, <1>7, <1>u DEF IInv, Announces, Queued, Has
<1>14. EvalsAccounted'
  <2>1. /\ inbox \in Seq(FromFrontend) /\ inbox # <<>> /\ inbox' = Tail(inbox)
        /\ Head(inbox).kind = "connect"
    BY <1>1, Received
  <2>2. \A e : Carries(inbox, "eval", e) => Carries(inbox', "eval", e)
    BY <2>1, HasTail
  <2>3. \A e : InFlightNow(e) => InFlightNow(e)'
    BY <1>5, <1>u, <2>2 DEF InFlightNow
  <2> QED
    BY <1>9, <1>u, <2>3, AccountedBy DEF IInv
<1> QED
  BY <1>9, <1>10, <1>11, <1>12, <1>13, <1>14 DEF IInv

LEMMA HandleUpdateSettingsKeeps == ASSUME IInv, HandleUpdateSettings PROVE IInv'
<1>1. Receive("settings") /\ stack' = [stack EXCEPT !["msgr"] = @ \o <<Reply>>]
  BY DEF HandleUpdateSettings, Calls
<1>2. /\ inbox' \in Seq(FromFrontend) /\ ~Detaching(Msgr) /\ Head(inbox) \in FromFrontend
      /\ Head(inbox).kind = "settings"
  BY <1>1, Received
<1>u. UNCHANGED <<sock, wire, breakpoints, pending, paused, request,
                  attached, stopped, evals, wanted>>
  BY DEF HandleUpdateSettings, halt, frontend
<1>3. /\ Stacks' /\ Handles(Msgr, Msgr') /\ Live(Msgr') /\ ~Linking(Msgr') /\ Lua' = Lua
  <2>1. Msgr \in Seq(Frame) /\ Len(Msgr) = 1 /\ Msgr[1].at = "recv" /\ Live(Msgr) /\ ~Linking(Msgr)
    BY <1>1, Received
  <2>2. Reply \in Frame /\ Sending(Reply, "result")
    BY Labels, LuaDebuggerAssumption DEF Reply, Sending
  <2>3. Stacks' /\ Pushed(Msgr, Msgr', Reply) /\ Lua' = Lua
    BY <2>2, MsgrCalls DEF HandleUpdateSettings, IInv
  <2>4. Handles(Msgr, Msgr')
    BY <2>1, <2>2, <2>3, MsgrPush DEF IInv
  <2> QED
    BY <2>1, <2>3, <2>4 DEF Handles
<1>4. TypeOK'
  <2>1. breakOn' \subseteq Config
    BY <1>2 DEF HandleUpdateSettings, FromFrontend, Action
  <2> QED
    BY <1>2, <1>3, <2>1 DEF HandleUpdateSettings, IInv, TypeOK, Stacks, halt, frontend
<1>5. Linked'
  BY <1>1, <1>3, <1>u, ReceivedLinked
<1>6. Stops'
  BY <1>1, <1>3, <1>u, ReceivedStops DEF Resting
<1>7. Updates'
  BY <1>1, <1>3, <1>u, ReceivedUpdates
<1>8. Announces' /\ Queued' /\ LuaStack(Lua)' /\ MsgrStack(Msgr)'
  BY <1>2, <1>3, <1>u DEF IInv, Announces, Queued, Has, Handles
<1>9. EvalsAccounted'
  <2>1. /\ inbox \in Seq(FromFrontend) /\ inbox # <<>> /\ inbox' = Tail(inbox)
        /\ Head(inbox).kind = "settings"
    BY <1>1, Received
  <2>2. \A e : Carries(inbox, "eval", e) => Carries(inbox', "eval", e)
    BY <2>1, HasTail
  <2>3. \A e : InFlightNow(e) => InFlightNow(e)'
    BY <1>3, <1>u, <2>2 DEF InFlightNow
  <2> QED
    BY <1>4, <1>u, <2>3, AccountedBy DEF IInv
<1> QED
  BY <1>4, <1>5, <1>6, <1>7, <1>8, <1>9 DEF IInv

\* The update is in the queue before the Lua thread can see that it is not in the inbox.
LEMMA HandleSetBreakpointsKeeps == ASSUME IInv, HandleSetBreakpoints PROVE IInv'
<1> DEFINE m == Head(inbox)
           s == [stack EXCEPT !["msgr"] = Append(@, Reply)]
<1>1. Receive("breakpoints") /\ stack' = Notify(s) /\ pending' = Append(pending, m)
  BY DEF HandleSetBreakpoints
<1>2. /\ inbox \in Seq(FromFrontend) /\ inbox # <<>> /\ inbox' = Tail(inbox)
      /\ inbox' \in Seq(FromFrontend) /\ m \in FromFrontend /\ m.kind = "breakpoints"
      /\ ~Detaching(Msgr) /\ Joined /\ Up /\ ~Has(inbox', "connect")
  BY <1>1, Received
<1>3. m \in Action
  BY <1>2 DEF FromFrontend
<1>u. UNCHANGED <<sock, wire, breakpoints, paused, request, attached, stopped, evals, wanted>>
  BY DEF HandleSetBreakpoints, halt, frontend
<1>4. /\ Stacks' /\ Handles(Msgr, Msgr') /\ Live(Msgr') /\ ~Linking(Msgr')
      /\ Moves(Lua, Lua') /\ Keeps(Lua, Lua')
  BY <1>1, Replied
<1> HIDE DEF m, s
<1>5. /\ pending \in Seq(Action) /\ pending' \in Seq(Action)
      /\ \A k : Has(pending', k) <=> Has(pending, k) \/ m.kind = k
      /\ \A k, e : Carries(pending, k, e) => Carries(pending', k, e)
      /\ \A ls : m.lines = ls => Latest(pending', ls)
  BY <1>1, <1>2, <1>3, AppendOf, HasAppend, LatestAppend DEF IInv, TypeOK
<1>6. TypeOK'
  BY <1>2, <1>4, <1>5 DEF HandleSetBreakpoints, IInv, TypeOK, Stacks, halt, frontend
<1>7. Linked'
  BY <1>1, <1>4, <1>u, ReceivedLinked DEF Moves
<1>8. Stops'
  BY <1>1, <1>4, <1>u, ReceivedStops DEF Resting, Moves
<1>9. Announces' /\ Queued' /\ LuaStack(Lua)' /\ MsgrStack(Msgr)'
  BY <1>2, <1>4, <1>5, <1>u DEF IInv, Announces, Queued, Handles, Moves
<1>10. Updates'
  <2>1. Joined'
    BY <1>2, <1>4, <1>u DEF Joined, Up
  <2>2. Has(inbox, "breakpoints")
    BY <1>2, HasTail DEF m
  <2>3. \A ls : Latest(inbox, ls) => \/ Latest(inbox', ls)
                                     \/ m.lines = ls /\ ~Has(inbox', "breakpoints")
    BY <1>2, LatestTail DEF m
  <2> QED
    BY <1>5, <1>u, <2>1, <2>2, <2>3 DEF IInv, Updates
<1>11. EvalsAccounted'
  <2>1. \A e : Carries(inbox, "eval", e) => Carries(inbox', "eval", e)
    BY <1>2, HasTail DEF m
  <2>2. \A e : InFlightNow(e) => InFlightNow(e)'
    BY <1>4, <1>5, <1>u, <2>1 DEF InFlightNow, Keeps
  <2> QED
    BY <1>6, <1>u, <2>2, AccountedBy DEF IInv
<1> QED
  BY <1>6, <1>7, <1>8, <1>9, <1>10, <1>11 DEF IInv

\* Whoever asks for an evaluation sees a script that waits.
LEMMA HandleEvaluateKeeps == ASSUME IInv, HandleEvaluate PROVE IInv'
<1> DEFINE m == Head(inbox)
<1>1. Receive("eval") /\ stack' = Notify(stack) /\ pending' = Append(pending, m)
  BY DEF HandleEvaluate
<1>2. /\ inbox \in Seq(FromFrontend) /\ inbox # <<>> /\ inbox' = Tail(inbox)
      /\ inbox' \in Seq(FromFrontend) /\ m \in FromFrontend /\ m.kind = "eval"
      /\ ~Detaching(Msgr) /\ Up /\ Live(Msgr) /\ ~Linking(Msgr)
  BY <1>1, Received
<1>3. m \in Action
  BY <1>2 DEF FromFrontend
<1>u. UNCHANGED <<sock, wire, breakpoints, paused, request, attached, stopped, evals, wanted>>
  BY DEF HandleEvaluate, halt, frontend
<1>4. /\ Stacks' /\ Msgr' = Msgr /\ Moves(Lua, Lua') /\ Keeps(Lua, Lua')
  <2>1. stack \in [Threads -> Seq(Frame)] /\ Lua \in Seq(Frame)
    BY DEF IInv, TypeOK, Lua, Threads
  <2>2. Stacks' /\ Msgr' = Msgr /\ Woken(Lua, Lua')
    BY <1>1, <2>1, Notified DEF Stacks, Lua, Msgr
  <2> QED
    BY <2>1, <2>2, LuaWoken DEF IInv
<1> HIDE DEF m
<1>5. /\ pending \in Seq(Action) /\ pending' \in Seq(Action)
      /\ \A k : Has(pending', k) <=> Has(pending, k) \/ m.kind = k
      /\ \A k, e : Carries(pending', k, e) <=> Carries(pending, k, e) \/ (m.kind = k /\ m.re = e)
      /\ \A ls : Latest(pending, ls) => Latest(pending', ls)
  BY <1>1, <1>2, <1>3, AppendOf, HasAppend, LatestAppend DEF IInv, TypeOK
<1>6. TypeOK'
  BY <1>2, <1>4, <1>5 DEF HandleEvaluate, IInv, TypeOK, Stacks, halt, frontend
<1>7. Linked'
  BY <1>1, <1>2, <1>4, <1>u, ReceivedLinked DEF Moves
<1>8. Stops'
  BY <1>1, <1>4, <1>u, ReceivedStops DEF Resting, Moves
<1>9. Updates'
  BY <1>1, <1>2, <1>4, <1>5, <1>u, ReceivedUpdates
<1>10. Announces' /\ Queued' /\ LuaStack(Lua)' /\ MsgrStack(Msgr)'
  <2>1. Has(inbox, "eval")
    BY <1>2, HasTail DEF m
  <2>2. Holding(Lua)
    BY <1>2, <2>1 DEF IInv, Stops, Resting, Waiting
  <2> QED
    BY <1>2, <1>4, <1>u, <2>2 DEF IInv, Announces, Queued, Moves
<1>11. EvalsAccounted'
  <2>1. \A e : Carries(inbox, "eval", e) => m.re = e \/ Carries(inbox', "eval", e)
    BY <1>2, HasTail DEF m
  <2>2. \A e : InFlightNow(e) => InFlightNow(e)'
    BY <1>2, <1>4, <1>5, <1>u, <2>1 DEF InFlightNow, Keeps
  <2> QED
    BY <1>6, <1>u, <2>2, AccountedBy DEF IInv
<1> QED
  BY <1>6, <1>7, <1>8, <1>9, <1>10, <1>11 DEF IInv

LEMMA HandleContinueKeeps == ASSUME IInv, HandleContinue PROVE IInv'
<1> DEFINE m == Head(inbox)
           s == [stack EXCEPT !["msgr"] = Append(@, Reply)]
           fits == paused = (m.action # "pause")
<1>1. /\ Receive("continue") /\ (stack' = s \/ stack' = Notify(s))
      /\ request' = IF fits THEN m.action # "go" ELSE request
      /\ maxDepth' = IF fits THEN Depths[m.action] ELSE maxDepth
      /\ paused' = (paused /\ ~fits)
  BY DEF HandleContinue
<1>2. /\ inbox \in Seq(FromFrontend) /\ inbox # <<>> /\ inbox' = Tail(inbox)
      /\ inbox' \in Seq(FromFrontend) /\ m \in FromFrontend /\ m.kind = "continue"
      /\ ~Detaching(Msgr) /\ Up /\ Live(Msgr) /\ ~Linking(Msgr)
  BY <1>1, Received
<1>3. m.action \in Actions
  BY <1>2 DEF FromFrontend, Action
<1>u. UNCHANGED <<sock, wire, breakpoints, pending, attached, stopped, evals, wanted>>
  BY DEF HandleContinue, script, frontend
<1>4. /\ Stacks' /\ Handles(Msgr, Msgr') /\ Live(Msgr') /\ ~Linking(Msgr')
      /\ Moves(Lua, Lua') /\ Keeps(Lua, Lua')
  BY <1>1, Replied
<1>p. paused \in BOOLEAN /\ request \in BOOLEAN
  BY DEF IInv, TypeOK
<1>5. TypeOK'
  <2>1. maxDepth' \in -1 .. AnyDepth
    <3>1. /\ maxDepth \in -1 .. AnyDepth /\ depth \in 0 .. MaxDepth /\ MaxDepth \in Nat
      BY LuaDebuggerAssumption DEF IInv, TypeOK
    <3>2. Depths[m.action] \in -1 .. AnyDepth
      BY <1>3, <3>1 DEF Depths, Actions, AnyDepth
    <3> QED
      BY <1>1, <3>1, <3>2
  <2>2. request' \in BOOLEAN /\ paused' \in BOOLEAN
    BY <1>1, <1>p
  <2> QED
    BY <1>2, <1>4, <2>1, <2>2 DEF HandleContinue, IInv, TypeOK, Stacks, script, frontend
<1>l. Lets(m) => Resting
  <2>1. Lets(m) => HasLet(inbox)
    BY <1>2, HasTail
  <2> QED
    BY <1>2, <2>1 DEF IInv, Stops
<1>6. Linked'
  BY <1>1, <1>4, <1>u, ReceivedLinked DEF Moves
<1>7. Stops'
  <2>1. ~Lets(m) => paused' = paused
    BY <1>1, <1>2, <1>p DEF Lets
  <2>2. Resting => Resting' \/ Lets(m)
    BY <1>4, <2>1 DEF Resting, Moves
  <2> QED
    BY <1>1, <1>u, <2>2, ReceivedStops
<1>8. Updates'
  BY <1>1, <1>4, <1>u, ReceivedUpdates
<1>9. Announces'
  <2>1. Clearing(Lua) => Announced(Lua)
    BY DEF IInv, Clearing, Announced, LuaStack, Announcing, Evaluating, Off, Awaiting, Sending
  <2>2. Announced(Lua) => paused /\ ~Resting
    BY <1>2 DEF IInv, Announces, Announced, Resting, Waiting
  <2>3. Announced(Lua) => paused' = TRUE
    <3> SUFFICES ASSUME Announced(Lua) PROVE paused' = TRUE
      OBVIOUS
    <3>1. ~Lets(m) /\ paused
      BY <1>l, <2>2
    <3>2. m.action = "pause"
      BY <1>2, <3>1 DEF Lets
    <3> QED
      BY <1>1, <1>p, <3>1, <3>2
  <2> QED
    BY <1>4, <2>1, <2>3 DEF Announces, Moves
<1>10. Queued' /\ LuaStack(Lua)' /\ MsgrStack(Msgr)'
  BY <1>4, <1>u DEF IInv, Queued, Has, Moves, Handles
<1>11. EvalsAccounted'
  <2>1. \A e : Carries(inbox, "eval", e) => Carries(inbox', "eval", e)
    BY <1>2, HasTail
  <2>2. \A e : InFlightNow(e) => InFlightNow(e)'
    BY <1>4, <1>u, <2>1 DEF InFlightNow, Keeps
  <2> QED
    BY <1>5, <1>u, <2>2, AccountedBy DEF IInv
<1> QED
  BY <1>5, <1>6, <1>7, <1>8, <1>9, <1>10, <1>11 DEF IInv

-----------------------------------------------------------------------------
(* The frontend.                                                            *)

LEMMA LaunchKeeps == ASSUME IInv, Launch PROVE IInv'
<1> DEFINE m == [kind |-> "connect"]
<1>u. /\ UNCHANGED <<stack, breakpoints, pending, paused, request>>
      /\ Lua' = Lua /\ Msgr' = Msgr
      /\ attached' = TRUE /\ stopped' = FALSE /\ evals' = {} /\ wanted' = {}
      /\ sock' = "backlog" /\ inbox' = <<m>> /\ wire' = <<>>
  BY DEF Launch, script, halt, Lua, Msgr
<1>1. m \in FromFrontend /\ m.kind = "connect"
  BY DEF FromFrontend
<1>2. TypeOK'
  <2>1. inbox' \in Seq(FromFrontend) /\ wire' \in Seq(ToFrontend)
    BY <1>1, <1>u
  <2>2. sessions' \in 0 .. MaxSessions
    BY LuaDebuggerAssumption DEF Launch, IInv, TypeOK
  <2>3. expected' \in Nat /\ wanted' \subseteq SUBSET Lines /\ evals' \subseteq 1 .. MaxRequests
    BY DEF Launch
  <2> QED
    BY <1>u, <2>1, <2>2, <2>3 DEF Launch, IInv, TypeOK, script, halt
<1> HIDE DEF m
<1>3. Len(inbox') = 1 /\ inbox'[1] = m /\ inbox' # <<>> /\ Len(wire') = 0
  BY <1>u
<1>4. Linked'
  BY <1>1, <1>3, <1>u DEF Linked, Joined, Up, ConnectFirst, Has, HasLet, Lets
<1>5. Stops'
  BY <1>1, <1>3, <1>u DEF Stops, Up, OneStop, LetsLast, Has, HasLet, Lets
<1>6. Updates' /\ EvalsAccounted'
  BY <1>u DEF Updates, EvalsAccounted
<1>7. Announces' /\ Queued' /\ LuaStack(Lua)' /\ MsgrStack(Msgr)'
  BY <1>u DEF IInv, Announces, Queued, Has
<1> QED
  BY <1>2, <1>4, <1>5, <1>6, <1>7 DEF IInv

\* The frontend's process ends.
LEMMA ExitKeeps ==
  ASSUME IInv, TypeOK', sock = "open", sock' \in {"fin", "rst"},
         attached' = FALSE, wire' = <<>>,
         UNCHANGED <<stack, inbox, pending, paused, request>>
  PROVE  IInv'
<1>1. Lua' = Lua /\ Msgr' = Msgr /\ Len(wire') = 0
  BY DEF Lua, Msgr
<1>2. Linked'
  BY <1>1 DEF IInv, Linked, Joined, Up
<1>3. Stops'
  <2>1. OneStop(wire')
    BY <1>1 DEF OneStop
  <2> QED
    BY <1>1, <2>1 DEF IInv, Stops, Up, Resting
<1>4. Updates' /\ EvalsAccounted'
  BY DEF Updates, EvalsAccounted
<1>5. Announces' /\ Queued' /\ LuaStack(Lua)' /\ MsgrStack(Msgr)'
  BY <1>1 DEF IInv, Announces, Queued, Has
<1> QED
  BY <1>2, <1>3, <1>4, <1>5 DEF IInv

LEMMA QuitKeeps == ASSUME IInv, Quit PROVE IInv'
<1>1. /\ sock = "open" /\ sock' \in {"fin", "rst"} /\ attached' = FALSE /\ wire' = <<>>
      /\ UNCHANGED <<stack, inbox, pending, paused, request>>
  BY DEF Quit, Exit, script, halt
<1>2. TypeOK'
  <2>1. <<>> \in Seq(ToFrontend)
    OBVIOUS
  <2>2. wire' \in Seq(ToFrontend)
    BY <1>1, <2>1
  <2> QED
    BY <1>1, <2>2 DEF Quit, Exit, IInv, TypeOK, script, halt
<1> QED
  BY <1>1, <1>2, ExitKeeps

\* Where the connection is while the frontend is there.
LEMMA Asked ==
  ASSUME IInv, NEW m \in FromFrontend, Ask(m), m.kind # "connect"
  PROVE  /\ Lua' = Lua /\ Msgr' = Msgr /\ attached
         /\ sock \in {"backlog", "open"} /\ inbox' \in Seq(FromFrontend)
         /\ requests' \in 1 .. MaxRequests
         /\ \A k : Has(inbox', k) <=> Has(inbox, k) \/ m.kind = k
         /\ HasLet(inbox') <=> HasLet(inbox) \/ Lets(m)
         /\ \A k, e : Carries(inbox', k, e) <=> Carries(inbox, k, e) \/ (m.kind = k /\ m.re = e)
         /\ ConnectFirst(inbox')
         /\ (HasLet(inbox) => ~Lets(m) /\ m.kind # "eval") => LetsLast(inbox')
         /\ sock = "backlog" => inbox' # <<>> /\ inbox'[1].kind = "connect"
         /\ Joined' <=> Joined
         /\ \A ls : Latest(inbox, ls) /\ m.kind # "breakpoints" => Latest(inbox', ls)
         /\ Announces' /\ Queued' /\ LuaStack(Lua)' /\ MsgrStack(Msgr)'
<1>1. inbox \in Seq(FromFrontend) /\ inbox' = Append(inbox, m)
  BY DEF Ask, IInv, TypeOK
<1>u. /\ Lua' = Lua /\ Msgr' = Msgr /\ attached
      /\ UNCHANGED <<sock, wire, breakpoints, pending, paused, request, attached>>
  BY DEF Ask, Lua, Msgr, script, halt
<1>2. sock \in {"backlog", "open"}
  BY <1>u DEF IInv, Linked
<1>3. requests' \in 1 .. MaxRequests
  BY LuaDebuggerAssumption DEF Ask, IInv, TypeOK
<1>4. /\ inbox' \in Seq(FromFrontend)
      /\ \A k : Has(inbox', k) <=> Has(inbox, k) \/ m.kind = k
      /\ HasLet(inbox') <=> HasLet(inbox) \/ Lets(m)
      /\ \A k, e : Carries(inbox', k, e) <=> Carries(inbox, k, e) \/ (m.kind = k /\ m.re = e)
  BY <1>1, HasAppend, AppendOf
<1>5. ConnectFirst(inbox') /\ ((HasLet(inbox) => ~Lets(m) /\ m.kind # "eval") => LetsLast(inbox'))
  <2>1. ConnectFirst(inbox) /\ LetsLast(inbox)
    BY <1>2 DEF IInv, Linked, Stops
  <2> QED
    BY <1>1, <2>1, OrderAppend
<1>6. sock = "backlog" => inbox' # <<>> /\ inbox'[1].kind = "connect"
  <2>1. sock = "backlog" => inbox # <<>> /\ inbox[1].kind = "connect"
    BY DEF IInv, Linked
  <2>2. inbox # <<>> => inbox' # <<>> /\ inbox'[1] = inbox[1]
    BY <1>1
  <2> QED
    BY <2>1, <2>2
<1>7. Joined' <=> Joined
  BY <1>4, <1>u DEF Joined, Up
<1>8. \A ls : Latest(inbox, ls) /\ m.kind # "breakpoints" => Latest(inbox', ls)
  BY <1>1, LatestAppend
<1>9. Announces' /\ Queued' /\ LuaStack(Lua)' /\ MsgrStack(Msgr)'
  BY <1>u DEF IInv, Announces, Queued, Has
<1> QED
  BY <1>2, <1>3, <1>4, <1>5, <1>6, <1>7, <1>8, <1>9, <1>u

\* A request that is neither an update nor an evaluation.
LEMMA AskUpdates ==
  ASSUME IInv, NEW m \in FromFrontend, Ask(m), m.kind \notin {"connect", "breakpoints"},
         wanted' = wanted
  PROVE  Updates'
<1>1. /\ \A ls : Latest(inbox, ls) => Latest(inbox', ls)
      /\ Has(inbox', "breakpoints") <=> Has(inbox, "breakpoints")
      /\ Joined' <=> Joined
  BY Asked
<1>2. UNCHANGED <<pending, breakpoints, attached>>
  BY DEF Ask, script
<1> QED
  BY <1>1, <1>2 DEF IInv, Updates

LEMMA AskAccounted ==
  ASSUME IInv, TypeOK', NEW m \in FromFrontend, Ask(m), m.kind # "connect",
         \A e \in evals' : e \in evals \/ (m.kind = "eval" /\ m.re = e)
  PROVE  EvalsAccounted'
<1>1. /\ \A k, e : Carries(inbox', k, e) <=> Carries(inbox, k, e) \/ (m.kind = k /\ m.re = e)
      /\ Lua' = Lua /\ attached
  BY Asked
<1>2. UNCHANGED <<pending, wire>>
  BY DEF Ask, script
<1>3. \A e \in evals : InFlightNow(e)
  BY <1>1, InFlightIs DEF IInv, EvalsAccounted
<1>4. \A e \in evals' : InFlightNow(e)'
  BY <1>1, <1>2, <1>3 DEF InFlightNow
<1>5. (TypeOK => \A e : InFlight(e) <=> InFlightNow(e))'
  BY InFlightIs, PTL
<1> QED
  BY <1>4, <1>5 DEF EvalsAccounted

LEMMA RequestPauseKeeps == ASSUME IInv, RequestPause PROVE IInv'
<1> DEFINE m == [kind |-> "continue", action |-> "pause"]
<1>1. m \in FromFrontend /\ m.kind = "continue" /\ ~Lets(m) /\ m.kind # "connect"
      /\ m.kind \notin {"breakpoints", "eval"}
  BY DEF FromFrontend, Actions, Lets
<1>2. Ask(m) /\ UNCHANGED <<stopped, evals, wanted>>
  BY DEF RequestPause
<1> HIDE DEF m
<1>3. UNCHANGED <<sock, wire, paused, attached>>
  BY <1>2 DEF Ask, halt
<1>4. TypeOK'
  BY <1>1, <1>2, Asked DEF Ask, IInv, TypeOK, script, halt
<1>5. Linked'
  BY <1>1, <1>2, <1>3, Asked DEF IInv, Linked, Up
<1>6. Stops'
  BY <1>1, <1>2, <1>3, Asked DEF IInv, Stops, Resting, Up
<1> QED
  BY <1>1, <1>2, <1>4, <1>5, <1>6, Asked, AskUpdates, AskAccounted DEF IInv

LEMMA RequestContinueKeeps ==
  ASSUME IInv, NEW action \in {"go", "over", "into", "out"}, RequestContinue(action)
  PROVE  IInv'
<1> DEFINE m == [kind |-> "continue", action |-> action]
<1>1. m \in FromFrontend /\ m.kind = "continue" /\ Lets(m)
      /\ m.kind \notin {"connect", "breakpoints", "eval"}
  BY DEF FromFrontend, Actions, Lets
<1>2. Ask(m) /\ stopped /\ stopped' = FALSE /\ UNCHANGED <<evals, wanted>>
  BY DEF RequestContinue
<1> HIDE DEF m
<1>3. UNCHANGED <<sock, wire, paused, attached>>
  BY <1>2 DEF Ask, halt
<1>4. TypeOK'
  <2>1. inbox' \in Seq(FromFrontend) /\ requests' \in 0 .. MaxRequests
    BY <1>1, <1>2, Asked
  <2>2. stopped' \in BOOLEAN
    BY <1>2
  <2> QED
    BY <1>2, <2>1, <2>2 DEF Ask, IInv, TypeOK, script, halt
<1>5. attached /\ sock = "open" /\ ~HasLet(inbox) /\ Resting /\ ~Has(wire, "stop")
  BY <1>1, <1>2, Asked DEF IInv, Linked, Stops
<1>6. Linked'
  BY <1>1, <1>2, <1>3, <1>5, Asked DEF IInv, Linked, Up
<1>7. Stops'
  BY <1>1, <1>2, <1>3, <1>5, Asked DEF IInv, Stops, Resting, Up
<1> QED
  BY <1>1, <1>2, <1>4, <1>6, <1>7, Asked, AskUpdates, AskAccounted DEF IInv

LEMMA RequestBreakpointsKeeps ==
  ASSUME IInv, NEW ls \in SUBSET Lines, RequestBreakpoints(ls)
  PROVE  IInv'
<1> DEFINE m == [kind |-> "breakpoints", lines |-> ls]
<1>1. m \in FromFrontend /\ m.kind = "breakpoints" /\ ~Lets(m) /\ m.lines = ls
      /\ m.kind \notin {"connect", "eval"}
  BY DEF FromFrontend, Action, Lets
<1>2. Ask(m) /\ wanted' = {ls} /\ UNCHANGED <<stopped, evals>>
  BY DEF RequestBreakpoints
<1> HIDE DEF m
<1>3. UNCHANGED <<sock, wire, paused, attached>> /\ inbox' = Append(inbox, m)
  BY <1>2 DEF Ask, halt
<1>4. TypeOK'
  <2>1. wanted' \subseteq SUBSET Lines
    BY <1>2
  <2>2. inbox' \in Seq(FromFrontend) /\ requests' \in 0 .. MaxRequests
    BY <1>1, <1>2, Asked
  <2> QED
    BY <1>2, <2>1, <2>2 DEF Ask, IInv, TypeOK, script, halt
<1>5. Linked'
  BY <1>1, <1>2, <1>3, Asked DEF IInv, Linked, Up
<1>6. Stops'
  BY <1>1, <1>2, <1>3, Asked DEF IInv, Stops, Resting, Up
<1>7. Updates'
  BY <1>1, <1>2, <1>3, LatestAppend DEF IInv, TypeOK, Updates
<1> QED
  BY <1>1, <1>2, <1>4, <1>5, <1>6, <1>7, Asked, AskAccounted DEF IInv

LEMMA RequestEvaluateKeeps ==
  ASSUME IInv, NEW raises \in Raising, RequestEvaluate(raises)
  PROVE  IInv'
<1> DEFINE m == [kind |-> "eval", re |-> requests + 1, raises |-> raises]
<1>0. requests + 1 \in 1 .. MaxRequests
  BY LuaDebuggerAssumption DEF RequestEvaluate, Ask, IInv, TypeOK
<1>1. m \in FromFrontend /\ m.kind = "eval" /\ ~Lets(m) /\ m.re = requests + 1
      /\ m.kind \notin {"connect", "breakpoints"}
  BY <1>0 DEF FromFrontend, Action, Lets
<1>2. Ask(m) /\ stopped /\ evals' = evals \cup {m.re} /\ UNCHANGED <<stopped, wanted>>
  BY DEF RequestEvaluate
<1>m. m.re \in 1 .. MaxRequests
  BY <1>0, <1>1
<1> HIDE DEF m
<1>3. UNCHANGED <<sock, wire, paused, attached>>
  BY <1>2 DEF Ask, halt
<1>4. TypeOK'
  BY <1>1, <1>2, <1>m, Asked DEF Ask, IInv, TypeOK, script, halt
<1>5. attached /\ sock = "open" /\ ~HasLet(inbox) /\ Resting
  BY <1>1, <1>2, Asked DEF IInv, Linked, Stops
<1>6. Linked'
  BY <1>1, <1>2, <1>3, <1>5, Asked DEF IInv, Linked, Up
<1>7. Stops'
  BY <1>1, <1>2, <1>3, <1>5, Asked DEF IInv, Stops, Resting, Up
<1> QED
  BY <1>1, <1>2, <1>4, <1>6, <1>7, Asked, AskUpdates, AskAccounted DEF IInv

LEMMA MessageReceivedKeeps == ASSUME IInv, MessageReceived PROVE IInv'
<1> DEFINE m == Head(wire)
<1>1. /\ wire \in Seq(ToFrontend) /\ wire # <<>> /\ attached
      /\ m \in ToFrontend /\ Tail(wire) \in Seq(ToFrontend)
  BY TailOf DEF MessageReceived, IInv, TypeOK
<1>2. sock = "open"
  BY <1>1 DEF IInv, Linked
<1>u. /\ Lua' = Lua /\ Msgr' = Msgr
      /\ UNCHANGED <<stack, breakpoints, pending, paused, request, wanted>>
  BY DEF MessageReceived, script, halt, Lua, Msgr
<1>3. CASE Exit /\ UNCHANGED inbox
  <2>1. sock' \in {"fin", "rst"} /\ attached' = FALSE /\ wire' = <<>>
    BY <1>3 DEF Exit
  <2>2. TypeOK'
    <3>1. <<>> \in Seq(ToFrontend)
      OBVIOUS
    <3>2. wire' \in Seq(ToFrontend)
      BY <2>1, <3>1
    <3> QED
      BY <1>3, <2>1, <3>2 DEF MessageReceived, Exit, IInv, TypeOK, script, halt
  <2> QED
    BY <1>2, <1>3, <1>u, <2>1, <2>2, ExitKeeps
<1>4. CASE m.seq = expected
  <2> DEFINE n == [kind |-> "settings", on |-> Config]
  <2>n. n \in FromFrontend /\ n.kind = "settings" /\ ~Lets(n)
    BY DEF FromFrontend, Lets
  <2>1. /\ expected' = expected + 1 /\ wire' = Tail(wire)
        /\ stopped' = (stopped \/ m.kind = "stop")
        /\ evals' = IF m.kind = "answer" THEN evals \ {m.re} ELSE evals
        /\ inbox' = IF m.kind = "ready" THEN Append(inbox, n) ELSE inbox
        /\ UNCHANGED <<sock, attached>>
    BY <1>4 DEF MessageReceived
  <2> HIDE DEF m, n
  <2>2. TypeOK'
    <3>1. inbox' \in Seq(FromFrontend)
      BY <2>1, <2>n, AppendOf DEF IInv, TypeOK
    <3>2. stopped' \in BOOLEAN /\ expected' \in Nat /\ evals' \subseteq 1 .. MaxRequests
      <4>1. stopped \in BOOLEAN /\ expected \in Nat /\ evals \subseteq 1 .. MaxRequests
        BY DEF IInv, TypeOK
      <4>2. stopped' \in BOOLEAN /\ expected' \in Nat
        BY <2>1, <4>1
      <4>3. evals' \subseteq evals
        BY <2>1
      <4> QED
        BY <4>1, <4>2, <4>3
    <3>3. wire' \in Seq(ToFrontend)
      BY <1>1, <2>1
    <3> QED
      BY <2>1, <3>1, <3>2, <3>3 DEF MessageReceived, IInv, TypeOK, script, halt
  <2>3. /\ \A k : k # "settings" => (Has(inbox', k) <=> Has(inbox, k))
        /\ HasLet(inbox') <=> HasLet(inbox)
        /\ \A e : Carries(inbox', "eval", e) <=> Carries(inbox, "eval", e)
        /\ ConnectFirst(inbox') /\ LetsLast(inbox')
        /\ \A ls : Latest(inbox, ls) => Latest(inbox', ls)
    <3>1. ConnectFirst(inbox) /\ LetsLast(inbox) /\ inbox \in Seq(FromFrontend)
      BY <1>2 DEF IInv, Linked, Stops, TypeOK
    <3>2. CASE m.kind = "ready"
      <4>1. inbox' = Append(inbox, n)
        BY <2>1, <3>2
      <4> QED
        BY <2>n, <3>1, <4>1, HasAppend, OrderAppend, LatestAppend
    <3>3. CASE m.kind # "ready"
      BY <2>1, <3>1, <3>3
    <3> QED
      BY <3>2, <3>3
  <2>4. /\ \A k : Has(wire', k) => Has(wire, k)
        /\ \A k, e : Carries(wire, k, e) => (m.kind = k /\ m.re = e) \/ Carries(wire', k, e)
        /\ Has(wire, m.kind)
        /\ OneStop(wire') /\ (m.kind = "stop" => ~Has(wire', "stop"))
    BY <1>1, <2>1, HasTail, OrderTail DEF IInv, Stops, m
  <2>5. Linked'
    BY <1>2, <1>u, <2>1, <2>3 DEF IInv, Linked, Joined, Up
  <2>6. Stops'
    BY <1>1, <1>2, <1>u, <2>1, <2>3, <2>4 DEF IInv, Stops, Resting, Up
  <2>7. Updates'
    BY <1>u, <2>1, <2>3 DEF IInv, Updates, Joined, Up
  <2>8. Announces' /\ Queued' /\ LuaStack(Lua)' /\ MsgrStack(Msgr)'
    BY <1>u DEF IInv, Announces, Queued, Has
  <2>9. EvalsAccounted'
    <3>1. \A e \in evals' : e \in evals /\ (InFlightNow(e) => InFlightNow(e)')
      BY <1>u, <2>1, <2>3, <2>4 DEF InFlightNow
    <3> QED
      BY <1>1, <2>2, <3>1, AccountedBy DEF IInv
  <2> QED
    BY <2>2, <2>5, <2>6, <2>7, <2>8, <2>9 DEF IInv
<1> QED
  BY <1>3, <1>4 DEF MessageReceived

-----------------------------------------------------------------------------
(* The invariant.                                                           *)

LEMMA Starts == Init => IInv
<1> SUFFICES ASSUME Init PROVE IInv
  OBVIOUS
<1>1. stack = [t \in Threads |-> <<>>] /\ inbox = <<>> /\ wire = <<>> /\ pending = <<>>
      /\ sock = "none" /\ ~attached /\ ~paused /\ ~request
  BY DEF Init
<1>2. Lua = <<>> /\ Msgr = <<>> /\ Len(<<>>) = 0
  BY <1>1 DEF Lua, Msgr, Threads
<1>3. TypeOK
  <2>1. /\ <<>> \in Seq(Frame) /\ <<>> \in Seq(FromFrontend) /\ <<>> \in Seq(ToFrontend)
        /\ <<>> \in Seq(Action)
    OBVIOUS
  <2>2. stack \in [Threads -> Seq(Frame)]
    BY <1>1, <2>1
  <2>3. maxDepth \in -1 .. AnyDepth /\ depth \in 0 .. MaxDepth
    BY LuaDebuggerAssumption DEF Init, AnyDepth
  <2>4. pos \in [line : Lines \cup {0}, depth : 0 .. MaxDepth]
    BY LuaDebuggerAssumption DEF Init, Nowhere
  <2>5. sessions \in 0 .. MaxSessions /\ requests \in 0 .. MaxRequests
    BY LuaDebuggerAssumption DEF Init
  <2> QED
    BY <2>1, <2>2, <2>3, <2>4, <2>5 DEF Init, TypeOK
<1>4. LuaStack(Lua) /\ MsgrStack(Msgr)
  BY <1>2 DEF LuaStack, MsgrStack
<1>5. Linked
  BY <1>1 DEF Linked, Joined, Up
<1>6. Stops
  BY <1>1, <1>2 DEF Stops, Up, OneStop
<1>7. Announces /\ Queued /\ Updates /\ EvalsAccounted
  BY <1>1, <1>2 DEF Announces, Announced, Clearing, Queued, Has, Updates, EvalsAccounted
<1> QED
  BY <1>3, <1>4, <1>5, <1>6, <1>7 DEF IInv

LEMMA Stutters == ASSUME IInv, UNCHANGED vars PROVE IInv'
<1>1. UNCHANGED <<stack, sock, outSeq, ready, inbox, wire, hooked, breakpoints, pending,
                  breakOn, pos, paused, request, maxDepth, depth, attached, stopped,
                  expected, evals, wanted, sessions, requests>>
  BY DEF vars, link, script, halt, frontend
<1>2. Lua' = Lua /\ Msgr' = Msgr
  BY <1>1 DEF Lua, Msgr
<1>3. TypeOK'
  BY <1>1 DEF IInv, TypeOK
<1>4. Linked'
  BY <1>1, <1>2, LinkedKept DEF IInv
<1>5. Stops'
  BY <1>1, <1>2, StopsKept DEF IInv, Resting
<1>6. Updates'
  BY <1>1, <1>2, UpdatesKept DEF IInv
<1>7. EvalsAccounted'
  <2>1. Stacks' /\ Keeps(Lua, Lua')
    BY <1>1, <1>2 DEF IInv, TypeOK, Stacks, Keeps
  <2> QED
    BY <1>1, <2>1, AccountedKept DEF IInv
<1> QED
  BY <1>1, <1>2, <1>3, <1>4, <1>5, <1>6, <1>7 DEF IInv, Announces, Queued, Has

LEMMA Preserves == IInv /\ [Next]_vars => IInv'
<1> SUFFICES ASSUME IInv, [Next]_vars PROVE IInv'
  OBVIOUS
<1>1. CASE StartScript \/ EndScript \/ OnLuaHook
  BY <1>1, StartScriptKeeps, EndScriptKeeps, OnLuaHookKeeps
<1>2. CASE \E cause \in {"error", "generic", "DebugBreak"} : Break(cause)
  BY <1>2, BreakKeeps
<1>3. CASE LuaContinues
  <2>1. CASE ExecuteQueuedAction \/ Evaluate \/ EndHook \/ Look
    BY <2>1, ExecuteQueuedActionKeeps, EvaluateKeeps, EndHookKeeps, LookKeeps
  <2>2. CASE Pause \/ Clear \/ Lock \/ Decide \/ Block
    BY <2>2, PauseKeeps, ClearKeeps, LockKeeps, DecideKeeps, BlockKeeps
  <2> QED
    BY <1>3, <2>1, <2>2 DEF LuaContinues
<1>4. CASE SpuriousWakeup
  BY <1>4, SpuriousWakeupKeeps
<1>5. CASE MessagingThread
  <2>1. CASE Accept \/ Enable \/ Attach \/ ConnectionLost
    BY <2>1, AcceptKeeps, EnableKeeps, AttachKeeps, ConnectionLostKeeps
  <2>2. CASE Handle
    BY <2>2, HandleConnectMessageKeeps, HandleUpdateSettingsKeeps, HandleSetBreakpointsKeeps,
       HandleEvaluateKeeps, HandleContinueKeeps DEF Handle
  <2> QED
    BY <1>5, <2>1, <2>2 DEF MessagingThread
<1>6. CASE \E t \in Threads : SendOrDisconnect(t)
  <2>1. CASE SendOrDisconnect("lua")
    BY <2>1, StampLuaKeeps, SendLuaKeeps, DisableLuaKeeps, ReleaseLuaKeeps, DetachLuaKeeps
    DEF SendOrDisconnect
  <2>2. CASE SendOrDisconnect("msgr")
    BY <2>2, StampMsgrKeeps, SendMsgrKeeps, DisableMsgrKeeps, ReleaseMsgrKeeps, DetachMsgrKeeps
    DEF SendOrDisconnect
  <2> QED
    BY <1>6, <2>1, <2>2 DEF Threads
<1>7. CASE MessageReceived
  BY <1>7, MessageReceivedKeeps
<1>8. CASE User
  <2>1. CASE Launch \/ Quit \/ RequestPause
    BY <2>1, LaunchKeeps, QuitKeeps, RequestPauseKeeps
  <2>2. CASE \E a \in {"go", "over", "into", "out"} : RequestContinue(a)
    BY <2>2, RequestContinueKeeps
  <2>3. CASE \E ls \in SUBSET Lines : RequestBreakpoints(ls)
    BY <2>3, RequestBreakpointsKeeps
  <2>4. CASE \E r \in Raising : RequestEvaluate(r)
    BY <2>4, RequestEvaluateKeeps
  <2> QED
    BY <1>8, <2>1, <2>2, <2>3, <2>4 DEF User
<1>9. CASE UNCHANGED vars
  BY <1>9, Stutters
<1> QED
  BY <1>1, <1>2, <1>3, <1>4, <1>5, <1>6, <1>7, <1>8, <1>9 DEF Next

\* Every state of the debugger satisfies the inductive invariant: the two stacks, the
\* order of the messages of a connection, and what each side may take the other to do.
THEOREM Invariance == Spec => []IInv
BY Starts, Preserves, PTL DEF Spec

-----------------------------------------------------------------------------
(* The properties.                                                          *)

\* The state has its shape: in particular the depth a step is to stop at stays within the
\* depths that scripts have, whatever the order of steps, stops and disconnects.
THEOREM TypeCorrect == Spec => []TypeOK
<1>1. IInv => TypeOK
  BY DEF IInv
<1> QED
  BY Invariance, <1>1, PTL

\* While the frontend shows the script stopped, the Lua thread is held in TriggerBreakpoint
\* (LuaDebugger.cpp) and isPaused_ is on: no disconnect of an earlier frontend, no stale
\* message and no wakeup lets it go behind the user's back.
THEOREM StopsReal == Spec => []StopsAreReal
<1>1. IInv => StopsAreReal
  <2> SUFFICES ASSUME IInv, attached, stopped PROVE paused /\ Held
    BY DEF StopsAreReal
  <2>1. paused /\ Holding(Lua)
    BY DEF IInv, Stops, Resting, Waiting
  <2>2. Lua \in Seq(Frame)
    BY DEF IInv, TypeOK, Lua, Threads
  <2>3. 2 \in DOMAIN Lua /\ Lua[2].at \in {"lock", "wait", "block", "asleep"}
    BY <2>1, <2>2 DEF Holding
  <2> QED
    BY <2>1, <2>3 DEF Held, Lua
<1> QED
  BY Invariance, <1>1, PTL

\* An expression is evaluated only on a Lua thread that is in the wait: the hook, which
\* performs queued actions too, never meets an evaluation.
THEOREM EvalsPaused == Spec => []EvalsRunPaused
<1>1. IInv => EvalsRunPaused
  <2> SUFFICES ASSUME IInv, NEW i \in DOMAIN Lua, Lua[i].at = "eval"
               PROVE  \E j \in 1 .. i - 1 : Lua[j].at = "wait"
    BY DEF EvalsRunPaused, Lua
  <2>1. Lua \in Seq(Frame) /\ i \in 1 .. Len(Lua)
    BY DEF IInv, TypeOK, Lua, Threads
  <2>2. i = 3 /\ Lua[2].at = "wait"
    BY <2>1 DEF IInv, LuaStack, Announcing, Evaluating, Off, Sending, Awaiting
  <2> QED
    BY <2>2
<1> QED
  BY Invariance, <1>1, PTL

\* What the frontend waits for is still on its way to the backend, queued, being
\* evaluated, or on its way back, expressions that raise errors included.
THEOREM EvalsAnswered == Spec => []EvalsAccounted
<1>1. IInv => EvalsAccounted
  BY DEF IInv
<1> QED
  BY Invariance, <1>1, PTL

\* Once every update has been performed, the breakpoints of the VM are those that the
\* frontend sent last: not those of an earlier update, nor of an earlier frontend.
THEOREM BreakpointsLatest == Spec => []BreakpointsCurrent
<1>1. IInv => BreakpointsCurrent
  <2> SUFFICES ASSUME IInv, attached,
                      \A i \in DOMAIN inbox : inbox[i].kind # "breakpoints",
                      \A i \in DOMAIN pending : pending[i].kind # "breakpoints",
                      NEW ls \in wanted
               PROVE  breakpoints = ls
    BY DEF BreakpointsCurrent
  <2>1. DOMAIN inbox = 1 .. Len(inbox) /\ DOMAIN pending = 1 .. Len(pending)
    BY DEF IInv, TypeOK
  <2>2. ~Has(inbox, "breakpoints") /\ ~Has(pending, "breakpoints")
    BY <2>1 DEF Has
  <2> QED
    BY <2>2, LatestHas DEF IInv, Updates
<1> QED
  BY Invariance, <1>1, PTL

\* A step or pause request that was accepted stays until the Lua thread has stopped for
\* it, the user lets the script go, or the debugger is switched off: the requestPause_
\* that TriggerBreakpoint clears is one the stop it announces has answered.
THEOREM RequestsSurvive == Spec => StepsSurvive
<1> DEFINE Kept ==
      request /\ ~request' =>
        \/ Clear /\ paused
        \/ HandleContinue /\ Head(inbox).action = "go"
        \/ \E t \in Threads : Disable(t) \/ Release(t)
<1>1. IInv /\ [Next]_vars => [Kept]_vars
  <2> SUFFICES ASSUME IInv, Next, request, ~request'
               PROVE  \/ Clear /\ paused
                      \/ HandleContinue /\ Head(inbox).action = "go"
                      \/ \E t \in Threads : Disable(t) \/ Release(t)
    OBVIOUS
  <2> USE DEF halt
  <2>1. CASE Clear
    <3>1. Lua \in Seq(Frame) /\ Len(Lua) > 0 /\ Lua[Len(Lua)].at = "clear"
      BY <2>1, LuaAt DEF Clear, IInv
    <3>2. Clearing(Lua)
      BY <3>1, LuaTop DEF IInv, Clearing
    <3> QED
      BY <2>1, <3>2 DEF IInv, Announces
  <2>2. CASE HandleContinue
    <3>1. Head(inbox).action = "go"
      BY <2>2 DEF HandleContinue
    <3> QED
      BY <2>2, <3>1
  <2>3. CASE \E t \in Threads : SendOrDisconnect(t)
    BY <2>3 DEF SendOrDisconnect, Stamp, Send, Detach
  <2>4. CASE StartScript \/ EndScript \/ OnLuaHook \/ SpuriousWakeup
    BY <2>4 DEF StartScript, EndScript, OnLuaHook, SpuriousWakeup
  <2>5. CASE \E cause \in {"error", "generic", "DebugBreak"} : Break(cause)
    BY <2>5 DEF Break
  <2>6. CASE ExecuteQueuedAction \/ Evaluate \/ EndHook \/ Look
    BY <2>6 DEF ExecuteQueuedAction, Evaluate, EndHook, Look
  <2>7. CASE Pause \/ Lock \/ Decide \/ Block
    BY <2>7 DEF Pause, Lock, Decide, Block
  <2>8. CASE Accept \/ Enable \/ Attach \/ ConnectionLost
    BY <2>8 DEF Accept, Enable, Attach, ConnectionLost
  <2>9. CASE \/ HandleConnectMessage \/ HandleUpdateSettings \/ HandleSetBreakpoints
             \/ HandleEvaluate
    BY <2>9 DEF HandleConnectMessage, HandleUpdateSettings, HandleSetBreakpoints,
       HandleEvaluate
  <2>10. CASE MessageReceived \/ User
    BY <2>10 DEF MessageReceived, User, Launch, Quit, RequestPause, RequestContinue,
       RequestBreakpoints, RequestEvaluate, Ask
  <2> QED
    BY <2>1, <2>2, <2>3, <2>4, <2>5, <2>6, <2>7, <2>8, <2>9, <2>10
    DEF Next, LuaContinues, MessagingThread, Handle
<1> HIDE DEF Kept
<1>2. Spec => [][Kept]_vars
  BY Invariance, <1>1, PTL DEF Spec
<1> QED
  BY <1>2 DEF StepsSurvive, Kept

=============================================================================
