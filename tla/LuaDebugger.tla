------------------------------ MODULE LuaDebugger ------------------------------
(***************************************************************************)
(* The Lua debugger: the backend inside the game (Lua/Debugger/*, one      *)
(* ContextDebugger and the message handler over a socket) and the debug    *)
(* adapter that talks to it (src/LuaDebugger, the frontend).               *)
(*                                                                         *)
(* Two threads run the backend. "lua" executes scripts, stops inside       *)
(* TriggerBreakpoint and performs queued actions; "msgr" accepts           *)
(* frontends and handles their messages. Both send. Each thread has a      *)
(* stack of frames, innermost last; locks follow from the frames: luaMutex_ *)
(* is held by "lua" while it has a frame at all, breakpointMutex_ while it *)
(* has one in the wait of TriggerBreakpoint. The short critical sections   *)
(* of ContinueExecution and TriggerBreakpoint are one step each.           *)
(***************************************************************************)
EXTENDS Integers, Sequences, SequencesExt, FiniteSets

CONSTANTS
  Lines,        \* script lines that may get breakpoints
  MaxDepth,     \* bound on the depth of the script's call stack
  Config,       \* the errors the user wants to stop at, of {"error", "generic"}
  Raising,      \* whether evaluated expressions may raise errors: TRUE, FALSE
  MaxSessions,  \* bound on the frontends that connect
  MaxRequests   \* bound on the requests of the user

ASSUME LuaDebuggerAssumption ==
  /\ MaxDepth \in Nat \ {0}
  /\ Config \subseteq {"error", "generic"}
  /\ Raising \subseteq BOOLEAN
  /\ MaxSessions \in Nat /\ MaxRequests \in Nat

VARIABLES
  stack,        \* the frames of the two threads
  sock,         \* the connection, as the backend's socket sees it
  outSeq,       \* outboundSeq_
  ready,        \* debuggerReady_
  inbox, wire,  \* what the socket carries to the backend and to the frontend
  hooked,       \* the line hook is set in the VM
  breakpoints,  \* lines of breakpoints_
  pending,      \* pendingActions_
  paused,       \* isPaused_
  request,      \* requestPause_
  maxDepth,     \* pauseMaxStackDepth_
  depth,        \* currentStackDepth_
  breakOn,      \* breakOnError_, breakOnGenericError_
  pos,          \* line and stack depth the script is at
  attached,     \* the frontend process is there
  stopped,      \* ThreadState.Stopped of the frontend
  expected,     \* IncomingSeq of the frontend
  evals,        \* PendingEvalRequests of the frontend
  wanted,       \* the set of breakpoints the frontend sent last, if it sent any
  sessions,     \* frontends so far
  requests      \* requests of the user so far

link     == <<sock, outSeq, ready, inbox, wire>>
script   == <<hooked, breakpoints, pending, breakOn, pos>>
halt     == <<paused, request, maxDepth, depth>>
frontend == <<attached, stopped, expected, evals, wanted, sessions, requests>>
vars     == <<stack, link, script, halt, frontend>>

Threads == {"lua", "msgr"}

-----------------------------------------------------------------------------
(* Frames of "lua":                                                         *)
(*   script   a script runs                                                 *)
(*   hook     OnLuaHook, in ExecuteQueuedActions                            *)
(*   look     ... at IsBreakpoint                                           *)
(*   pause    TriggerBreakpoint, before it sets isPaused_                    *)
(*   clear    ... before it looks at requestPause_                           *)
(*   lock     ... before the wait                                            *)
(*   wait     ... in the predicate of the wait, with the mutex               *)
(*   block    ... the predicate was false, not yet blocked                   *)
(*   asleep   ... blocked, without the mutex                                 *)
(*   eval     EvaluateInContext or GetVariablesInContext                     *)
(* of "msgr":                                                               *)
(*   recv     MessageLoop                                                    *)
(*   enable   HandleConnectMessage, before debuggerReady_ = true             *)
(*   attach   EnableDebugging(true), before its pin                          *)
(* of both:                                                                 *)
(*   stamp    DebugMessageHandler::Send                                      *)
(*   send     SocketInterface::Send                                          *)
(*   disable  HandleDisconnect                                               *)
(*   release  ContinueExecution of EnableDebugging(false)                    *)
(*   detach   EnableDebugging(false), before its pin                         *)

NoMsg == [kind |-> "none", seq |-> 0, re |-> 0]

Fr(label) == [at |-> label, msg |-> NoMsg]
Stamped(kind, re) == [at |-> "stamp", msg |-> [kind |-> kind, seq |-> 0, re |-> re]]

Top(t) == Last(stack[t])
At(t, label) == stack[t] # <<>> /\ Top(t).at = label

Calls(t, frames) == stack' = [stack EXCEPT ![t] = @ \o frames]
Becomes(t, frames) == stack' = [stack EXCEPT ![t] = Front(@) \o frames]
Return(t) == Becomes(t, <<>>)

\* breakpointMutex_, which is not recursive.
MutexFree == \A i \in DOMAIN stack["lua"] : stack["lua"][i].at \notin {"wait", "block"}

\* LuaVirtualPin.
CanPin(t) == t = "lua" \/ stack["lua"] = <<>>

\* breakpointCv_.notify_one, after thread t has done what frames say.
Notify(s) ==
  IF s["lua"] # <<>> /\ Last(s["lua"]).at = "asleep"
  THEN [s EXCEPT !["lua"] = Append(Front(@), Fr("wait"))]
  ELSE s

IsConnected == sock \in {"open", "fin", "rst"}

IsDebuggerReady == IsConnected /\ ready

-----------------------------------------------------------------------------
(* Scripts and breakpoints. *)

\* 0x7ffffffe and 0x7fffffff.
AnyDepth == MaxDepth + 1
Nowhere == [line |-> 0, depth |-> 0]

StartScript ==
  /\ stack["lua"] = <<>>
  /\ Calls("lua", <<Fr("script")>>)
  /\ UNCHANGED <<link, script, halt, frontend>>

EndScript ==
  /\ At("lua", "script")
  /\ Return("lua")
  /\ UNCHANGED <<link, script, halt, frontend>>

\* The VM reaches a line, anywhere in its call stack.
OnLuaHook ==
  /\ At("lua", "script")
  /\ hooked /\ IsDebuggerReady
  /\ \E l \in Lines, d \in 1..MaxDepth : pos' = [line |-> l, depth |-> d]
  /\ Calls("lua", <<Fr("hook")>>)
  /\ UNCHANGED <<link, hooked, breakpoints, pending, breakOn, halt, frontend>>

\* Ext.DebugBreak, a Lua error, an error message of the extender: the break comes from
\* outside the hook.
Break(cause) ==
  /\ At("lua", "script")
  /\ IsDebuggerReady
  /\ cause \in breakOn \cup {"DebugBreak"}
  /\ \E d \in 1..MaxDepth : pos' = [line |-> 0, depth |-> d]
  /\ Calls("lua", <<Fr("pause")>>)
  /\ UNCHANGED <<link, hooked, breakpoints, pending, breakOn, halt, frontend>>

\* Variant of the next: an update adds to the breakpoints instead of replacing them.
ExecuteQueuedActionMerging ==
  /\ At("lua", "hook") \/ At("lua", "wait")
  /\ pending # <<>>
  /\ pending' = Tail(pending)
  /\ LET a == Head(pending) IN
       \/ a.kind = "breakpoints" /\ breakpoints' = breakpoints \cup a.lines /\ UNCHANGED stack
       \/ a.kind = "eval" /\ Calls("lua", <<[at |-> "eval", msg |-> a]>>) /\ UNCHANGED breakpoints
  /\ UNCHANGED <<link, hooked, breakOn, pos, halt, frontend>>

\* One action of ExecuteQueuedActions, in the hook or in the wait.
ExecuteQueuedAction ==
  /\ At("lua", "hook") \/ At("lua", "wait")
  /\ pending # <<>>
  /\ pending' = Tail(pending)
  /\ LET a == Head(pending) IN
       \/ /\ a.kind = "breakpoints"
          /\ breakpoints' = a.lines
          /\ UNCHANGED stack
       \/ /\ a.kind = "eval"
          /\ Calls("lua", <<[at |-> "eval", msg |-> a]>>)
          /\ UNCHANGED breakpoints
  /\ UNCHANGED <<link, hooked, breakOn, pos, halt, frontend>>

\* Variant of the next: an expression that raises an error is not answered.
EvaluateUnanswered ==
  /\ At("lua", "eval")
  /\ IF Top("lua").msg.raises THEN Return("lua")
     ELSE Becomes("lua", <<Stamped("answer", Top("lua").msg.re)>>)
  /\ UNCHANGED <<link, script, halt, frontend>>

\* An error in an expression breaks like any other, inside the evaluation.
Evaluate ==
  /\ At("lua", "eval")
  /\ LET answer == Stamped("answer", Top("lua").msg.re) IN
       IF Top("lua").msg.raises /\ "error" \in breakOn /\ IsDebuggerReady
       THEN Becomes("lua", <<answer, Fr("pause")>>)
       ELSE Becomes("lua", <<answer>>)
  /\ UNCHANGED <<link, script, halt, frontend>>

EndHook ==
  /\ At("lua", "hook") /\ pending = <<>>
  /\ Becomes("lua", <<Fr("look")>>)
  /\ UNCHANGED <<link, script, halt, frontend>>

IsBreakpoint ==
  \/ request /\ pos.depth <= maxDepth
  \/ pos.line \in breakpoints

Look ==
  /\ At("lua", "look")
  /\ IF IsBreakpoint THEN Becomes("lua", <<Fr("pause")>>) ELSE Return("lua")
  /\ UNCHANGED <<link, script, halt, frontend>>

\* Variant of the next: tells the frontend before it drops the request.
PauseAnnouncedFirst ==
  /\ At("lua", "pause") /\ MutexFree
  /\ paused' = TRUE
  /\ depth' = pos.depth
  /\ Becomes("lua", <<Fr("lock"), Fr("clear"), Stamped("stop", 0)>>)
  /\ UNCHANGED <<link, script, request, maxDepth, frontend>>

\* Variant of the next: the depth counts the frame of the hook.
PauseDeeper ==
  /\ At("lua", "pause") /\ MutexFree
  /\ paused' = TRUE
  /\ depth' = pos.depth + 1
  /\ Becomes("lua", <<Fr("lock"), Stamped("stop", 0), Fr("clear")>>)
  /\ UNCHANGED <<link, script, request, maxDepth, frontend>>

\* TriggerBreakpoint: the request is done, the frontend is told, then the wait.
Pause ==
  /\ At("lua", "pause") /\ MutexFree
  /\ paused' = TRUE
  /\ depth' = pos.depth
  /\ Becomes("lua", <<Fr("lock"), Stamped("stop", 0), Fr("clear")>>)
  /\ UNCHANGED <<link, script, request, maxDepth, frontend>>

Clear ==
  /\ At("lua", "clear")
  /\ request' = FALSE
  /\ maxDepth' = IF request THEN -1 ELSE maxDepth
  /\ Return("lua")
  /\ UNCHANGED <<link, script, paused, depth, frontend>>

Lock ==
  /\ At("lua", "lock") /\ MutexFree
  /\ Becomes("lua", <<Fr("wait")>>)
  /\ UNCHANGED <<link, script, halt, frontend>>

\* Variant of the next: a wait without a predicate takes every wakeup for the user's.
DecideOnce ==
  /\ At("lua", "wait") /\ pending = <<>>
  /\ \/ paused /\ Becomes("lua", <<Fr("block")>>)
     \/ Return("lua")
  /\ UNCHANGED <<link, script, halt, frontend>>

\* Variant of the next: isPaused_ is looked at before the queue is emptied.
DecideFirst ==
  /\ At("lua", "wait") /\ (pending = <<>> \/ ~paused)
  /\ IF paused THEN Becomes("lua", <<Fr("block")>>) ELSE Return("lua")
  /\ UNCHANGED <<link, script, halt, frontend>>

\* The predicate has emptied the queue and looks at isPaused_.
Decide ==
  /\ At("lua", "wait") /\ pending = <<>>
  /\ IF paused THEN Becomes("lua", <<Fr("block")>>) ELSE Return("lua")
  /\ UNCHANGED <<link, script, halt, frontend>>

Block ==
  /\ At("lua", "block")
  /\ Becomes("lua", <<Fr("asleep")>>)
  /\ UNCHANGED <<link, script, halt, frontend>>

SpuriousWakeup ==
  /\ At("lua", "asleep")
  /\ Becomes("lua", <<Fr("wait")>>)
  /\ UNCHANGED <<link, script, halt, frontend>>

-----------------------------------------------------------------------------
(* Sending, by either thread. *)

Stamp(t) ==
  /\ At(t, "stamp")
  /\ IF IsConnected
     THEN /\ Becomes(t, <<[at |-> "send", msg |-> [Top(t).msg EXCEPT !.seq = outSeq]]>>)
          /\ outSeq' = outSeq + 1
     ELSE Return(t) /\ UNCHANGED outSeq
  /\ UNCHANGED <<sock, ready, inbox, wire, script, halt, frontend>>

\* A frontend that has closed its end makes the first send fail later, and that one
\* disconnects on the thread that sends.
Send(t) ==
  /\ At(t, "send")
  /\ \/ /\ sock = "open"
        /\ wire' = Append(wire, Top(t).msg)
        /\ Return(t)
        /\ UNCHANGED sock
     \/ /\ sock = "fin"
        /\ sock' = "rst"
        /\ Return(t)
        /\ UNCHANGED wire
     \/ /\ sock = "rst"
        /\ sock' = "none"
        /\ Becomes(t, <<Fr("disable")>>)
        /\ UNCHANGED wire
     \/ /\ ~IsConnected
        /\ Return(t)
        /\ UNCHANGED <<sock, wire>>
  /\ UNCHANGED <<outSeq, ready, inbox, script, halt, frontend>>

\* HandleDisconnect and EnableDebugging(false), up to its look at isPaused_.
Disable(t) ==
  /\ At(t, "disable")
  /\ ready' = FALSE
  /\ breakpoints' = {}
  /\ breakOn' = breakOn \ {"error"}
  /\ request' = FALSE /\ maxDepth' = -1
  /\ Becomes(t, IF paused THEN <<Fr("detach"), Fr("release")>> ELSE <<Fr("detach")>>)
  /\ UNCHANGED <<sock, outSeq, inbox, wire, hooked, pending, pos, paused, depth, frontend>>

\* ContinueExecution(CONTINUE) of EnableDebugging.
Release(t) ==
  /\ At(t, "release") /\ MutexFree
  /\ request' = (request /\ ~paused)
  /\ maxDepth' = IF paused THEN -1 ELSE maxDepth
  /\ paused' = FALSE
  /\ LET s == [stack EXCEPT ![t] = Front(@)] IN stack' = IF paused THEN Notify(s) ELSE s
  /\ UNCHANGED <<link, script, depth, frontend>>

Detach(t) ==
  /\ At(t, "detach") /\ CanPin(t)
  /\ hooked' = FALSE
  /\ Return(t)
  /\ UNCHANGED <<link, breakpoints, pending, breakOn, pos, halt, frontend>>

-----------------------------------------------------------------------------
(* The messaging thread. *)

Accept ==
  /\ stack["msgr"] = <<>> /\ sock = "backlog"
  /\ sock' = "open"
  /\ outSeq' = 1
  /\ Calls("msgr", <<Fr("recv")>>)
  /\ UNCHANGED <<ready, inbox, wire, script, halt, frontend>>

\* The next message; what was sent before a clean end of the connection still arrives.
Receive(kind) ==
  /\ At("msgr", "recv") /\ sock \in {"open", "fin"}
  /\ inbox # <<>> /\ Head(inbox).kind = kind
  /\ inbox' = Tail(inbox)

HandleConnectMessage ==
  /\ Receive("connect")
  /\ Calls("msgr", <<Stamped("ready", 0), Fr("attach"), Fr("enable"), Stamped("connected", 0)>>)
  /\ UNCHANGED <<sock, outSeq, ready, wire, script, halt, frontend>>

Enable ==
  /\ At("msgr", "enable")
  /\ ready' = TRUE
  /\ Return("msgr")
  /\ UNCHANGED <<sock, outSeq, inbox, wire, script, halt, frontend>>

Attach ==
  /\ At("msgr", "attach") /\ CanPin("msgr")
  /\ hooked' = TRUE
  /\ Return("msgr")
  /\ UNCHANGED <<link, breakpoints, pending, breakOn, pos, halt, frontend>>

Reply == Stamped("result", 0)

HandleUpdateSettings ==
  /\ Receive("settings")
  /\ breakOn' = Head(inbox).on
  /\ Calls("msgr", <<Reply>>)
  /\ UNCHANGED <<sock, outSeq, ready, wire, hooked, breakpoints, pending, pos, halt, frontend>>

\* The new set replaces the old one on the Lua thread.
HandleSetBreakpoints ==
  /\ Receive("breakpoints")
  /\ pending' = Append(pending, Head(inbox))
  /\ stack' = Notify([stack EXCEPT !["msgr"] = Append(@, Reply)])
  /\ UNCHANGED <<sock, outSeq, ready, wire, hooked, breakpoints, breakOn, pos, halt, frontend>>

HandleEvaluate ==
  /\ Receive("eval")
  /\ pending' = Append(pending, Head(inbox))
  /\ stack' = Notify(stack)
  /\ UNCHANGED <<sock, outSeq, ready, wire, hooked, breakpoints, breakOn, pos, halt, frontend>>

Depths == [go |-> -1, over |-> depth, into |-> AnyDepth, out |-> depth - 1, pause |-> AnyDepth]

\* ContinueExecution; a request that does not fit the state is only answered.
HandleContinue ==
  /\ Receive("continue") /\ MutexFree
  /\ LET action == Head(inbox).action
         fits   == paused = (action # "pause")
         s      == [stack EXCEPT !["msgr"] = Append(@, Reply)]
     IN /\ request'  = IF fits THEN action # "go" ELSE request
        /\ maxDepth' = IF fits THEN Depths[action] ELSE maxDepth
        /\ paused'   = (paused /\ ~fits)
        /\ stack'    = IF fits /\ action # "pause" THEN Notify(s) ELSE s
  /\ UNCHANGED <<sock, outSeq, ready, wire, script, depth, frontend>>

\* recv fails: the connection was reset, or closed by the other thread. After a clean end
\* recv returns 0, which MessageLoop takes for an empty read and tries again.
ConnectionLost ==
  /\ At("msgr", "recv") /\ sock \notin {"open", "fin"}
  /\ IF sock = "rst" THEN sock' = "none" /\ Becomes("msgr", <<Fr("disable")>>)
                     ELSE Return("msgr") /\ UNCHANGED sock
  /\ UNCHANGED <<outSeq, ready, inbox, wire, script, halt, frontend>>

-----------------------------------------------------------------------------
(* The frontend: DebuggerClient and DAPMessageHandler. *)

Launch ==
  /\ ~attached /\ sock = "none" /\ sessions < MaxSessions
  /\ attached' = TRUE /\ stopped' = FALSE /\ expected' = 1 /\ evals' = {}
  /\ wanted' = {}
  /\ sessions' = sessions + 1
  /\ sock' = "backlog"
  /\ inbox' = <<[kind |-> "connect"]>> /\ wire' = <<>>
  /\ UNCHANGED <<stack, outSeq, ready, script, halt, requests>>

\* The process ends. If it has not read everything the connection is reset at once.
Exit ==
  /\ attached' = FALSE
  /\ sock' \in IF wire = <<>> THEN {"fin"} ELSE {"fin", "rst"}
  /\ wire' = <<>>
  /\ UNCHANGED <<stopped, expected, evals>>

Quit ==
  /\ attached /\ sock = "open"
  /\ Exit
  /\ UNCHANGED <<stack, outSeq, ready, inbox, script, halt, wanted, sessions, requests>>

Ask(m) ==
  /\ attached /\ requests < MaxRequests
  /\ requests' = requests + 1
  /\ inbox' = Append(inbox, m)
  /\ UNCHANGED <<stack, sock, outSeq, ready, wire, script, halt, attached, expected, sessions>>

\* HandleContinueRequest.
RequestPause ==
  /\ ~stopped
  /\ Ask([kind |-> "continue", action |-> "pause"])
  /\ UNCHANGED <<stopped, evals, wanted>>

RequestContinue(action) ==
  /\ stopped /\ stopped' = FALSE
  /\ Ask([kind |-> "continue", action |-> action])
  /\ UNCHANGED <<evals, wanted>>

RequestBreakpoints(ls) ==
  /\ Ask([kind |-> "breakpoints", lines |-> ls])
  /\ wanted' = {ls}
  /\ UNCHANGED <<stopped, evals>>

RequestEvaluate(raises) ==
  /\ stopped
  /\ Ask([kind |-> "eval", re |-> requests + 1, raises |-> raises])
  /\ evals' = evals \cup {requests + 1}
  /\ UNCHANGED <<stopped, wanted>>

\* MessageReceived: a message out of sequence ends the frontend ("NSE sequence number
\* mismatch"); when the backend is ready it gets the user's settings.
MessageReceived ==
  /\ attached /\ wire # <<>>
  /\ LET m == Head(wire) IN
       IF m.seq # expected THEN Exit /\ UNCHANGED inbox
       ELSE /\ expected' = expected + 1
            /\ wire' = Tail(wire)
            /\ stopped' = (stopped \/ m.kind = "stop")
            /\ evals' = IF m.kind = "answer" THEN evals \ {m.re} ELSE evals
            /\ inbox' = IF m.kind = "ready" THEN Append(inbox, [kind |-> "settings", on |-> Config])
                                            ELSE inbox
            /\ UNCHANGED <<sock, attached>>
  /\ UNCHANGED <<stack, outSeq, ready, script, halt, wanted, sessions, requests>>

-----------------------------------------------------------------------------
Init ==
  /\ stack = [t \in Threads |-> <<>>]
  /\ sock = "none" /\ outSeq = 1 /\ ready = FALSE
  /\ inbox = <<>> /\ wire = <<>>
  /\ hooked = FALSE /\ breakpoints = {} /\ pending = <<>> /\ breakOn = {}
  /\ pos = Nowhere
  /\ paused = FALSE /\ request = FALSE /\ maxDepth = -1 /\ depth = 0
  /\ attached = FALSE /\ stopped = FALSE /\ expected = 1 /\ evals = {} /\ wanted = {}
  /\ sessions = 0 /\ requests = 0

\* What "lua" does without a choice once it is in a hook or a break.
LuaContinues ==
  \/ ExecuteQueuedAction \/ Evaluate \/ EndHook \/ Look
  \/ Pause \/ Clear \/ Lock \/ Decide \/ Block

SendOrDisconnect(t) == Stamp(t) \/ Send(t) \/ Disable(t) \/ Release(t) \/ Detach(t)

Handle ==
  \/ HandleConnectMessage \/ HandleUpdateSettings \/ HandleSetBreakpoints
  \/ HandleEvaluate \/ HandleContinue

MessagingThread == Accept \/ Handle \/ Enable \/ Attach \/ ConnectionLost

User ==
  \/ Launch \/ Quit
  \/ RequestPause
  \/ \E a \in {"go", "over", "into", "out"} : RequestContinue(a)
  \/ \E ls \in SUBSET Lines : RequestBreakpoints(ls)
  \/ \E r \in Raising : RequestEvaluate(r)

Next ==
  \/ StartScript \/ EndScript \/ OnLuaHook
  \/ \E cause \in {"error", "generic", "DebugBreak"} : Break(cause)
  \/ LuaContinues \/ SpuriousWakeup
  \/ MessagingThread
  \/ \E t \in Threads : SendOrDisconnect(t)
  \/ MessageReceived \/ User

Spec == Init /\ [][Next]_vars

\* Both threads run, scripts end, and the frontend reads its socket.
Fairness ==
  /\ WF_vars(LuaContinues) /\ SF_vars(EndScript) /\ WF_vars(MessagingThread)
  /\ \A t \in Threads : WF_vars(SendOrDisconnect(t))
  /\ WF_vars(MessageReceived)

FairSpec == Spec /\ Fairness
-----------------------------------------------------------------------------
(* Properties. *)

Actions == {"go", "over", "into", "out", "pause"}

Action ==
  [kind : {"breakpoints"}, lines : SUBSET Lines]
    \cup [kind : {"eval"}, re : 1..MaxRequests, raises : Raising]

FromFrontend ==
  Action \cup [kind : {"connect"}] \cup [kind : {"settings"}, on : SUBSET Config]
    \cup [kind : {"continue"}, action : Actions]

ToFrontend ==
  [kind : {"connected", "ready", "result", "stop", "answer"}, seq : Nat, re : 0..MaxRequests]

Frame ==
  [at : {"script", "hook", "look", "pause", "clear", "lock", "wait", "block", "asleep",
         "recv", "enable", "attach", "disable", "release", "detach"}, msg : {NoMsg}]
    \cup [at : {"stamp", "send"}, msg : ToFrontend]
    \cup [at : {"eval"}, msg : Action]

\* The shape of the state.
TypeOK ==
  /\ stack \in [Threads -> Seq(Frame)]
  /\ sock \in {"none", "backlog", "open", "fin", "rst"}
  /\ outSeq \in Nat /\ ready \in BOOLEAN
  /\ inbox \in Seq(FromFrontend) /\ wire \in Seq(ToFrontend)
  /\ hooked \in BOOLEAN /\ breakpoints \subseteq Lines /\ pending \in Seq(Action)
  /\ breakOn \subseteq Config
  /\ pos \in [line : Lines \cup {0}, depth : 0..MaxDepth]
  /\ paused \in BOOLEAN /\ request \in BOOLEAN
  /\ maxDepth \in -1..AnyDepth /\ depth \in 0..MaxDepth
  /\ attached \in BOOLEAN /\ stopped \in BOOLEAN /\ expected \in Nat
  /\ evals \subseteq 1..MaxRequests /\ wanted \subseteq SUBSET Lines
  /\ sessions \in 0..MaxSessions /\ requests \in 0..MaxRequests

\* The Lua thread is in the wait of TriggerBreakpoint, or what runs there has interrupted it.
Held ==
  \E i \in DOMAIN stack["lua"] : stack["lua"][i].at \in {"lock", "wait", "block", "asleep"}

\* While the frontend shows the script stopped, the Lua thread really is held, until the
\* user lets it go: the user never inspects a script that runs on.
StopsAreReal == attached /\ stopped => paused /\ Held

\* Expressions are evaluated in the scope the user looks at: only by a Lua thread that
\* is in the wait of TriggerBreakpoint, never by one that merely passes a line.
EvalsRunPaused ==
  \A i \in DOMAIN stack["lua"] :
    stack["lua"][i].at = "eval" => \E j \in 1..i - 1 : stack["lua"][j].at = "wait"

\* An accepted step or pause request stays until the Lua thread has stopped for it, the
\* user lets the script go, or the debugger is switched off.
StepsSurvive ==
  [][request /\ ~request' =>
       \/ Clear /\ paused
       \/ HandleContinue /\ Head(inbox).action = "go"
       \/ \E t \in Threads : Disable(t) \/ Release(t)]_vars

\* The requests e of the queues: on their way in, queued, or on their way back.
InFlight(e) ==
  \/ \E i \in DOMAIN inbox : inbox[i].kind = "eval" /\ inbox[i].re = e
  \/ \E i \in DOMAIN pending : pending[i].kind = "eval" /\ pending[i].re = e
  \/ \E i \in DOMAIN stack["lua"] : LET m == stack["lua"][i].msg IN
       m.kind \in {"eval", "answer"} /\ m.re = e
  \/ \E i \in DOMAIN wire : wire[i].kind = "answer" /\ wire[i].re = e

\* No evaluation gets lost: what the frontend waits for is still going to be answered.
EvalsAccounted == attached => \A e \in evals : InFlight(e)

\* Once every update has been performed the breakpoints are those the frontend sent last.
BreakpointsCurrent ==
  /\ attached /\ IsDebuggerReady
  /\ \A i \in DOMAIN inbox : inbox[i].kind # "breakpoints"
  /\ \A i \in DOMAIN pending : pending[i].kind # "breakpoints"
  => \A ls \in wanted : breakpoints = ls

\* "NSE sequence number mismatch" (LuaDebugger/DbgClient.cs:297): the frontend takes the
\* backend's messages to be numbered in the order in which they arrive, and gives up if not.
SequenceMatches == attached /\ wire # <<>> => Head(wire).seq = expected

\* "The server/client thread will recheck this value when the condition variable is
\* notified, and resume execution if the pause flag is no longer set." (LuaDebugger.h:109):
\* a script that the user has let go gets out of the wait.
Resumes == (Held /\ ~paused) ~> ~Held
===============================================================================
