------------------------------ MODULE MCUserVars ------------------------------
(* Small instances of UserVars for TLC. *)
EXTENDS UserVars

Both == {"IsOnServer", "IsOnClient", "WriteableOnServer", "Persistent"}
Down == Both \cup {"SyncServerToClient"}

\* The server owns the variable, or nobody syncs it; each way of scheduling a sync.
ServerProtos ==
  {Both, Down, Down \cup {"SyncOnTick"}, Down \cup {"SyncOnWrite"},
   Down \cup {"SyncOnTick", "DontCache"}}

\* Both sides write the variable, which no savegame keeps.
Duplex == {"IsOnServer", "IsOnClient", "WriteableOnServer", "WriteableOnClient",
           "SyncServerToClient", "SyncClientToServer"}

DuplexProtos == {Duplex, Duplex \cup {"SyncOnTick"}, Duplex \cup {"SyncOnWrite"}}

\* The same, or only the server writes it.
PlayProtos ==
  DuplexProtos \cup {{"IsOnServer", "IsOnClient", "WriteableOnServer", "SyncServerToClient"}}

\* The middle of a game: everybody is in, and has registered the variables.
InGame ==
  /\ proto \in [Keys -> Protos]
  /\ registered = [p \in Peers |-> Keys]
  /\ phase = [p \in Peers |-> "Running"]
  /\ known = Peers
  /\ store = [p \in Peers |-> NoVars]
  /\ cache = [p \in Peers |-> NoVars]
  /\ flushQ = [p \in Peers |-> {}]
  /\ deferred = [p \in Peers |-> {}]
  /\ nextTick = [p \in Peers |-> {}]
  /\ support = Clients /\ hello = Clients
  /\ down = [c \in Clients |-> <<>>]
  /\ up = [c \in Clients |-> <<>>]
  /\ saved = [k \in Keys |-> Absent]
  /\ ops = 0 /\ loads = 0
  /\ stale = {}

\* The game from there on.
PlaySpec == InGame /\ [][Next]_vars /\ Fairness
===============================================================================
