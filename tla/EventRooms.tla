------------------------------ MODULE EventRooms ------------------------------
(***************************************************************************)
(* Who hears what of the agent: ChatGateway (chat.gateway.ts), the sockets  *)
(* of its clients and the rooms they join, one for each thread, and         *)
(* AgentEventEmitter (agent-event.emitter.ts), which emits to a room.       *)
(* Only agent:error is emitted to a single socket, that of the sender.      *)
(*                                                                         *)
(* socket.io is a library: a socket that disconnects leaves its rooms for   *)
(* good and joins none any more, a client that reconnects has a new socket; *)
(* an event emitted to a room is delivered to the sockets in it at that     *)
(* moment, in the order of the emits.                                       *)
(***************************************************************************)
EXTENDS Integers, Sequences, FiniteSets

CONSTANTS
  Threads,   \* thread ids, the names of the rooms
  Sockets,   \* sockets of clients
  Requests   \* what clients ask for

VARIABLES
  open,   \* the sockets that are connected, or yet to connect
  rooms,  \* thread -> the sockets in its room
  heard   \* socket -> request -> the events it heard of that request

roomVars == <<open, rooms, heard>>

Ends == {"interrupt", "done", "error"}

RoomsTypeOK ==
  /\ open \subseteq Sockets
  /\ rooms \in [Threads -> SUBSET open]
  /\ heard \in [Sockets -> [Requests -> Seq({"step"} \cup Ends)]]

RoomsInit ==
  /\ open = Sockets
  /\ rooms = [t \in Threads |-> {}]
  /\ heard = [s \in Sockets |-> [r \in Requests |-> <<>>]]

-----------------------------------------------------------------------------

\* handleDisconnect only logs; socket.io takes the socket out of its rooms.
Disconnect(s) ==
  /\ s \in open
  /\ open' = open \ {s}
  /\ rooms' = [t \in Threads |-> rooms[t] \ {s}]
  /\ UNCHANGED heard

\* client.join: no effect on a socket that has disconnected.
JoinRoom(s, t) ==
  /\ rooms' = [rooms EXCEPT ![t] = IF s \in open THEN @ \cup {s} ELSE @]
  /\ UNCHANGED <<open, heard>>

\* handleJoin, the event chat:join.
ChatJoin(s, t) ==
  /\ s \in open
  /\ s \notin rooms[t]
  /\ JoinRoom(s, t)

Hears(s, r, event) == [heard[s] EXCEPT ![r] = Append(@, event)]

\* emitStep, emitInterrupt, emitDone: io.to(threadId).emit.
EmitToRoom(t, r, event) ==
  /\ heard' = [s \in Sockets |->
                 IF s \in rooms[t] THEN Hears(s, r, event) ELSE heard[s]]
  /\ UNCHANGED <<open, rooms>>

\* client.emit('agent:error') of handleMessage and handleResume.
EmitError(s, r) ==
  /\ heard' = [heard EXCEPT
       ![s] = IF s \in open THEN Hears(s, r, "error") ELSE @]
  /\ UNCHANGED <<open, rooms>>

\* The process dies: the sockets in use disconnect, every room is gone.  Those not
\* used so far may as well connect afterwards: handleConnection changes nothing.
RoomsCrash(used) ==
  /\ open' = open \ used
  /\ rooms' = [t \in Threads |-> {}]
  /\ UNCHANGED heard

=============================================================================
