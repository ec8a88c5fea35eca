-------------------------------- MODULE ChatHub --------------------------------
(***************************************************************************)
(* The WebSocket hub of one gateway and the presence counter of one user   *)
(* in Redis: internal/gateway/http/chat_realtime.go.  All sockets belong   *)
(* to the same user; clientsMu is a reader-writer lock, and a broadcast    *)
(* holds it for reading while it asks the Auth Service about every socket. *)
(***************************************************************************)
EXTENDS Naturals, FiniteSets

CONSTANTS
    Sockets,        \* connections ever opened
    SendBuffer      \* capacity of a socket's send channel

VARIABLES
    socket,         \* where register and unregister of each socket are
    clients,        \* the hub's map
    queued,         \* payloads in each send channel
    closedChannels, \* send channels that were closed
    broadcast,      \* sockets the broadcast under way has still to visit
    broadcasting,   \* does the broadcast hold the lock?
    presence        \* the Redis counter, 0 when the key is missing

hubVars == <<socket, clients, queued, closedChannels, broadcast, broadcasting, presence>>

HubInit ==
    /\ socket = [s \in Sockets |-> "new"]
    /\ clients = {} /\ closedChannels = {} /\ broadcast = {} /\ broadcasting = FALSE
    /\ queued = [s \in Sockets |-> 0]
    /\ presence = 0

Move(s, from, to) == socket[s] = from /\ socket' = [socket EXCEPT ![s] = to]

\* register: the map under the lock, ...
RegisterSocket(s) ==
    /\ ~broadcasting /\ Move(s, "new", "added")
    /\ clients' = clients \cup {s}
    /\ UNCHANGED <<queued, closedChannels, broadcast, broadcasting, presence>>

\* ... then INCR, which may fail.
CountIn(s) ==
    /\ Move(s, "added", "open")
    /\ presence' \in {presence, presence + 1}
    /\ UNCHANGED <<clients, queued, closedChannels, broadcast, broadcasting>>

\* readPump returns and unregister takes the socket out of the map and closes its
\* channel.
Drop(s) ==
    /\ Move(s, "open", "dropped")
    /\ clients' = clients \ {s}
    /\ closedChannels' = closedChannels \cup {s}
    /\ UNCHANGED <<queued, broadcast, broadcasting, presence>>

\* Mutation: the channel is closed without the lock.
UnregisterUnlocked(s) == Drop(s)

UnregisterSocket(s) == ~broadcasting /\ Drop(s)

\* decrementPresence: never below 0; it may fail.
CountOut(s) ==
    /\ Move(s, "dropped", "gone")
    /\ presence' \in {presence, IF presence <= 1 THEN 0 ELSE presence - 1}
    /\ UNCHANGED <<clients, queued, closedChannels, broadcast, broadcasting>>

BeginBroadcast ==
    /\ ~broadcasting
    /\ broadcasting' = TRUE /\ broadcast' = clients
    /\ UNCHANGED <<socket, clients, queued, closedChannels, presence>>

\* The principal is valid and the payload is queued or, with a full buffer,
\* dropped; or the principal is not valid and the connection is closed.
Deliver(s) ==
    /\ s \in broadcast
    /\ broadcast' = broadcast \ {s}
    /\ queued' \in {queued, [queued EXCEPT ![s] = IF @ < SendBuffer THEN @ + 1 ELSE @]}
    /\ UNCHANGED <<socket, clients, closedChannels, broadcasting, presence>>

EndBroadcast ==
    /\ broadcasting /\ broadcast = {}
    /\ broadcasting' = FALSE
    /\ UNCHANGED <<socket, clients, queued, closedChannels, broadcast, presence>>

\* writePump
Write(s) ==
    /\ queued[s] > 0
    /\ queued' = [queued EXCEPT ![s] = @ - 1]
    /\ UNCHANGED <<socket, clients, closedChannels, broadcast, broadcasting, presence>>

PresenceExpires ==
    /\ presence > 0 /\ presence' = 0
    /\ UNCHANGED <<socket, clients, queued, closedChannels, broadcast, broadcasting>>

HubNext ==
    \/ \E s \in Sockets :
        RegisterSocket(s) \/ CountIn(s) \/ UnregisterSocket(s) \/ CountOut(s) \/ Deliver(s) \/ Write(s)
    \/ BeginBroadcast \/ EndBroadcast \/ PresenceExpires

HubSpec == HubInit /\ [][HubNext]_hubVars

-----------------------------------------------------------------------------
\* A broadcast never sends on a channel that was closed meanwhile (a panic of the
\* gateway), although it waits for the Auth Service between two sockets.
NoSendOnClosed == broadcast \cap closedChannels = {}
=============================================================================
