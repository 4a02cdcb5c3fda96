-------------------------------- MODULE UIHub --------------------------------
(***************************************************************************)
(* The hub of the operator's browsers (internal/observability/hub.go): one *)
(* goroutine selects among registrations, departures and broadcasts; each  *)
(* client has a goroutine that reads and one that writes.  A select takes  *)
(* whichever of its channels it likes, and a full channel drops what is    *)
(* put into it.                                                            *)
(***************************************************************************)
EXTENDS Naturals, Sequences, FiniteSets, SequencesExt

CONSTANTS
    Client,     \* each connects once
    QueueCap,   \* of register, unregister (32 each) and broadcast (1024)
    SendCap     \* of UIClient.send (256)

VARIABLES
    clients,    \* Hub.clients
    register, unregister,
    broadcast,  \* how many messages wait
    send,       \* [Client -> messages in UIClient.send]
    closings,   \* [Client -> how often its send has been closed]
    conn,       \* [Client -> its connection]
    reading, writing,   \* the clients whose pumps run
    isShutdown

vars == <<clients, register, unregister, broadcast, send, closings, conn,
          reading, writing, isShutdown>>
channels == <<register, unregister, broadcast>>
pumps == <<conn, reading, writing>>
-----------------------------------------------------------------------------
Init ==
    /\ clients = {} /\ register = << >> /\ unregister = << >> /\ broadcast = 0
    /\ send = [c \in Client |-> 0] /\ closings = [c \in Client |-> 0]
    /\ conn = [c \in Client |-> "none"]
    /\ reading = {} /\ writing = {} /\ isShutdown = FALSE

(* HandleConnections: nobody waits for a place in the queue. *)
HandleConnections(c) ==
    /\ conn[c] = "none"
    /\ IF Len(register) < QueueCap
       THEN /\ register' = Append(register, c)
            /\ conn' = [conn EXCEPT ![c] = "open"]
            /\ reading' = reading \union {c} /\ writing' = writing \union {c}
       ELSE /\ conn' = [conn EXCEPT ![c] = "closed"]
            /\ UNCHANGED <<register, reading, writing>>
    /\ UNCHANGED <<clients, unregister, broadcast, send, closings, isShutdown>>

PeerLeaves(c) ==
    /\ conn[c] = "open"
    /\ conn' = [conn EXCEPT ![c] = "broken"]
    /\ UNCHANGED <<clients, channels, send, closings, reading, writing, isShutdown>>

Broadcast ==
    /\ broadcast < QueueCap
    /\ broadcast' = broadcast + 1
    /\ UNCHANGED <<clients, register, unregister, send, closings, pumps, isShutdown>>

-----------------------------------------------------------------------------
(* Run *)
Register ==
    /\ ~isShutdown /\ register # << >>
    /\ register' = Tail(register)
    /\ clients' = clients \union {Head(register)}
    /\ UNCHANGED <<unregister, broadcast, send, closings, pumps, isShutdown>>

KnownAsTold(c) == TRUE   \* bug: who says that it leaves is taken for a member
Known(c) == c \in clients

Unregister ==
    /\ ~isShutdown /\ unregister # << >>
    /\ unregister' = Tail(unregister)
    /\ LET c == Head(unregister) IN
       IF Known(c)
       THEN /\ clients' = clients \ {c}
            /\ closings' = [closings EXCEPT ![c] = @ + 1]
       ELSE UNCHANGED <<clients, closings>>
    /\ UNCHANGED <<register, broadcast, send, pumps, isShutdown>>

(* A client that has no room for 10 ms is to be dropped; those who find no  *)
(* place in the queue stay.                                                 *)
NoneDropped(slow) == << >>   \* bug: a slow client only misses the message
Dropped(slow) == SetToSeq(slow)

TakeBroadcast ==
    /\ ~isShutdown /\ broadcast > 0
    /\ broadcast' = broadcast - 1
    /\ LET slow == {c \in clients : send[c] = SendCap}
           room == QueueCap - Len(unregister)
       IN  /\ send' = [c \in Client |-> IF c \in clients \ slow THEN send[c] + 1 ELSE send[c]]
           /\ \E lucky \in SUBSET slow :
                 /\ Cardinality(lucky) = IF Cardinality(slow) < room THEN Cardinality(slow) ELSE room
                 /\ unregister' = unregister \o Dropped(lucky)
    /\ UNCHANGED <<clients, register, closings, pumps, isShutdown>>

(* ctx.Done(): Run ends with shutdown. *)
Shutdown ==
    /\ ~isShutdown
    /\ isShutdown' = TRUE
    /\ clients' = {}
    /\ conn' = [c \in Client |-> IF c \in clients THEN "closed" ELSE conn[c]]
    /\ closings' = [c \in Client |-> IF c \in clients THEN closings[c] + 1 ELSE closings[c]]
    /\ UNCHANGED <<channels, send, reading, writing>>

-----------------------------------------------------------------------------
(* readPump: a read fails when the connection does; the deadline of 15      *)
(* seconds (pongWait) finds out about a silent peer.                        *)
ReadFails(c) ==
    /\ c \in reading /\ conn[c] # "open"
    /\ reading' = reading \ {c}
    /\ unregister' = IF Len(unregister) < QueueCap THEN Append(unregister, c) ELSE unregister
    /\ conn' = [conn EXCEPT ![c] = "closed"]
    /\ UNCHANGED <<clients, register, broadcast, send, closings, writing, isShutdown>>

WriteEnds(c) ==
    /\ writing' = writing \ {c}
    /\ conn' = [conn EXCEPT ![c] = "closed"]

unchangedByWriter == <<clients, channels, closings, reading, isShutdown>>

WriteMessage(c) ==
    /\ c \in writing /\ send[c] > 0
    /\ send' = [send EXCEPT ![c] = @ - 1]
    /\ IF conn[c] = "open" THEN UNCHANGED <<conn, writing>> ELSE WriteEnds(c)
    /\ UNCHANGED unchangedByWriter

(* The channel is closed and empty, or a ping cannot be written. *)
WriteStops(c) ==
    /\ c \in writing
    /\ (send[c] = 0 /\ closings[c] > 0) \/ conn[c] # "open"
    /\ WriteEnds(c)
    /\ UNCHANGED <<send, unchangedByWriter>>

-----------------------------------------------------------------------------
Pump(c) == ReadFails(c) \/ WriteMessage(c) \/ WriteStops(c)

Next ==
    \/ \E c \in Client : HandleConnections(c) \/ PeerLeaves(c) \/ Pump(c)
    \/ Broadcast \/ Register \/ Unregister \/ TakeBroadcast \/ Shutdown

-----------------------------------------------------------------------------
TypeOK ==
    /\ clients \subseteq Client /\ reading \subseteq Client /\ writing \subseteq Client
    /\ register \in Seq(Client) /\ unregister \in Seq(Client)
    /\ Len(register) <= QueueCap /\ Len(unregister) <= QueueCap
    /\ broadcast \in 0..QueueCap /\ send \in [Client -> 0..SendCap]
    /\ closings \in [Client -> Nat] /\ isShutdown \in BOOLEAN
    /\ conn \in [Client -> {"none", "open", "broken", "closed"}]

(* Neither panic of a channel happens: none is closed twice, and none that  *)
(* broadcasts are put into is closed, however departures, time-outs and     *)
(* the shutdown overtake each other and the registration.                   *)
NoPanic ==
    \A c \in Client : closings[c] <= 1 /\ (c \in clients => closings[c] = 0)

(* A client whose connection has ended does not stay in the map: even if    *)
(* its departure was dropped, or taken before its registration.             *)
BrokenReleased ==
    \A c \in Client : (c \in clients /\ conn[c] # "open") ~> (c \notin clients)

=============================================================================
