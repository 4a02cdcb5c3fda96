-------------------------- MODULE ConnectionManager --------------------------
(***************************************************************************)
(* The manager of the bot's connection (managerActor) and the actors that  *)
(* own one WebSocket each (wsActor), in internal/execution.                *)
(*                                                                         *)
(* The actor library (hollywood, outside the repository) gives every actor *)
(* a mailbox and runs it one message at a time.  A poisoned actor may      *)
(* still handle what lies behind the poison in its mailbox, then receives  *)
(* Stopped.  An actor that panics is restarted: its producer makes a fresh *)
(* record, its mailbox and its children stay.                              *)
(*                                                                         *)
(* onClose is a closure over the record of the manager.  It runs in the    *)
(* goroutine of the wsActor, unsynchronised with the manager, so that      *)
(* RegisterWSConnMsg is handled in two steps with the write of activeWS    *)
(* in the second.                                                          *)
(***************************************************************************)
EXTENDS Naturals, Sequences

CONSTANTS
    Conn,       \* connections a bot opens
    NoConn,     \* a nil PID
    Action,     \* action IDs
    MaxSent,    \* bound: control messages sent to the manager
    MaxRecord   \* bound: records the manager has had, one more than its restarts

ASSUME ConnAssumption == NoConn \notin Conn /\ MaxRecord \in Nat \ {0}

VARIABLES
    record,     \* the number of the manager's current record
    activeWS,   \* [1..MaxRecord -> Conn \union {NoConn}], activeWS of each record
    box,        \* the mailbox of the manager
    spawning,   \* the connection being registered, or NoConn
    ws,         \* [Conn -> "unborn", "offered", "running", "poisoned" or "stopped"]
    wsBox,      \* [Conn -> the mailbox of its wsActor]
    owner,      \* [Conn -> the record its onClose reads]
    link,       \* [Conn -> "up", "silent" (writes fail, reads hang) or "down"]
    pump,       \* the connections whose readPump runs
    seen,       \* [Conn -> SUBSET Action], wsActor.seen
    sent,       \* how many control messages have been sent; they are numbered
    got         \* [Conn -> Seq(Nat)], the numbers of those written to the connection

vars == <<record, activeWS, box, spawning, ws, wsBox, owner, link, pump, seen, sent, got>>
managerVars == <<record, activeWS, spawning, owner>>
wsVars == <<ws, wsBox, pump, seen, got>>

Register(c) == [type |-> "register", conn |-> c]
Closed(c) == [type |-> "closed", conn |-> c]
Control == [type : {"dispatch", "preload"}, id : Action] \union [type : {"abort"}]
Numbered(m, n) == [msg |-> m, n |-> n]
Ping == [type |-> "ping"]
Poison == [type |-> "poison"]

Init ==
    /\ record = 1 /\ activeWS = [r \in 1..MaxRecord |-> NoConn]
    /\ box = << >> /\ spawning = NoConn
    /\ ws = [c \in Conn |-> "unborn"] /\ wsBox = [c \in Conn |-> << >>]
    /\ owner = [c \in Conn |-> 1]
    /\ link = [c \in Conn |-> "up"] /\ pump = {}
    /\ seen = [c \in Conn |-> {}]
    /\ sent = 0 /\ got = [c \in Conn |-> << >>]

-----------------------------------------------------------------------------
(* ControllerManager: sends to the mailbox of the manager *)

RegisterConnection(c) ==
    /\ ws[c] = "unborn"
    /\ ws' = [ws EXCEPT ![c] = "offered"]
    /\ box' = Append(box, Register(c))
    /\ UNCHANGED <<managerVars, wsBox, link, pump, seen, sent, got>>

SendControl(m) ==
    /\ sent < MaxSent
    /\ sent' = sent + 1
    /\ box' = Append(box, [type |-> "control", body |-> Numbered(m, sent + 1)])
    /\ UNCHANGED <<managerVars, wsVars, link>>

-----------------------------------------------------------------------------
(* managerActor.Receive *)

Idle == spawning = NoConn
Active == activeWS[record]

(* Bug: a mailbox that is not first in, first out *)
MailJumpsQueue(b, c, m) ==
    IF ws[c] \in {"running", "poisoned"} THEN [b EXCEPT ![c] = <<m>> \o @] ELSE b

(* a message to an actor that has stopped is lost *)
Mail(b, c, m) == IF ws[c] \in {"running", "poisoned"} THEN [b EXCEPT ![c] = Append(@, m)] ELSE b

(* The old connection is poisoned, the new actor is started ... *)
ManagerSpawns ==
    /\ Idle /\ box # << >> /\ Head(box).type = "register"
    /\ LET c == Head(box).conn IN
          /\ wsBox' = IF Active = NoConn THEN wsBox ELSE Mail(wsBox, Active, Poison)
          /\ spawning' = c
          /\ ws' = [ws EXCEPT ![c] = "running"]
          /\ owner' = [owner EXCEPT ![c] = record]
          /\ pump' = pump \union {c}
    /\ box' = Tail(box)
    /\ UNCHANGED <<record, activeWS, link, seen, sent, got>>

(* ... and only then is it the active one. *)
ManagerAssigns ==
    /\ ~Idle
    /\ activeWS' = [activeWS EXCEPT ![record] = spawning]
    /\ spawning' = NoConn
    /\ UNCHANGED <<record, owner, box, wsVars, link, sent>>

(* wsClosedEventMsg: Equals panics on a nil PID, and the manager restarts. *)
ManagerClosed ==
    /\ Idle /\ box # << >> /\ Head(box).type = "closed"
    /\ LET c == Head(box).conn IN
          IF Active # NoConn /\ c = NoConn
          THEN /\ record < MaxRecord
               /\ record' = record + 1
               /\ UNCHANGED activeWS
          ELSE /\ activeWS' = [activeWS EXCEPT ![record] = IF @ = c THEN NoConn ELSE @]
               /\ UNCHANGED record
    /\ box' = Tail(box)
    /\ UNCHANGED <<spawning, owner, wsVars, link, sent>>

(* Bug: forwarded to any child that runs. *)
ManagerForwardsToAny ==
    /\ Idle /\ box # << >> /\ Head(box).type = "control"
    /\ \E c \in Conn : /\ ws[c] \in {"running", "poisoned"}
                       /\ wsBox' = Mail(wsBox, c, [type |-> "control", body |-> Head(box).body])
    /\ box' = Tail(box)
    /\ UNCHANGED <<managerVars, ws, pump, seen, link, sent, got>>

(* A control message is forwarded to the active connection, or dropped. *)
ManagerForwards ==
    /\ Idle /\ box # << >> /\ Head(box).type = "control"
    /\ wsBox' = IF Active = NoConn THEN wsBox
                ELSE Mail(wsBox, Active, [type |-> "control", body |-> Head(box).body])
    /\ box' = Tail(box)
    /\ UNCHANGED <<managerVars, ws, pump, seen, link, sent, got>>

-----------------------------------------------------------------------------
(* wsActor.Receive *)

NextMail(c, type) ==
    /\ ws[c] \in {"running", "poisoned"}
    /\ wsBox[c] # << >> /\ Head(wsBox[c]).type = type

outsideActor == <<managerVars, link, pump, sent>>

(* A dispatch whose ID was dispatched before, or a preload of it, is dropped;
   an error of the write is ignored.  (The 1000 IDs and 10 minutes of the
   filter are SeenLedger's subject.) *)
WsWrites(c) ==
    /\ NextMail(c, "control")
    /\ LET m == Head(wsBox[c]).body.msg
           duplicate == m.type # "abort" /\ m.id \in seen[c]
       IN  /\ seen' = IF m.type = "dispatch" THEN [seen EXCEPT ![c] = @ \union {m.id}] ELSE seen
           /\ got' = IF duplicate \/ link[c] # "up" THEN got
                     ELSE [got EXCEPT ![c] = Append(@, Head(wsBox[c]).body.n)]
    /\ wsBox' = [wsBox EXCEPT ![c] = Tail(@)]
    /\ UNCHANGED <<outsideActor, ws, box>>

(* Bug: the error of the ping is ignored. *)
WsPingsBlindly(c) ==
    /\ NextMail(c, "ping")
    /\ wsBox' = [wsBox EXCEPT ![c] = Tail(@)]
    /\ UNCHANGED <<outsideActor, ws, seen, got, box>>

(* A ping that cannot be written poisons the actor itself. *)
WsPings(c) ==
    /\ NextMail(c, "ping")
    /\ wsBox' = [wsBox EXCEPT ![c] = IF link[c] = "up" THEN Tail(@) ELSE Append(Tail(@), Poison)]
    /\ UNCHANGED <<outsideActor, ws, seen, got, box>>

WsPoisoned(c) ==
    /\ NextMail(c, "poison")
    /\ ws' = [ws EXCEPT ![c] = "poisoned"]
    /\ wsBox' = [wsBox EXCEPT ![c] = Tail(@)]
    /\ UNCHANGED <<outsideActor, seen, got, box>>

(* Stopped: the socket is closed; onClose reports the connection the manager
   has by now. *)
WsStops(c) ==
    /\ ws[c] = "poisoned"
    /\ ws' = [ws EXCEPT ![c] = "stopped"]
    /\ wsBox' = [wsBox EXCEPT ![c] = << >>]
    /\ link' = [link EXCEPT ![c] = "down"]
    /\ box' = Append(box, Closed(activeWS[owner[c]]))
    /\ UNCHANGED <<managerVars, pump, seen, sent, got>>

(* The ticker of a connection is never stopped.  One ping waits at a time. *)
PingTick(c) ==
    /\ ws[c] = "running"
    /\ ~\E n \in 1..Len(wsBox[c]) : wsBox[c][n] \in {Ping, Poison}
    /\ wsBox' = [wsBox EXCEPT ![c] = Append(@, Ping)]
    /\ UNCHANGED <<managerVars, ws, pump, seen, got, link, box, sent>>

(* readPump ends with the first read that fails: the socket is closed, or
   what the bot sent is no JSON.  A silent peer's reads hang. *)
PumpEnds(c) ==
    /\ c \in pump /\ link[c] # "silent"
    /\ pump' = pump \ {c}
    /\ wsBox' = Mail(wsBox, c, Poison)
    /\ UNCHANGED <<managerVars, ws, seen, got, link, box, sent>>

LinkBreaks(c) ==
    /\ ws[c] \in {"running", "poisoned"}
    /\ \/ link[c] = "up" /\ link' = [link EXCEPT ![c] = "silent"]
       \/ link[c] # "down" /\ link' = [link EXCEPT ![c] = "down"]
    /\ UNCHANGED <<managerVars, wsVars, box, sent>>

-----------------------------------------------------------------------------
Manager == ManagerSpawns \/ ManagerAssigns \/ ManagerClosed \/ ManagerForwards

Actor(c) == WsWrites(c) \/ WsPings(c) \/ WsPoisoned(c) \/ WsStops(c)

Next ==
    \/ Manager
    \/ \E c \in Conn : Actor(c) \/ PingTick(c) \/ PumpEnds(c)
    \/ \E c \in Conn : RegisterConnection(c) \/ LinkBreaks(c)
    \/ \E m \in Control : SendControl(m)

Spec == Init /\ [][Next]_vars

(* Actors are scheduled, tickers fire; a read of a closed socket returns
   (the bot is not assumed ever to send what is no JSON). *)
FairSpec ==
    /\ Spec
    /\ WF_vars(Manager)
    /\ \A c \in Conn : WF_vars(Actor(c)) /\ WF_vars(PingTick(c)) /\ WF_vars(link[c] = "down" /\ PumpEnds(c))

-----------------------------------------------------------------------------
Mails == {Ping, Poison} \union
         [type : {"control"}, body : [msg : Control, n : 1..MaxSent]]

TypeOK ==
    /\ record \in 1..MaxRecord
    /\ activeWS \in [1..MaxRecord -> Conn \union {NoConn}]
    /\ spawning \in Conn \union {NoConn}
    /\ ws \in [Conn -> {"unborn", "offered", "running", "poisoned", "stopped"}]
    /\ \A c \in Conn : wsBox[c] \in Seq(Mails) /\ (ws[c] = "stopped" => wsBox[c] = << >>)
    /\ owner \in [Conn -> 1..MaxRecord]
    /\ pump \subseteq Conn /\ sent \in 0..MaxSent

(* What reaches the bot reaches it in the order it was sent and over one    *)
(* connection: an abort never overtakes the dispatch before it, no message  *)
(* is written twice, whatever is poisoned, restarted or replaced meanwhile. *)
Received(c) == {got[c][n] : n \in 1..Len(got[c])}

DeliveredInOrder ==
    /\ \A c \in Conn : \A i, j \in 1..Len(got[c]) : i < j => got[c][i] < got[c][j]
    /\ \A c, d \in Conn : c # d => Received(c) \intersect Received(d) = {}

(* A connection that has been replaced gets nothing that was sent after a   *)
(* message the newer one has received.                                      *)
ReplacedGetsNoNews ==
    [][ \A c, d \in Conn :
          /\ Active = d /\ c # d
          /\ got[c]' # got[c]
          /\ Received(d) # {}
          => \A n \in Received(d) : got[c]'[Len(got[c]')] < n ]_vars

(* The manager lets go of a connection that breaks while it is the active   *)
(* one, even if nothing but the ping notices: the server does not wait for  *)
(* ever on a dead socket.  (A connection that stops before ManagerAssigns   *)
(* has reported another one, or none, and stays.)                           *)
BrokenForgotten ==
    \A c \in Conn :
        (Active = c /\ ws[c] # "stopped" /\ link[c] # "up") ~> (Active # c)

(* manager_actor.go:121 logs "Bot connection closed and cleared" when it    *)
(* clears activeWS: the connection it forgets has been closed.              *)
LiveConnectionKept ==
    [][ \A c \in Conn : (Active = c /\ Active' = NoConn) => ws[c] = "stopped" ]_vars

=============================================================================
