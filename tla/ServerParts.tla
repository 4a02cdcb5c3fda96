------------------------------ MODULE ServerParts ------------------------------
(***************************************************************************)
(* The parts of the server that share no state: the filter of duplicates,  *)
(* the state service, the event store, the hub, the circuit breaker, the   *)
(* runner, the flags and the danger analyzer.  A behaviour animates one of *)
(* them, chosen at the start, and leaves the others in the state they      *)
(* start from; side by side their states would only multiply.              *)
(***************************************************************************)
EXTENDS Naturals, Sequences, FiniteSets

CONSTANTS
    Id, Capacity, TTL,
    Cell, Here, Chunk, MaxZones, MaxTicks, MaxEnds,
    Event, Sent, TaskOf, Worker, ChanCap, BufferCap, BatchSize, MaxFaults,
    Client, QueueCap, SendCap,
    Caller, Limit,
    Key, Value, Broken, MaxWrites

VARIABLES
    part,
    keys, seen, age, others,
    current, version, handler, published, panics, ticks, ends,
    sunk, channels, workers, buffer, batch, batcher, log, phase, lost, faults, overflowed,
    clients, register, unregister, broadcast, send, closings, conn, reading, writing, isShutdown,
    errorCount, circuitOpen, sinceError, openLeft, calls,
    pc, crashCount, sinceStart, sincePing, delay,
    content, modTime, flags, lastMod, watcher, signal, consumer, applied,
    currentState, sinceChange, sinceEscape

ASSUME LedgerAssumption == Capacity \in Nat \ {0} /\ TTL \in Nat \ {0}

ASSUME ZonesAssumption == Here \in Cell /\ MaxZones \in Nat

ASSUME LimitsAssumption ==
    /\ {ChanCap, BufferCap, QueueCap, SendCap} \subseteq Nat
    /\ {BatchSize, Limit} \subseteq Nat \ {0}

ASSUME BoundAssumption == {MaxTicks, MaxEnds, MaxFaults, MaxWrites} \subseteq Nat

Ledger == INSTANCE SeenLedger
State == INSTANCE StateService
Store == INSTANCE EventStore
Hub == INSTANCE UIHub
Breaker == INSTANCE LLMBreaker
Runner == INSTANCE NodeRunner
Config == INSTANCE DynamicFlags
Danger == INSTANCE DangerFSM

ledgerVars == <<keys, seen, age, others>>
stateVars == <<current, version, handler, published, panics, ticks, ends>>
storeVars == <<sunk, channels, workers, buffer, batch, batcher, log, phase, lost, faults, overflowed>>
hubVars == <<clients, register, unregister, broadcast, send, closings, conn,
            reading, writing, isShutdown>>
breakerVars == <<errorCount, circuitOpen, sinceError, openLeft, calls>>
runnerVars == <<pc, crashCount, sinceStart, sincePing, delay>>
configVars == <<content, modTime, flags, lastMod, watcher, signal, consumer, applied>>
dangerVars == <<currentState, sinceChange, sinceEscape>>

vars == <<part, ledgerVars, stateVars, storeVars, hubVars, breakerVars, runnerVars,
          configVars, dangerVars>>

Part == {"ledger", "state", "store", "hub", "breaker", "runner", "config", "danger"}

Init ==
    /\ part \in Part
    /\ Ledger!Init /\ State!Init /\ Store!Init /\ Hub!Init
    /\ Breaker!Init /\ Runner!Init /\ Danger!Init
    /\ Config!Init /\ flags = CHOOSE f \in Config!Flags : TRUE

Next ==
    /\ UNCHANGED part
    /\ IF part = "ledger" THEN Ledger!Next ELSE UNCHANGED ledgerVars
    /\ IF part = "state" THEN State!Next ELSE UNCHANGED stateVars
    /\ IF part = "store" THEN Store!Next ELSE UNCHANGED storeVars
    /\ IF part = "hub" THEN Hub!Next ELSE UNCHANGED hubVars
    /\ IF part = "breaker" THEN Breaker!Next ELSE UNCHANGED breakerVars
    /\ IF part = "runner" THEN Runner!Next ELSE UNCHANGED runnerVars
    /\ IF part = "config" THEN Config!Next ELSE UNCHANGED configVars
    /\ IF part = "danger" THEN Danger!Next ELSE UNCHANGED dangerVars

Spec == Init /\ [][Next]_vars

Animates(p, A) == part = p /\ A /\ Next

(* The worker of the store selects on a timer; the pumps of a client run;   *)
(* events are broadcast for ever; a select of Go that is repeated picks     *)
(* every channel that is ready again and again.                             *)
FairSpec ==
    /\ Spec
    /\ WF_vars(Animates("store", Store!Batch))
    /\ \A c \in Client : WF_vars(Animates("hub", Hub!Pump(c)))
    /\ WF_vars(Animates("hub", Hub!Broadcast))
    /\ SF_vars(Animates("hub", Hub!Register))
    /\ SF_vars(Animates("hub", Hub!Unregister))
    /\ SF_vars(Animates("hub", Hub!TakeBroadcast))

-----------------------------------------------------------------------------
(* The types of all parts                                                   *)
TypeOK ==
    /\ Ledger!TypeOK /\ State!TypeOK /\ Store!TypeOK /\ Hub!TypeOK
    /\ Breaker!TypeOK /\ Runner!TypeOK /\ Config!TypeOK /\ Danger!TypeOK

(* SeenLedger: the memory of the duplicate filter is bounded.               *)
MemoryBounded == Ledger!MemoryBounded

(* SeenLedger: a dispatch is written again within the TTL only after others *)
(* have used the capacity up.                                               *)
NoEarlyRepeat == Ledger!NoEarlyRepeat

(* SeenLedger: an ID is not kept out once its TTL is over.                  *)
ExpiredPasses == Ledger!ExpiredPasses

(* StateService: the memory of dangers and places is lost only where the    *)
(* handlers overlap or the list is full.                                    *)
ForgetsOnlyByOverlap == State!ForgetsOnlyByOverlap

(* EventStore: the store implements EventLog.                               *)
LogSpec == Store!LogSpec

(* EventStore: what is accepted is stored or lost in the end.               *)
AcceptedSettled == Store!AcceptedSettled

(* EventStore: snapshots never make the statistics count an attempt twice.  *)
StatsNeverOvercount == Store!StatsNeverOvercount

(* UIHub: no channel is closed twice or sent to when closed.                *)
NoPanic == Hub!NoPanic

(* UIHub: a client whose connection has ended leaves the map.               *)
BrokenReleased == Hub!BrokenReleased

(* LLMBreaker: an opened circuit stays silent for its minute.               *)
OpenSilent == Breaker!OpenSilent

(* NodeRunner: a process is killed only for its own silence.                *)
KillsOnlyStarved == Runner!KillsOnlyStarved

(* DynamicFlags: no change of the flags is lost on its way.                 *)
SignalNotLost == Config!SignalNotLost

(* DangerFSM: lethal danger is followed, calm takes its time.               *)
DangerFollowed == Danger!DangerFollowed

=============================================================================
