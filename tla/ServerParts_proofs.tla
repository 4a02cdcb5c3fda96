-------------------------- MODULE ServerParts_proofs --------------------------
(***************************************************************************)
(* Proofs about the parts of the server that share no state, for all       *)
(* values of their constants.  A step of ServerParts is a step of one part *)
(* or leaves it alone: each theorem needs only the actions of its part.    *)
(***************************************************************************)
EXTENDS ServerParts, TLAPS, FiniteSetTheorems

(* Whichever part is animated, every part makes a step of its own or none. *)
LEMMA PartSteps ==
    ASSUME [Next]_vars
    PROVE  /\ [Ledger!Next]_ledgerVars /\ [State!Next]_stateVars
           /\ [Store!Next]_storeVars /\ [Hub!Next]_hubVars
           /\ [Breaker!Next]_breakerVars /\ [Runner!Next]_runnerVars
           /\ [Config!Next]_configVars /\ [Danger!Next]_dangerVars
  BY DEF Next, vars

-----------------------------------------------------------------------------
(* DangerFSM: while it recovers, the last change was the end of the escape.  *)
DangerInv ==
    /\ Danger!TypeOK
    /\ currentState \in {"SAFE", "ALERT"} => sinceEscape > 5
    /\ currentState = "RECOVERING" => sinceEscape >= sinceChange

LEMMA DangerKept == Spec => []DangerInv
<1> USE DEF DangerInv
<1>1. Init => DangerInv
  BY DEF Init, Danger!Init, Danger!TypeOK, Danger!AgeCap
<1>2. DangerInv /\ [Next]_vars => DangerInv'
  <2> SUFFICES ASSUME DangerInv, [Danger!Next]_dangerVars PROVE DangerInv'
    BY PartSteps
  <2>1. CASE UNCHANGED dangerVars
    BY <2>1 DEF dangerVars, Danger!TypeOK
  <2>2. CASE Danger!Tick
    BY <2>2 DEF Danger!Tick, Danger!TypeOK, Danger!Older, Danger!AgeCap
  <2>3. ASSUME NEW danger, Danger!Transition(Danger!NextState(danger)) PROVE DangerInv'
    BY <2>3 DEF Danger!Transition, Danger!NextState, Danger!Retriggers, Danger!TypeOK,
                Danger!AgeCap
  <2>4. QED
    BY <2>1, <2>2, <2>3 DEF Danger!Next, Danger!Update
<1>3. QED
  BY <1>1, <1>2, PTL DEF Spec

(* A lethal state leads to the escape at once whatever the analyzer has     *)
(* been through, and calm comes more than 5 seconds after an escape.        *)
THEOREM DangerIsFollowed == Spec => []DangerFollowed
<1>1. DangerInv => DangerFollowed
  BY DEF DangerInv, DangerFollowed, Danger!DangerFollowed, Danger!NextState, Danger!Retriggers,
         Danger!TypeOK
<1>2. QED
  BY <1>1, DangerKept, PTL

-----------------------------------------------------------------------------
(* NodeRunner: only a process that had its 45 seconds itself is killed.     *)
(* While one runs, its last ping is not older than its start.               *)
THEOREM KillsOnlyTheStarved == Spec => KillsOnlyStarved
<1> DEFINE Inv == /\ sinceStart \in Nat /\ sincePing \in Nat
                  /\ pc = "running" => sincePing <= sinceStart
<1> USE DEF Runner!Starved, Runner!Stable
<1>1. Init => Inv
  BY DEF Init, Runner!Init
<1>2. Inv /\ [Next]_vars => Inv'
  <2> SUFFICES ASSUME Inv, [Runner!Next]_runnerVars PROVE Inv'
    BY PartSteps
  <2>1. CASE Runner!Tick
    BY <2>1 DEF Runner!Tick
  <2>2. CASE Runner!Start
    BY <2>2 DEF Runner!Start, Runner!PingOnStartup, Runner!waitBeforeRestart
  <2>3. CASE Runner!WaitIsOver \/ Runner!Ping \/ Runner!Stop \/ UNCHANGED runnerVars
    BY <2>3 DEF Runner!WaitIsOver, Runner!Ping, Runner!Stop, runnerVars
  <2>4. CASE Runner!ProcessEnds \/ Runner!Kill
    BY <2>4 DEF Runner!ProcessEnds, Runner!Kill, Runner!waitBeforeRestart
  <2>5. QED
    BY <2>1, <2>2, <2>3, <2>4 DEF Runner!Next
<1>3. Inv => (pc = "running" /\ sincePing > Runner!Starved => sinceStart > Runner!Starved)
  OBVIOUS
<1>4. QED
  BY <1>1, <1>2, <1>3, PTL DEF Spec, KillsOnlyStarved, Runner!KillsOnlyStarved

-----------------------------------------------------------------------------
(* LLMBreaker: an opened circuit lets no call pass for its minute and is    *)
(* closed only by a success; no report of a call shortens the minute.       *)
THEOREM OpenStaysSilent == Spec => OpenSilent
<1> DEFINE Inv == openLeft \in 0..6 /\ DOMAIN calls = Caller
<1>1. Init => Inv
  BY DEF Init, Breaker!Init
<1>2. Inv /\ [Next]_vars => Inv'
  <2> SUFFICES ASSUME Inv, [Breaker!Next]_breakerVars PROVE Inv'
    BY PartSteps
  <2>1. CASE Breaker!Tick \/ UNCHANGED breakerVars
    BY <2>1 DEF Breaker!Tick, breakerVars
  <2>2. ASSUME NEW w \in Caller,
               Breaker!Call(w) \/ Breaker!GivesUp(w) \/ Breaker!Succeeds(w) \/ Breaker!Fails(w)
        PROVE  Inv'
    <3>1. openLeft' = openLeft \/ openLeft' = 6
      BY <2>2 DEF Breaker!Call, Breaker!GivesUp, Breaker!Succeeds, Breaker!Fails, Breaker!Opening
    <3>2. DOMAIN calls' = DOMAIN calls
      BY <2>2 DEF Breaker!Call, Breaker!GivesUp, Breaker!Succeeds, Breaker!Fails
    <3>3. QED
      BY <3>1, <3>2
  <2>3. QED
    BY <2>1, <2>2 DEF Breaker!Next, Breaker!GenerateWithFormat, Breaker!CreateEmbedding
<1> DEFINE Kept == Breaker!Silent => /\ circuitOpen' \/ \E w \in Caller : Breaker!Succeeds(w)
                                     /\ openLeft' >= openLeft - 1
                                     /\ \A w \in Caller : calls'[w] => calls[w]
<1>3. Inv /\ [Next]_vars => Kept \/ UNCHANGED breakerVars
  <2> SUFFICES ASSUME Inv, Breaker!Next PROVE Kept
    BY PartSteps
  <2>1. CASE Breaker!Tick
    BY <2>1 DEF Breaker!Tick, Breaker!Silent
  <2>2. ASSUME NEW w \in Caller, Breaker!Call(w), Breaker!Silent PROVE Kept
    <3>1. openLeft' >= openLeft - 1
      BY <2>2 DEF Breaker!Call
    <3>2. circuitOpen'
      <4>1. circuitOpen /\ ~Breaker!Expired
        BY <2>2 DEF Breaker!Expired, Breaker!Silent
      <4>2. QED
        BY <2>2, <4>1, Zenon DEF Breaker!Call
    <3>3. \A v \in Caller : calls'[v] => calls[v]
      BY <2>2, <3>2 DEF Breaker!Call
    <3>4. QED
      BY <3>1, <3>2, <3>3
  <2>3. ASSUME NEW w \in Caller, Breaker!Succeeds(w) PROVE Kept
    <3>1. openLeft' = openLeft /\ calls' = [calls EXCEPT ![w] = FALSE]
      BY <2>3 DEF Breaker!Succeeds
    <3>2. QED
      BY <2>3, <3>1
  <2>4. ASSUME NEW w \in Caller, Breaker!Fails(w), Breaker!Silent PROVE Kept
    <3>1. openLeft' >= openLeft - 1
      BY <2>4 DEF Breaker!Fails, Breaker!Opening
    <3>2. circuitOpen'
      BY <2>4, Zenon DEF Breaker!Fails, Breaker!OpenAfter, Breaker!Silent
    <3>3. \A v \in Caller : calls'[v] => calls[v]
      BY <2>4 DEF Breaker!Fails
    <3>4. QED
      BY <3>1, <3>2, <3>3
  <2>5. ASSUME NEW w \in Caller, Breaker!GivesUp(w) PROVE Kept
    <3>1. UNCHANGED <<circuitOpen, openLeft>> /\ calls' = [calls EXCEPT ![w] = FALSE]
      BY <2>5 DEF Breaker!GivesUp
    <3>2. \A v \in Caller : calls'[v] => calls[v]
      BY <3>1
    <3>3. Breaker!Silent => circuitOpen' /\ openLeft' >= openLeft - 1
      <4>1. Breaker!Silent => circuitOpen'
        BY <3>1, Zenon DEF Breaker!Silent
      <4>2. openLeft' >= openLeft - 1
        BY <3>1
      <4>3. QED
        BY <4>1, <4>2
    <3>4. QED
      BY <3>2, <3>3
  <2>6. QED
    BY <2>1, <2>2, <2>3, <2>4, <2>5
       DEF Breaker!Next, Breaker!GenerateWithFormat, Breaker!CreateEmbedding
<1>4. QED
  BY <1>1, <1>2, <1>3, PTL DEF Spec, OpenSilent, Breaker!OpenSilent, Breaker!vars, breakerVars

-----------------------------------------------------------------------------
(* UIHub: no channel is closed twice or sent to when closed.  A client is   *)
(* registered once: while it waits for that it is no member and its channel *)
(* is open, and before it connects it is nowhere.                           *)
HubInv ==
    /\ register \in Seq(Client) /\ clients \subseteq Client
    /\ closings \in [Client -> Nat]
    /\ conn \in [Client -> {"none", "open", "broken", "closed"}]
    /\ Hub!NoPanic
    /\ \A n \in 1..Len(register) :
          /\ register[n] \notin clients /\ closings[register[n]] = 0
          /\ conn[register[n]] # "none"
    /\ \A m, n \in 1..Len(register) : register[m] = register[n] => m = n
    /\ \A c \in Client : conn[c] = "none" => c \notin clients /\ closings[c] = 0

THEOREM HubNeverPanics == Spec => []NoPanic
<1>1. Init => HubInv
  BY DEF Init, Hub!Init, HubInv, Hub!NoPanic
<1>2. HubInv /\ [Next]_vars => HubInv'
  <2> SUFFICES ASSUME HubInv, [Hub!Next]_hubVars PROVE HubInv'
    BY PartSteps
  <2> USE DEF HubInv, Hub!NoPanic, Hub!pumps, Hub!channels
  <2>1. ASSUME NEW c \in Client, Hub!HandleConnections(c) PROVE HubInv'
    <3>1. CASE Len(register) < QueueCap
      <4>1. /\ register' = Append(register, c) /\ conn' = [conn EXCEPT ![c] = "open"]
            /\ conn[c] = "none" /\ UNCHANGED <<clients, closings>>
        BY <2>1, <3>1 DEF Hub!HandleConnections
      <4>2. /\ register' \in Seq(Client) /\ Len(register') = Len(register) + 1
            /\ \A n \in 1..Len(register) : register'[n] = register[n]
            /\ register'[Len(register) + 1] = c
        BY <4>1
      <4>3. conn' \in [Client -> {"none", "open", "broken", "closed"}] /\ conn'[c] = "open"
            /\ \A d \in Client : d # c => conn'[d] = conn[d]
        BY <4>1
      <4>4. \A n \in 1..Len(register') : n \in 1..Len(register) \/ n = Len(register) + 1
        BY <4>2
      <4>5. \A n \in 1..Len(register) : register[n] # c /\ register[n] \in Client
        BY <4>1
      <4>6. QED
        BY <4>1, <4>2, <4>3, <4>4, <4>5
    <3>2. CASE ~(Len(register) < QueueCap)
      BY <2>1, <3>2 DEF Hub!HandleConnections
    <3>3. QED
      BY <3>1, <3>2
  <2>2. ASSUME NEW c \in Client, Hub!PeerLeaves(c) PROVE HubInv'
    BY <2>2 DEF Hub!PeerLeaves
  <2>3. ASSUME NEW c \in Client, Hub!Pump(c) PROVE HubInv'
    <3>1. UNCHANGED <<clients, register, closings>>
      BY <2>3 DEF Hub!Pump, Hub!ReadFails, Hub!WriteMessage, Hub!WriteStops, Hub!unchangedByWriter
    <3>2. conn' \in {conn, [conn EXCEPT ![c] = "closed"]}
      BY <2>3 DEF Hub!Pump, Hub!ReadFails, Hub!WriteMessage, Hub!WriteStops, Hub!WriteEnds
    <3>3. (conn[c] = "none") => (conn'[c] = "none" \/ (c \notin clients /\ closings[c] = 0))
      OBVIOUS
    <3>4. QED
      BY <3>1, <3>2
  <2>4. CASE Hub!Broadcast \/ Hub!TakeBroadcast \/ UNCHANGED hubVars
    BY <2>4 DEF Hub!Broadcast, Hub!TakeBroadcast, hubVars
  <2>5. CASE Hub!Register
    BY <2>5 DEF Hub!Register
  <2>6. CASE Hub!Unregister
    BY <2>6 DEF Hub!Unregister, Hub!Known
  <2>7. CASE Hub!Shutdown
    BY <2>7 DEF Hub!Shutdown
  <2>8. QED
    BY <2>1, <2>2, <2>3, <2>4, <2>5, <2>6, <2>7 DEF Hub!Next
<1>3. QED
  BY <1>1, <1>2, PTL DEF Spec, HubInv, NoPanic

-----------------------------------------------------------------------------
(* DynamicFlags: no change of the flags is lost on its way.  Flags the loop *)
(* has in hand that are not the current ones will be followed by others.    *)
ConfigInv ==
    /\ watcher \in [at : {"sleeping", "stat", "read", "notify"}, time : Nat]
    /\ consumer.at \in {"waiting", "get", "humanizer", "engine"}
    /\ consumer = [at |-> consumer.at, flags |-> consumer.flags]
    /\ DOMAIN applied = Config!Component
    /\ modTime \in Nat /\ lastMod \in Nat
    /\ lastMod <= modTime /\ watcher.time <= modTime
    /\ Config!SignalNotLost
    /\ (consumer.at \in {"humanizer", "engine"} /\ consumer.flags # flags) =>
          (signal \/ watcher.at = "notify")

THEOREM NoSignalLost == Spec => []SignalNotLost
<1>1. Init => ConfigInv
  BY DEF Init, Config!Init, ConfigInv, Config!SignalNotLost, Config!Sleeping, Config!Waiting,
         Config!Component
<1>2. ConfigInv /\ [Next]_vars => ConfigInv'
  <2> SUFFICES ASSUME ConfigInv, [Config!Next]_configVars PROVE ConfigInv'
    BY PartSteps
  <2> USE DEF ConfigInv, Config!SignalNotLost, Config!Underway, Config!Component
  <2>1. CASE Config!FileWritten \/ Config!CheckChanged \/ Config!StatFile \/ Config!Notify
    BY <2>1 DEF Config!FileWritten, Config!CheckChanged, Config!StatFile, Config!Notify,
                Config!Sleeping, Config!Merged
  <2>2. CASE Config!LoadFile
    BY <2>2 DEF Config!LoadFile, Config!Sleeping, Config!Merged
  <2>3. CASE Config!ConsumerTakes \/ Config!ConsumerGets
    BY <2>3 DEF Config!ConsumerTakes, Config!ConsumerGets, Config!Reads, Config!Merged
  <2>4. CASE Config!UpdateConfig("humanizer", "engine") \/ Config!UpdateConfig("engine", "waiting")
    BY <2>4 DEF Config!UpdateConfig, Config!Merged
  <2>5. CASE UNCHANGED configVars
    BY <2>5 DEF configVars, Config!Merged
  <2>6. QED
    BY <2>1, <2>2, <2>3, <2>4, <2>5 DEF Config!Next
<1>3. QED
  BY <1>1, <1>2, PTL DEF Spec, ConfigInv, SignalNotLost

-----------------------------------------------------------------------------
(* SeenLedger.  The popped keys are the first ones: what is left of the     *)
(* list is what follows them.                                               *)
LEMMA Prefix ==
    ASSUME NEW L \in Nat, NEW P \in SUBSET (1..L), \A n \in P : 1..n \subseteq P
    PROVE  Cardinality(P) \in 0..L /\ P = 1..Cardinality(P)
<1> DEFINE c == Cardinality(P)
<1>1. IsFiniteSet(P) /\ c <= L /\ c \in Nat
  <2>1. IsFiniteSet(1..L) /\ Cardinality(1..L) = L
    BY FS_Interval
  <2>2. IsFiniteSet(P) /\ c <= L
    <3>1. P \in SUBSET (1..L)
      OBVIOUS
    <3>2. QED
      BY <2>1, <3>1, FS_Subset, Zenon
  <2>3. QED
    BY <2>2, FS_CardinalityType
<1>2. ASSUME NEW n \in P PROVE n \in 1..c
  <2>1. 1..n \in SUBSET P /\ n \in Nat /\ n >= 1
    OBVIOUS
  <2>2. Cardinality(1..n) = n
    BY <2>1, FS_Interval
  <2>3. Cardinality(1..n) <= c
    BY <1>1, <2>1, FS_Subset
  <2>4. QED
    BY <1>1, <2>1, <2>2, <2>3
<1>3. P \in SUBSET (1..c)
  BY <1>2
<1>4. IsFiniteSet(1..c) /\ Cardinality(1..c) = c
  BY <1>1, FS_Interval
<1>5. P = 1..c
  BY <1>3, <1>4, FS_Subset
<1>6. QED
  BY <1>1, <1>5

LEMMA Cleanup ==
    ASSUME Ledger!TypeOK
    PROVE  \E k \in 0..Len(keys) :
              /\ Ledger!KeptKeys \in Seq(Id) /\ Len(Ledger!KeptKeys) = Len(keys) - k
              /\ \A i \in 1..(Len(keys) - k) : Ledger!KeptKeys[i] = keys[k + i]
              /\ \A i \in 1..k : keys[i] \in seen /\ age[keys[i]] > TTL
              /\ Ledger!KeptSeen = seen \ {keys[i] : i \in 1..k}
<1> DEFINE k == Cardinality(Ledger!Pops)
<1>1. Len(keys) \in Nat /\ keys \in Seq(Id)
  BY DEF Ledger!TypeOK
<1>2. Ledger!Pops \in SUBSET (1..Len(keys))
  BY DEF Ledger!Pops
<1>3. \A n \in Ledger!Pops : 1..n \subseteq Ledger!Pops
  BY <1>1 DEF Ledger!Pops
<1>4. k \in 0..Len(keys) /\ Ledger!Pops = 1..k
  BY <1>1, <1>2, <1>3, Prefix
<1>5. \A i \in 1..k : Ledger!Expired(keys[i])
  <2> TAKE i \in 1..k
  <2>1. i \in Ledger!Pops /\ i \in 1..i
    BY <1>4
  <2>2. QED
    BY <2>1 DEF Ledger!Pops
<1>6. Ledger!KeptKeys = SubSeq(keys, k + 1, Len(keys))
  BY DEF Ledger!KeptKeys, Ledger!Cardinality, Cardinality
<1>7. /\ Ledger!KeptKeys \in Seq(Id) /\ Len(Ledger!KeptKeys) = Len(keys) - k
      /\ \A i \in 1..(Len(keys) - k) : Ledger!KeptKeys[i] = keys[k + i]
  BY <1>1, <1>4, <1>6
<1>8. Ledger!KeptSeen = seen \ {keys[i] : i \in 1..k}
  BY <1>4 DEF Ledger!KeptSeen
<1>9. QED
  BY <1>4, <1>5, <1>7, <1>8 DEF Ledger!Expired

(* Every entry has its key, and an ID dispatched within the TTL has the key *)
(* that follows it by as many others as have been recorded since, unless    *)
(* they are as many as the capacity.                                        *)
Placed(id) == others[id] < Len(keys) /\ keys[Len(keys) - others[id]] = id

LedgerInv ==
    /\ Ledger!TypeOK
    /\ Ledger!MemoryBounded
    /\ \A id \in Id : age[id] <= TTL /\ others[id] < Capacity => Placed(id)

LEMMA LedgerChecks ==
    ASSUME LedgerInv, NEW late \in 0..1, Ledger!JustChecks(late)
    PROVE  LedgerInv'
<1>1. PICK k \in 0..Len(keys) :
              /\ keys' \in Seq(Id) /\ Len(keys') = Len(keys) - k
              /\ \A i \in 1..(Len(keys) - k) : keys'[i] = keys[k + i]
              /\ \A i \in 1..k : keys[i] \in seen /\ age[keys[i]] > TTL
              /\ seen' = seen \ {keys[i] : i \in 1..k}
  BY Cleanup DEF LedgerInv, Ledger!JustChecks
<1>2. /\ age' \in [Id -> 0..(TTL + 1)] /\ others' = others
      /\ \A id \in Id : age'[id] <= TTL => age[id] <= TTL
  BY LedgerAssumption DEF LedgerInv, Ledger!JustChecks, Ledger!TypeOK, Ledger!Older, Ledger!AgeCap
<1>3. Len(keys) \in Nat /\ keys \in Seq(Id) /\ Len(keys) <= Capacity
  BY DEF LedgerInv, Ledger!TypeOK, Ledger!MemoryBounded
<1>4. Ledger!TypeOK'
  BY <1>1, <1>2 DEF LedgerInv, Ledger!TypeOK, Ledger!AgeCap
<1>5. Ledger!MemoryBounded'
  <2>1. Len(keys') <= Capacity
    BY <1>1, <1>3, LedgerAssumption
  <2>2. ASSUME NEW id \in seen' PROVE \E n \in 1..Len(keys') : keys'[n] = id
    <3>1. PICK n \in 1..Len(keys) : keys[n] = id
      BY <1>1 DEF LedgerInv, Ledger!MemoryBounded
    <3>2. n > k
      BY <1>1, <1>3, <3>1
    <3>3. n - k \in 1..Len(keys') /\ keys'[n - k] = id
      BY <1>1, <1>3, <3>1, <3>2
    <3>4. QED
      BY <3>3
  <2>3. QED
    BY <2>1, <2>2 DEF Ledger!MemoryBounded
<1>6. ASSUME NEW id \in Id, age'[id] <= TTL, others'[id] < Capacity PROVE Placed(id)'
  <2> DEFINE p == Len(keys) - others[id]
  <2>1. age[id] <= TTL /\ others[id] < Len(keys) /\ keys[p] = id
    BY <1>2, <1>6 DEF LedgerInv, Placed
  <2>2. others[id] \in Nat /\ age[id] \in Nat
    BY LedgerAssumption DEF LedgerInv, Ledger!TypeOK, Ledger!AgeCap
  <2>3. p \in 1..Len(keys) /\ ~(p \in 1..k)
    BY <1>1, <1>3, <2>1, <2>2, LedgerAssumption
  <2>4. p - k \in 1..(Len(keys) - k) /\ keys'[p - k] = id
    BY <1>1, <1>3, <2>1, <2>3
  <2>5. others'[id] < Len(keys') /\ Len(keys') - others'[id] = p - k
    <3>1. others'[id] = others[id] /\ Len(keys') = Len(keys) - k
      BY <1>1, <1>2
    <3>2. k \in Nat /\ p - k >= 1
      BY <1>3, <2>4
    <3>3. QED
      BY <1>3, <2>2, <3>1, <3>2
  <2>6. QED
    BY <2>4, <2>5 DEF Placed
<1>7. QED
  BY <1>4, <1>5, <1>6 DEF LedgerInv

(* Recording drops the first j keys: the expired ones and, from a full      *)
(* list, one more; then as many follow it as the capacity allows.           *)
LEMMA Recording ==
    ASSUME LedgerInv, NEW id \in Id, NEW late \in 0..1, Ledger!Record(id, late)
    PROVE  \E j \in 0..Len(keys) :
              /\ keys' \in Seq(Id) /\ Len(keys') = Len(keys) - j + 1
              /\ Len(keys') <= Capacity
              /\ \A i \in 1..(Len(keys) - j) : keys'[i] = keys[j + i]
              /\ keys'[Len(keys')] = id
              /\ seen' = (seen \ {keys[i] : i \in 1..j}) \union {id}
              /\ \A i \in 1..j : age[keys[i]] > TTL \/ (i = j /\ Len(keys') = Capacity)
<1> DEFINE K == Ledger!KeptKeys
<1>1. PICK k \in 0..Len(keys) :
              /\ K \in Seq(Id) /\ Len(K) = Len(keys) - k
              /\ \A i \in 1..(Len(keys) - k) : K[i] = keys[k + i]
              /\ \A i \in 1..k : keys[i] \in seen /\ age[keys[i]] > TTL
              /\ Ledger!KeptSeen = seen \ {keys[i] : i \in 1..k}
  BY Cleanup DEF LedgerInv
<1>2. Len(keys) \in Nat /\ keys \in Seq(Id) /\ Len(keys) <= Capacity /\ Capacity \in Nat \ {0}
  BY LedgerAssumption DEF LedgerInv, Ledger!TypeOK, Ledger!MemoryBounded
<1>3. CASE Ledger!Full
  <2>1. keys' = Append(Tail(K), id) /\ seen' = (Ledger!KeptSeen \ {Head(K)}) \union {id}
    BY <1>3 DEF Ledger!Record
  <2>2. Len(K) = Capacity /\ k + 1 <= Len(keys)
    BY <1>1, <1>2, <1>3 DEF Ledger!Full
  <2>3. K # << >> /\ Head(K) = keys[k + 1]
    BY <1>1, <1>2, <2>2
  <2>4. /\ keys' \in Seq(Id) /\ Len(keys') = Capacity
        /\ \A i \in 1..(Len(K) - 1) : keys'[i] = K[i + 1]
        /\ keys'[Len(keys')] = id
    BY <1>1, <1>2, <2>1, <2>2, <2>3
  <2>5. Len(keys') = Len(keys) - (k + 1) + 1
    BY <1>1, <1>2, <2>2, <2>4
  <2>6. ASSUME NEW i \in 1..(Len(keys) - (k + 1)) PROVE keys'[i] = keys[(k + 1) + i]
    <3>1. i \in 1..(Len(K) - 1) /\ i + 1 \in 1..(Len(keys) - k)
      BY <1>1, <1>2
    <3>2. k + (i + 1) = (k + 1) + i
      BY <1>1, <1>2
    <3>3. QED
      BY <1>1, <2>4, <3>1, <3>2
  <2>7. seen' = (seen \ {keys[i] : i \in 1..(k + 1)}) \union {id}
    <3>1. {keys[i] : i \in 1..(k + 1)} = {keys[i] : i \in 1..k} \union {keys[k + 1]}
      <4>1. 1..(k + 1) = (1..k) \union {k + 1}
        BY <1>1, <1>2
      <4>2. QED
        BY <4>1
    <3>2. QED
      BY <1>1, <2>1, <2>3, <3>1
  <2>8. \A i \in 1..(k + 1) : i \in 1..k \/ i = k + 1
    BY <1>1, <1>2
  <2>9. k + 1 \in 0..Len(keys)
    BY <1>1, <1>2, <2>2
  <2>10. \A i \in 1..(k + 1) : age[keys[i]] > TTL \/ (i = k + 1 /\ Len(keys') = Capacity)
    BY <1>1, <2>4, <2>8
  <2>11. Len(keys') <= Capacity
    BY <1>2, <2>4
  <2> HIDE DEF K
  <2>12. QED
    BY <2>4, <2>5, <2>6, <2>7, <2>9, <2>10, <2>11
<1>4. CASE ~Ledger!Full
  <2>1. keys' = Append(K, id) /\ seen' = Ledger!KeptSeen \union {id}
    BY <1>4 DEF Ledger!Record
  <2>2. Len(K) < Capacity
    BY <1>1, <1>2, <1>4 DEF Ledger!Full
  <2>3. /\ keys' \in Seq(Id) /\ Len(keys') = Len(K) + 1 /\ Len(keys') <= Capacity
        /\ \A i \in 1..Len(K) : keys'[i] = K[i]
        /\ keys'[Len(keys')] = id
    BY <1>1, <1>2, <2>1, <2>2
  <2> HIDE DEF K
  <2>4. QED
    BY <1>1, <2>1, <2>3
<1>5. QED
  BY <1>3, <1>4

LEMMA LedgerRecords ==
    ASSUME LedgerInv, NEW id \in Id, NEW late \in 0..1, Ledger!Record(id, late)
    PROVE  LedgerInv'
<1>1. PICK j \in 0..Len(keys) :
              /\ keys' \in Seq(Id) /\ Len(keys') = Len(keys) - j + 1
              /\ Len(keys') <= Capacity
              /\ \A i \in 1..(Len(keys) - j) : keys'[i] = keys[j + i]
              /\ keys'[Len(keys')] = id
              /\ seen' = (seen \ {keys[i] : i \in 1..j}) \union {id}
              /\ \A i \in 1..j : age[keys[i]] > TTL \/ (i = j /\ Len(keys') = Capacity)
  BY Recording
<1>2. Len(keys) \in Nat /\ j \in Nat /\ keys \in Seq(Id) /\ seen \subseteq Id
  BY DEF LedgerInv, Ledger!TypeOK
<1>3. age \in [Id -> 0..(TTL + 1)] /\ others \in [Id -> 0..Capacity]
      /\ TTL \in Nat \ {0} /\ Capacity \in Nat \ {0}
  BY LedgerAssumption DEF LedgerInv, Ledger!TypeOK, Ledger!AgeCap
<1>4. age' \in [Id -> 0..(TTL + 1)]
      /\ \A i \in Id : i # id /\ age'[i] <= TTL => age[i] <= TTL
  BY <1>3 DEF Ledger!Record, Ledger!Aged, Ledger!Older, Ledger!AgeCap
<1>5. /\ others' \in [Id -> 0..Capacity] /\ others'[id] = 0
      /\ \A i \in Id : i # id /\ others'[i] < Capacity => others'[i] = others[i] + 1
                                                         /\ others[i] < Capacity
  BY <1>3 DEF Ledger!Record
<1>6. Ledger!TypeOK'
  BY <1>1, <1>2, <1>4, <1>5 DEF Ledger!TypeOK, Ledger!AgeCap
<1>7. Ledger!MemoryBounded'
  <2>1. Len(keys') \in 1..Len(keys')
    BY <1>1, <1>2
  <2>2. ASSUME NEW i \in seen', i # id PROVE \E n \in 1..Len(keys') : keys'[n] = i
    <3>1. PICK n \in 1..Len(keys) : keys[n] = i
      BY <1>1, <2>2 DEF LedgerInv, Ledger!MemoryBounded
    <3>2. ~(n \in 1..j)
      BY <1>1, <2>2, <3>1
    <3>3. n - j \in 1..(Len(keys) - j) /\ j + (n - j) = n
      BY <1>2, <3>2
    <3>4. keys'[n - j] = i /\ n - j \in 1..Len(keys')
      BY <1>1, <1>2, <3>1, <3>3
    <3>5. QED
      BY <3>4
  <2>3. QED
    BY <1>1, <2>1, <2>2 DEF Ledger!MemoryBounded
<1>8. ASSUME NEW i \in Id, age'[i] <= TTL, others'[i] < Capacity PROVE Placed(i)'
  <2>1. CASE i = id
    BY <1>1, <1>2, <1>5, <2>1 DEF Placed
  <2>2. CASE i # id
    <3> DEFINE p == Len(keys) - others[i]
    <3>1. age[i] <= TTL /\ others'[i] = others[i] + 1 /\ others[i] < Capacity
      BY <1>4, <1>5, <1>8, <2>2
    <3>2. others[i] < Len(keys) /\ keys[p] = i
      BY <3>1 DEF LedgerInv, Placed
    <3>3. others[i] \in Nat /\ age[i] \in Nat
      BY <1>3
    <3>4. p \in 1..Len(keys)
      BY <1>2, <3>2, <3>3
    <3>5. p # j \/ Len(keys') # Capacity
      BY <1>1, <1>2, <1>8, <3>1, <3>3
    <3>6. ~(p \in 1..j)
      <4> SUFFICES ASSUME p \in 1..j PROVE FALSE
        OBVIOUS
      <4>1. age[keys[p]] > TTL
        BY <1>1, <3>5
      <4>2. QED
        BY <1>3, <3>1, <3>2, <3>3, <4>1
    <3>7. p - j \in 1..(Len(keys) - j) /\ j + (p - j) = p
      BY <1>2, <3>4, <3>6
    <3>8. keys'[p - j] = i
      BY <1>1, <3>2, <3>7
    <3>9. Len(keys') - others'[i] = p - j
      BY <1>1, <1>2, <3>1, <3>3
    <3>10. others'[i] < Len(keys')
      BY <1>1, <1>2, <3>1, <3>3, <3>7
    <3>11. QED
      BY <3>8, <3>9, <3>10 DEF Placed
  <2>3. QED
    BY <2>1, <2>2
<1>9. QED
  BY <1>6, <1>7, <1>8 DEF LedgerInv

LEMMA LedgerInductive ==
    /\ Init => LedgerInv
    /\ LedgerInv /\ [Next]_vars => LedgerInv'
<1>1. Init => LedgerInv
  BY LedgerAssumption DEF Init, Ledger!Init, LedgerInv, Ledger!TypeOK, Ledger!MemoryBounded,
                          Ledger!AgeCap
<1>2. ASSUME LedgerInv, [Next]_vars PROVE LedgerInv'
  <2> SUFFICES ASSUME [Ledger!Next]_ledgerVars PROVE LedgerInv'
    BY <1>2, PartSteps
  <2>1. CASE UNCHANGED ledgerVars
    BY <1>2, <2>1 DEF ledgerVars, LedgerInv, Placed, Ledger!TypeOK, Ledger!MemoryBounded
  <2>2. CASE Ledger!Tick
    <3>1. UNCHANGED <<keys, seen, others>>
      BY <2>2 DEF Ledger!Tick
    <3>2. age' \in [Id -> 0..(TTL + 1)] /\ \A id \in Id : age'[id] <= TTL => age[id] <= TTL
      BY <1>2, <2>2, LedgerAssumption
         DEF Ledger!Tick, LedgerInv, Ledger!TypeOK, Ledger!Older, Ledger!AgeCap
    <3>3. QED
      BY <1>2, <3>1, <3>2
         DEF LedgerInv, Placed, Ledger!TypeOK, Ledger!MemoryBounded, Ledger!AgeCap
  <2>3. ASSUME NEW id \in Id, NEW late \in 0..1,
               Ledger!Dispatch(id, late) \/ Ledger!Preload(id, late)
        PROVE  LedgerInv'
    BY <1>2, <2>3, LedgerChecks, LedgerRecords DEF Ledger!Dispatch, Ledger!Preload
  <2>4. QED
    BY <2>1, <2>2, <2>3 DEF Ledger!Next
<1>3. QED
  BY <1>1, <1>2

(* The memory of the filter is bounded: no entry outlives its key, and the  *)
(* list never exceeds the capacity.                                         *)
THEOREM MemoryIsBounded == Spec => []MemoryBounded
<1>1. LedgerInv => MemoryBounded
  BY DEF LedgerInv, MemoryBounded
<1>2. QED
  BY <1>1, LedgerInductive, PTL DEF Spec

(* The dispatch of an ID is written again within the TTL only after the     *)
(* capacity of the filter has been used up by others, or the list holds a   *)
(* second key of it.                                                        *)
THEOREM NothingRepeatsEarly == Spec => NoEarlyRepeat
<1> DEFINE Kept == \A id \in Id, late \in 0..1 :
                     /\ age[id] + late < TTL /\ others[id] < Capacity
                     /\ ~Ledger!Muddled(id) /\ ~Ledger!IsDuplicate(id, late)
                     => ~Ledger!Dispatch(id, late)
<1>1. ASSUME LedgerInv, NEW id \in Id, NEW late \in 0..1,
             age[id] + late < TTL, others[id] < Capacity, ~Ledger!Muddled(id)
      PROVE  Ledger!IsDuplicate(id, late)
  <2>1. /\ age[id] \in Nat /\ others[id] \in Nat /\ Len(keys) \in Nat /\ TTL \in Nat
        /\ age[id] <= TTL
    BY <1>1, LedgerAssumption DEF LedgerInv, Ledger!TypeOK, Ledger!AgeCap
  <2> DEFINE N == {n \in 1..Len(keys) : keys[n] = id}
  <2>2. N # {}
    <3>1. Placed(id)
      BY <1>1, <2>1 DEF LedgerInv
    <3>2. Len(keys) - others[id] \in N
      BY <2>1, <3>1 DEF Placed
    <3>3. QED
      BY <3>2
  <2>3. Cardinality(N) # 0
    <3>1. IsFiniteSet(1..Len(keys)) /\ N \in SUBSET (1..Len(keys))
      BY <2>1, FS_Interval
    <3>2. IsFiniteSet(N)
      BY <3>1, FS_Subset
    <3>3. QED
      BY <2>2, <3>2, FS_EmptySet
  <2>4. Ledger!Listed(id) = Cardinality(N)
    BY DEF Ledger!Listed, Ledger!Cardinality, Cardinality
  <2>5. id \in seen
    BY <1>1, <2>3, <2>4 DEF Ledger!Muddled
  <2>6. PICK k \in 0..Len(keys) :
              /\ \A i \in 1..k : keys[i] \in seen /\ age[keys[i]] > TTL
              /\ Ledger!KeptSeen = seen \ {keys[i] : i \in 1..k}
    BY <1>1, Cleanup DEF LedgerInv
  <2>7. id \in Ledger!KeptSeen
    BY <2>1, <2>5, <2>6
  <2>8. QED
    BY <1>1, <2>7 DEF Ledger!IsDuplicate
<1>2. LedgerInv => Kept
  BY <1>1
<1>3. QED
  BY <1>2, LedgerInductive, PTL DEF Spec, NoEarlyRepeat, Ledger!NoEarlyRepeat, Ledger!vars

(* An ID is not kept out once its TTL is over, even if a key without an     *)
(* entry has stopped the cleanup.                                           *)
THEOREM ExpiredIsLetThrough == Spec => ExpiredPasses
<1> DEFINE Passes == \A id \in Id, late \in 0..1 :
                     (age[id] > TTL /\ age'[id] # 0) => ~Ledger!Dispatch(id, late)
<1>1. ASSUME LedgerInv, NEW id \in Id, NEW late \in 0..1, age[id] > TTL,
             Ledger!Dispatch(id, late)
      PROVE  age'[id] = 0
  <2>1. age[id] \in Nat /\ TTL \in Nat
    BY <1>1, LedgerAssumption DEF LedgerInv, Ledger!TypeOK, Ledger!AgeCap
  <2>2. ~Ledger!IsDuplicate(id, late)
    BY <1>1, <2>1 DEF Ledger!IsDuplicate
  <2>3. QED
    BY <1>1, <2>2 DEF Ledger!Dispatch, Ledger!Record, Ledger!Aged
<1>2. LedgerInv => Passes
  BY <1>1
<1>3. QED
  BY <1>2, LedgerInductive, PTL DEF Spec, ExpiredPasses, Ledger!ExpiredPasses, Ledger!vars

-----------------------------------------------------------------------------
(* StateService.  The positions of the first mentions can be put in order.  *)
Rank(S, n) == {m \in S : m <= n}

LEMMA InOrderExists ==
    ASSUME NEW L \in Nat, NEW S \in SUBSET (1..L)
    PROVE  /\ IsFiniteSet(S) /\ Cardinality(S) \in Nat
           /\ \E f \in [1..Cardinality(S) -> S] : \A i, j \in DOMAIN f : i < j => f[i] < f[j]
<1> DEFINE c == Cardinality(S)
           r == [n \in S |-> Cardinality(Rank(S, n))]
           f == [i \in 1..c |-> CHOOSE n \in S : r[n] = i]
<1>0. \A n \in S : n \in Nat
  OBVIOUS
<1>1. IsFiniteSet(S) /\ c \in Nat
  <2>1. IsFiniteSet(1..L)
    BY FS_Interval
  <2>2. IsFiniteSet(S)
    BY <2>1, FS_Subset
  <2>3. QED
    BY <2>2, FS_CardinalityType
<1>2. ASSUME NEW n \in S
      PROVE  IsFiniteSet(Rank(S, n)) /\ Cardinality(Rank(S, n)) \in 1..c
  <2>1. Rank(S, n) \in SUBSET S /\ n \in Rank(S, n)
    BY DEF Rank
  <2>2. IsFiniteSet(Rank(S, n)) /\ Cardinality(Rank(S, n)) <= c
    BY <1>1, <2>1, FS_Subset
  <2>3. Cardinality(Rank(S, n)) \in Nat /\ Cardinality(Rank(S, n)) # 0
    BY <2>1, <2>2, FS_CardinalityType, FS_EmptySet
  <2>4. QED
    BY <1>1, <2>2, <2>3
<1>3. ASSUME NEW m \in S, NEW n \in S, m < n PROVE r[m] < r[n]
  <2>1. Rank(S, m) \in SUBSET Rank(S, n)
    <3> SUFFICES ASSUME NEW k \in S, k <= m PROVE k <= n
      BY DEF Rank
    <3>1. k \in Nat /\ m \in Nat /\ n \in Nat
      BY <1>0
    <3>2. QED
      BY <1>3, <3>1
  <2>2. n \in Rank(S, n) /\ n \notin Rank(S, m)
    BY <1>0, <1>3 DEF Rank
  <2>3. Cardinality(Rank(S, m)) <= Cardinality(Rank(S, n))
        /\ Cardinality(Rank(S, m)) # Cardinality(Rank(S, n))
    BY <1>2, <2>1, <2>2, FS_Subset
  <2>4. QED
    BY <1>2, <2>3
<1>4. r \in [S -> 1..c] /\ \A m, n \in S : r[m] = r[n] => m = n
  <2>1. r \in [S -> 1..c]
    BY <1>2
  <2>2. ASSUME NEW m \in S, NEW n \in S, r[m] = r[n] PROVE m = n
    <3>1. ~(m < n) /\ ~(n < m)
      BY <1>3, <2>1, <2>2
    <3>2. QED
      BY <1>0, <3>1
  <2>3. QED
    BY <2>1, <2>2
<1>5. \A i \in 1..c : \E n \in S : r[n] = i
  <2>1. r \in Injection(S, 1..c)
    BY <1>4 DEF Injection, IsInjective
  <2>2. IsFiniteSet(1..c) /\ Cardinality(1..c) = c
    BY <1>1, FS_Interval
  <2>3. r \in Surjection(S, 1..c)
    BY <2>1, <2>2, FS_Injection
  <2>4. QED
    BY <2>3 DEF Surjection
<1> HIDE DEF r
<1>6. \A i \in 1..c : f[i] \in S /\ r[f[i]] = i
  BY <1>5
<1>7. f \in [1..c -> S]
  BY <1>6
<1> HIDE DEF f
<1>8. ASSUME NEW i \in 1..c, NEW j \in 1..c, i < j PROVE f[i] < f[j]
  <2>1. f[i] \in S /\ f[j] \in S /\ r[f[i]] = i /\ r[f[j]] = j
    BY <1>6
  <2>2. r[f[i]] < r[f[j]] /\ ~(r[f[j]] < r[f[i]])
    BY <1>8, <2>1
  <2>3. f[i] # f[j] /\ ~(f[j] < f[i])
    BY <1>3, <1>8, <2>1, <2>2
  <2>4. f[i] \in Nat /\ f[j] \in Nat
    BY <1>0, <2>1
  <2>5. QED
    BY <2>3, <2>4
<1>9. QED
  BY <1>1, <1>7, <1>8

LEMMA InOrderCovers ==
    ASSUME NEW L \in Nat, NEW S \in SUBSET (1..L), NEW f \in [1..Cardinality(S) -> S],
           \A i, j \in DOMAIN f : i < j => f[i] < f[j]
    PROVE  \A n \in S : \E i \in 1..Cardinality(S) : f[i] = n
<1>0. \A n \in S : n \in Nat
  OBVIOUS
<1>1. IsFiniteSet(S) /\ Cardinality(S) \in Nat
  BY InOrderExists
<1>2. IsFiniteSet(1..Cardinality(S)) /\ Cardinality(1..Cardinality(S)) = Cardinality(S)
  BY <1>1, FS_Interval
<1>3. ASSUME NEW i \in 1..Cardinality(S), NEW j \in 1..Cardinality(S), f[i] = f[j] PROVE i = j
  <2>1. f[i] \in S /\ f[j] \in S
    OBVIOUS
  <2>2. f[i] \in Nat /\ f[j] \in Nat
    BY <1>0, <2>1
  <2>3. ~(f[i] < f[j]) /\ ~(f[j] < f[i])
    BY <1>3, <2>2
  <2>4. ~(i < j) /\ ~(j < i)
    BY <2>3
  <2>5. QED
    BY <1>1, <2>4
<1>4. f \in Injection(1..Cardinality(S), S)
  BY <1>3 DEF Injection, IsInjective
<1>5. f \in Surjection(1..Cardinality(S), S)
  BY <1>1, <1>2, <1>4, FS_Injection
<1>6. QED
  BY <1>5 DEF Surjection

LEMMA SomethingIsFirst ==
    ASSUME NEW L \in Nat, NEW S \in SUBSET (1..L), NEW n \in S
    PROVE  \E m \in S : \A k \in S : m <= k
<1>0. \A k \in S : k \in Nat
  OBVIOUS
<1>1. PICK f \in [1..Cardinality(S) -> S] : \A i, j \in DOMAIN f : i < j => f[i] < f[j]
  BY InOrderExists
<1>2. Cardinality(S) \in Nat /\ \A k \in S : \E i \in 1..Cardinality(S) : f[i] = k
  BY <1>1, InOrderExists, InOrderCovers
<1>3. 1 \in 1..Cardinality(S) /\ f[1] \in S
  <2>1. PICK i \in 1..Cardinality(S) : f[i] = n
    BY <1>2
  <2>2. 1 \in 1..Cardinality(S)
    BY <1>2
  <2>3. QED
    BY <2>2
<1>4. ASSUME NEW k \in S PROVE f[1] <= k
  <2>1. PICK i \in 1..Cardinality(S) : f[i] = k
    BY <1>2
  <2>2. i = 1 \/ 1 < i
    BY <1>2
  <2>3. i = 1 \/ f[1] < f[i]
    BY <1>1, <1>3, <2>2
  <2>4. f[1] \in Nat /\ k \in Nat
    BY <1>0, <1>3
  <2>5. QED
    BY <2>1, <2>3, <2>4
<1>5. QED
  BY <1>3, <1>4

(* Merged zones: one for each key, with the highest risk, unless cut off    *)
FirstMentions(all) == {n \in DOMAIN all : \A m \in 1..(n - 1) : all[m].key # all[n].key}

Order(all) ==
    CHOOSE f \in [1..Cardinality(FirstMentions(all)) -> FirstMentions(all)] :
        \A i, j \in DOMAIN f : i < j => f[i] < f[j]

IsRiskiest(all, n, z) ==
    /\ z.key = all[n].key
    /\ \E i \in 1..Len(all) : all[i] = z
    /\ \A m \in DOMAIN all : all[m].key = z.key => all[m].risk <= z.risk

Riskiest(all, n) == CHOOSE z \in State!Zone : IsRiskiest(all, n, z)

Merged(all) == [i \in DOMAIN Order(all) |-> Riskiest(all, Order(all)[i])]

LEMMA MergedZones ==
    ASSUME NEW all \in Seq(State!Zone)
    PROVE  /\ Merged(all) \in Seq(State!Zone)
           /\ \A n \in 1..Len(all) : \E j \in 1..Len(Merged(all)) :
                 Merged(all)[j].key = all[n].key /\ Merged(all)[j].risk >= all[n].risk
<1> DEFINE S == FirstMentions(all)
           L == Len(all)
           c == Cardinality(S)
           f == Order(all)
<1>1. L \in Nat /\ DOMAIN all = 1..L /\ \A n \in 1..L : all[n] \in State!Zone
  OBVIOUS
<1>2. S \in SUBSET (1..L)
  BY <1>1 DEF FirstMentions
<1>3. f \in [1..c -> S] /\ \A i, j \in DOMAIN f : i < j => f[i] < f[j]
  BY <1>1, <1>2, InOrderExists DEF Order
<1>4. c \in Nat /\ \A n \in S : \E i \in 1..c : f[i] = n
  BY <1>1, <1>2, <1>3, InOrderExists, InOrderCovers
<1>5. ASSUME NEW n \in 1..L
      PROVE  Riskiest(all, n) \in State!Zone /\ IsRiskiest(all, n, Riskiest(all, n))
  <2>1. \A m \in 1..L : all[m].risk \in 1..2
    BY <1>1 DEF State!Zone
  <2>2. CASE \E m \in 1..L : all[m].key = all[n].key /\ all[m].risk = 2
    <3>1. PICK m \in 1..L : all[m].key = all[n].key /\ all[m].risk = 2
      BY <2>2
    <3>2. IsRiskiest(all, n, all[m])
      BY <1>1, <2>1, <3>1 DEF IsRiskiest
    <3>3. QED
      BY <1>1, <3>2 DEF Riskiest
  <2>3. CASE ~ \E m \in 1..L : all[m].key = all[n].key /\ all[m].risk = 2
    <3>1. \A m \in 1..L : all[m].key = all[n].key => all[m].risk = 1
      BY <2>1, <2>3
    <3>2. IsRiskiest(all, n, all[n])
      BY <1>1, <3>1 DEF IsRiskiest
    <3>3. QED
      BY <1>1, <3>2 DEF Riskiest
  <2>4. QED
    BY <2>2, <2>3
<1>6. ASSUME NEW n \in 1..L PROVE \E m \in S : all[m].key = all[n].key
  <2> DEFINE T == {k \in 1..L : all[k].key = all[n].key}
  <2>1. T \in SUBSET (1..L) /\ n \in T
    OBVIOUS
  <2>2. PICK m \in T : \A k \in T : m <= k
    BY <1>1, <2>1, SomethingIsFirst
  <2>3. ASSUME NEW k \in 1..(m - 1) PROVE all[k].key # all[m].key
    <3>1. m \in 1..L /\ k \in 1..L /\ ~(m <= k)
      BY <1>1, <2>2
    <3>2. QED
      BY <2>2, <3>1
  <2>4. QED
    BY <1>1, <2>2, <2>3 DEF FirstMentions
<1> DEFINE s == Merged(all)
<1>7. DOMAIN f = 1..c /\ s = [i \in 1..c |-> Riskiest(all, f[i])]
  BY <1>3 DEF Merged
<1>8. \A i \in 1..c : f[i] \in 1..L
  BY <1>2, <1>3
<1>9. s \in [1..c -> State!Zone]
  BY <1>5, <1>7, <1>8
<1>10. s \in Seq(State!Zone) /\ Len(s) = c
  BY <1>4, <1>9
<1>11. ASSUME NEW n \in 1..L
       PROVE  \E j \in 1..c : s[j].key = all[n].key /\ s[j].risk >= all[n].risk
  <2>1. PICK m \in S : all[m].key = all[n].key
    BY <1>6
  <2>2. PICK j \in 1..c : f[j] = m
    BY <1>4
  <2>3. s[j] = Riskiest(all, m) /\ s[j] \in State!Zone /\ m \in 1..L
    BY <1>2, <1>7, <1>9, <2>2
  <2>4. IsRiskiest(all, m, s[j])
    BY <1>5, <2>3
  <2>5. s[j].key = all[n].key /\ all[n].risk <= s[j].risk
    BY <1>1, <2>1, <2>4 DEF IsRiskiest
  <2>6. s[j].risk \in Int /\ all[n].risk \in Int
    BY <1>1, <2>3 DEF State!Zone
  <2>7. QED
    BY <2>5, <2>6
<1>12. QED
  BY <1>10, <1>11

LEMMA MergeUnfolds ==
    ASSUME NEW old, NEW new
    PROVE  State!MergeDangerZones(old, new) =
             IF old = << >> THEN new
             ELSE IF new = << >> THEN old
             ELSE SubSeq(Merged(new \o old), 1,
                         IF Len(Merged(new \o old)) > MaxZones THEN MaxZones
                         ELSE Len(Merged(new \o old)))
  BY DEF State!MergeDangerZones, Merged, Order, FirstMentions, Riskiest, IsRiskiest,
         State!Contains, State!Cardinality, Cardinality

LEMMA MergeKeeps ==
    ASSUME NEW old \in Seq(State!Zone), NEW new \in State!Zones
    PROVE  /\ State!MergeDangerZones(old, new) \in Seq(State!Zone)
           /\ \/ Len(State!MergeDangerZones(old, new)) >= MaxZones
              \/ \A i \in DOMAIN old : \E j \in DOMAIN State!MergeDangerZones(old, new) :
                    /\ State!MergeDangerZones(old, new)[j].key = old[i].key
                    /\ State!MergeDangerZones(old, new)[j].risk >= old[i].risk
<1> DEFINE all == new \o old
           s == Merged(all)
           m == State!MergeDangerZones(old, new)
<1>1. new \in Seq(State!Zone)
  <2>1. \A z \in State!Zone : <<z>> \in Seq(State!Zone)
    OBVIOUS
  <2>2. << >> \in Seq(State!Zone)
    OBVIOUS
  <2>3. QED
    BY <2>1, <2>2 DEF State!Zones
<1>2. CASE old = << >>
  BY <1>1, <1>2, MergeUnfolds
<1>3. CASE old # << >> /\ new = << >>
  <2>1. m = old
    BY <1>3, MergeUnfolds
  <2>2. \A i \in DOMAIN old : old[i].risk >= old[i].risk
    <3>1. \A i \in DOMAIN old : old[i] \in State!Zone
      OBVIOUS
    <3>2. \A i \in DOMAIN old : old[i].risk \in 1..2
      BY <3>1 DEF State!Zone
    <3>3. QED
      BY <3>2
  <2> HIDE DEF m
  <2>3. \A i \in DOMAIN old : \E j \in DOMAIN m : m[j].key = old[i].key /\ m[j].risk >= old[i].risk
    BY <2>1, <2>2
  <2>4. QED
    BY <2>1, <2>3 DEF m
<1>4. CASE old # << >> /\ new # << >>
  <2>1. /\ all \in Seq(State!Zone) /\ Len(all) = Len(new) + Len(old)
        /\ \A i \in 1..Len(old) : all[Len(new) + i] = old[i]
        /\ Len(new) \in Nat /\ Len(old) \in Nat /\ DOMAIN old = 1..Len(old)
    BY <1>1
  <2> HIDE DEF all
  <2>2. /\ s \in Seq(State!Zone) /\ Len(s) \in Nat
        /\ \A n \in 1..Len(all) : \E j \in 1..Len(s) :
              s[j].key = all[n].key /\ s[j].risk >= all[n].risk
    <3>1. /\ s \in Seq(State!Zone)
          /\ \A n \in 1..Len(all) : \E j \in 1..Len(s) :
                s[j].key = all[n].key /\ s[j].risk >= all[n].risk
      BY <2>1, MergedZones, Zenon
    <3> HIDE DEF s
    <3>2. QED
      BY <3>1
  <2>3. m = SubSeq(s, 1, IF Len(s) > MaxZones THEN MaxZones ELSE Len(s))
    BY <1>4, MergeUnfolds DEF all
  <2> HIDE DEF s, m
  <2>4. CASE Len(s) > MaxZones
    <3>1. MaxZones \in 0..Len(s) /\ m = SubSeq(s, 1, MaxZones)
      BY <2>2, <2>3, <2>4, ZonesAssumption
    <3>2. m \in Seq(State!Zone) /\ Len(m) = MaxZones
      BY <2>2, <3>1, ZonesAssumption
    <3>3. Len(m) >= MaxZones
      BY <3>2, ZonesAssumption
    <3>4. QED
      BY <3>2, <3>3 DEF m
  <2>5. CASE ~(Len(s) > MaxZones)
    <3>1. m = SubSeq(s, 1, Len(s))
      BY <2>3, <2>5
    <3>2. m = s
      BY <2>2, <3>1
    <3>3. ASSUME NEW i \in DOMAIN old
          PROVE  \E j \in DOMAIN s : s[j].key = old[i].key /\ s[j].risk >= old[i].risk
      <4>1. Len(new) + i \in 1..Len(all) /\ all[Len(new) + i] = old[i]
        BY <2>1
      <4>2. DOMAIN s = 1..Len(s)
        BY <2>2
      <4>3. QED
        BY <2>2, <4>1, <4>2
    <3>4. QED
      BY <2>2, <3>2, <3>3 DEF m
  <2>6. QED
    BY <2>4, <2>5
<1>5. QED
  BY <1>2, <1>3, <1>4

(* A handler at work on the current snapshot keeps what that remembers.     *)
(* Versions tell whether it still is the current one: none is taken twice,  *)
(* and that of a snapshot which is not stored yet is nobody's base.         *)
Working == {"reduced", "versioned"}

Handling == [pc : {"reduced", "versioned", "stored"}, base : Nat, state : State!State, version : Nat]

StateTypes ==
    /\ current \in [version : Nat, state : State!State]
    /\ version \in Nat /\ ticks \in 0..MaxTicks /\ ends \in 0..MaxEnds
    /\ handler \in [{"tick", "end"} -> {State!Resting} \union Handling]
    /\ published \in Nat /\ panics \in 0..ticks

Fresh ==
    /\ current.version <= version
    /\ \A h \in DOMAIN handler : handler[h].pc \in Working => handler[h].base <= version
    /\ \A h \in DOMAIN handler : handler[h].pc = "versioned" =>
          /\ handler[h].version <= version /\ handler[h].version # current.version
          /\ \A g \in DOMAIN handler :
                /\ handler[g].pc \in Working => handler[g].base # handler[h].version
                /\ g # h /\ handler[g].pc = "versioned" => handler[g].version # handler[h].version

StateInv ==
    /\ StateTypes /\ Fresh
    /\ \A h \in DOMAIN handler :
          handler[h].pc \in Working /\ handler[h].base = current.version =>
             State!Kept(current.state, handler[h].state)

LEMMA ReductionsKeep ==
    ASSUME NEW s \in State!State, StateTypes
    PROVE  /\ \A zones \in State!Zones, chunk \in Chunk : ticks < MaxTicks =>
                 /\ State!ReduceTick(s, zones, chunk) \in State!State
                 /\ State!Kept(s, State!ReduceTick(s, zones, chunk))
           /\ \A bad \in BOOLEAN :
                 /\ State!ReduceTaskEnd(s, bad) \in State!State
                 /\ State!Kept(s, State!ReduceTaskEnd(s, bad))
<1>1. s.zones \in Seq(State!Zone) /\ s.chunks \in SUBSET Chunk /\ s.tick \in 0..MaxTicks
  BY DEF State!State
<1>2. ASSUME NEW zones \in State!Zones, NEW chunk \in Chunk, ticks < MaxTicks
      PROVE  /\ State!ReduceTick(s, zones, chunk) \in State!State
             /\ State!Kept(s, State!ReduceTick(s, zones, chunk))
  <2> DEFINE m == State!MergeDangerZones(s.zones, zones)
             r == State!ReduceTick(s, zones, chunk)
  <2>1. /\ m \in Seq(State!Zone)
        /\ \/ Len(m) >= MaxZones
           \/ \A i \in DOMAIN s.zones : \E j \in DOMAIN m :
                 m[j].key = s.zones[i].key /\ m[j].risk >= s.zones[i].risk
    BY <1>1, MergeKeeps
  <2>2. ticks + 1 \in 0..MaxTicks
    BY <1>2, BoundAssumption DEF StateTypes
  <2>3. r = [tick |-> ticks + 1, zones |-> m, chunks |-> s.chunks \union {chunk}]
    BY DEF State!ReduceTick
  <2> HIDE DEF m, r
  <2>4. r \in State!State
    BY <1>1, <2>1, <2>2, <2>3 DEF State!State
  <2>5. State!Kept(s, r)
    BY <1>1, <2>1, <2>3 DEF State!Kept
  <2>6. QED
    BY <2>4, <2>5 DEF r
<1>3. ASSUME NEW bad \in BOOLEAN
      PROVE  /\ State!ReduceTaskEnd(s, bad) \in State!State
             /\ State!Kept(s, State!ReduceTaskEnd(s, bad))
  <2> DEFINE r == State!ReduceTaskEnd(s, bad)
             z == Append(s.zones, State!Marked)
  <2>1. State!Marked \in State!Zone
    BY ZonesAssumption DEF State!Marked, State!Zone
  <2>2. /\ z \in Seq(State!Zone) /\ Len(z) = Len(s.zones) + 1
        /\ \A i \in DOMAIN s.zones : i \in DOMAIN z /\ z[i] = s.zones[i]
    BY <1>1, <2>1
  <2>3. \A i \in DOMAIN s.zones : s.zones[i].risk >= s.zones[i].risk
    <3>1. \A i \in DOMAIN s.zones : s.zones[i] \in State!Zone
      BY <1>1
    <3>2. \A i \in DOMAIN s.zones : s.zones[i].risk \in 1..2
      BY <3>1 DEF State!Zone
    <3>3. QED
      BY <3>2
  <2>4. r = s \/ r = [s EXCEPT !.zones = z]
    BY DEF State!ReduceTaskEnd
  <2> HIDE DEF z, r
  <2>5. r \in State!State
    BY <1>1, <2>2, <2>4 DEF State!State
  <2>6. r.chunks = s.chunks /\ (r.zones = s.zones \/ r.zones = z)
    BY <2>4 DEF State!State
  <2>7. State!Kept(s, r)
    BY <1>1, <2>2, <2>3, <2>6 DEF State!Kept
  <2>8. QED
    BY <2>5, <2>7 DEF r
<1>4. QED
  BY <1>2, <1>3

LEMMA WorkBegins ==
    ASSUME StateInv, NEW h \in {"tick", "end"}, handler[h] = State!Resting,
           NEW new \in State!State, State!Kept(current.state, new), State!Works(h, new),
           UNCHANGED <<current, version>>
    PROVE  /\ handler' \in [{"tick", "end"} -> {State!Resting} \union Handling] /\ Fresh'
           /\ \A g \in DOMAIN handler' :
                 handler'[g].pc \in Working /\ handler'[g].base = current'.version =>
                    State!Kept(current'.state, handler'[g].state)
<1> DEFINE r == [pc |-> "reduced", base |-> current.version, state |-> new, version |-> 0]
<1>1. current.version \in Nat /\ version \in Nat
  BY DEF StateInv, StateTypes
<1>2. r \in Handling /\ r.pc = "reduced" /\ r.base = current.version /\ r.state = new
  BY <1>1 DEF Handling
<1>3. DOMAIN handler = {"tick", "end"} /\ handler' = [handler EXCEPT ![h] = r]
  BY DEF StateInv, StateTypes, State!Works
<1> HIDE DEF r
<1>4. /\ DOMAIN handler' = {"tick", "end"} /\ handler'[h] = r
      /\ \A g \in {"tick", "end"} : g # h => handler'[g] = handler[g]
  BY <1>3
<1>5. handler' \in [{"tick", "end"} -> {State!Resting} \union Handling]
  BY <1>2, <1>3 DEF StateInv, StateTypes
<1>6. Fresh'
  BY <1>1, <1>2, <1>3, <1>4 DEF StateInv, Fresh, Working
<1>7. \A g \in DOMAIN handler' :
         handler'[g].pc \in Working /\ handler'[g].base = current'.version =>
            State!Kept(current'.state, handler'[g].state)
  BY <1>2, <1>3, <1>4 DEF StateInv
<1>8. QED
  BY <1>5, <1>6, <1>7

LEMMA StateInductive == StateInv /\ [State!Next]_stateVars => StateInv'
<1> SUFFICES ASSUME StateInv, [State!Next]_stateVars PROVE StateInv'
  OBVIOUS
<1>1. /\ DOMAIN handler = {"tick", "end"} /\ current.version \in Nat /\ version \in Nat
      /\ current.state \in State!State /\ StateTypes
  BY DEF StateInv, StateTypes
<1>2. ASSUME NEW zones \in State!Zones, NEW chunk \in Chunk, NEW critical \in BOOLEAN,
             State!HandleStateTick(zones, chunk, critical)
      PROVE  StateInv'
  <2> DEFINE new == State!ReduceTick(current.state, zones, chunk)
  <2>1. /\ handler["tick"] = State!Resting /\ State!Works("tick", new)
        /\ UNCHANGED <<current, version, published, ends>> /\ ticks < MaxTicks
        /\ ticks' = ticks + 1 /\ panics' \in {panics, panics + 1}
    BY <1>2 DEF State!HandleStateTick
  <2>2. new \in State!State /\ State!Kept(current.state, new)
    BY <1>1, <2>1, ReductionsKeep
  <2> HIDE DEF new
  <2>3. /\ handler' \in [{"tick", "end"} -> {State!Resting} \union Handling] /\ Fresh'
        /\ \A g \in DOMAIN handler' :
              handler'[g].pc \in Working /\ handler'[g].base = current'.version =>
                 State!Kept(current'.state, handler'[g].state)
    BY <2>1, <2>2, WorkBegins
  <2>4. ticks' \in 0..MaxTicks /\ panics' \in 0..ticks'
    BY <1>1, <2>1, BoundAssumption DEF StateTypes
  <2>5. QED
    BY <1>1, <2>1, <2>3, <2>4 DEF StateInv, StateTypes
<1>3. ASSUME NEW bad \in BOOLEAN, State!HandleTaskEnd(bad) PROVE StateInv'
  <2> DEFINE new == State!ReduceTaskEnd(current.state, bad)
  <2>1. /\ handler["end"] = State!Resting /\ (State!Works("end", new) \/ UNCHANGED handler)
        /\ UNCHANGED <<current, version, published, panics, ticks>> /\ ends < MaxEnds
        /\ ends' = ends + 1
    BY <1>3 DEF State!HandleTaskEnd
  <2>2. new \in State!State /\ State!Kept(current.state, new)
    BY <1>1, ReductionsKeep
  <2> HIDE DEF new
  <2>3. ends' \in 0..MaxEnds
    BY <1>1, <2>1, BoundAssumption DEF StateTypes
  <2>4. CASE State!Works("end", new)
    <3>1. /\ handler' \in [{"tick", "end"} -> {State!Resting} \union Handling] /\ Fresh'
          /\ \A g \in DOMAIN handler' :
                handler'[g].pc \in Working /\ handler'[g].base = current'.version =>
                   State!Kept(current'.state, handler'[g].state)
      BY <2>1, <2>2, <2>4, WorkBegins
    <3>2. QED
      BY <1>1, <2>1, <2>3, <3>1 DEF StateInv, StateTypes
  <2>5. CASE UNCHANGED handler
    BY <2>1, <2>3, <2>5 DEF StateInv, StateTypes, Fresh
  <2>6. QED
    BY <2>1, <2>4, <2>5
<1>4. ASSUME NEW h \in {"tick", "end"}, State!TakeVersion(h) PROVE StateInv'
  <2>1. /\ handler[h].pc = "reduced" /\ version' = version + 1
        /\ handler' = [handler EXCEPT ![h].pc = "versioned", ![h].version = version + 1]
        /\ UNCHANGED <<current, published, panics, ticks, ends>>
    BY <1>4 DEF State!TakeVersion
  <2>2. handler[h] \in Handling
    BY <1>1, <2>1 DEF StateTypes, State!Resting
  <2> DEFINE r == [handler[h] EXCEPT !.pc = "versioned", !.version = version + 1]
  <2>3. /\ DOMAIN handler' = {"tick", "end"} /\ handler'[h].pc = "versioned"
        /\ handler'[h].version = version + 1 /\ handler'[h].base = handler[h].base
        /\ handler'[h].state = handler[h].state /\ handler'[h] \in Handling
        /\ \A g \in {"tick", "end"} : g # h => handler'[g] = handler[g]
    <3>1. handler' = [handler EXCEPT ![h] = r]
      BY <1>1, <2>1
    <3>2. /\ r \in Handling /\ r.pc = "versioned" /\ r.version = version + 1
          /\ r.base = handler[h].base /\ r.state = handler[h].state
      <4> DEFINE q == [handler[h] EXCEPT !.pc = "versioned"]
      <4>1. r = [q EXCEPT !.version = version + 1]
        OBVIOUS
      <4>2. PICK at \in {"reduced", "versioned", "stored"}, b \in Nat, z \in State!State, v \in Nat :
               handler[h] = [pc |-> at, base |-> b, state |-> z, version |-> v]
        BY <2>2 DEF Handling
      <4>3. q = [pc |-> "versioned", base |-> b, state |-> z, version |-> v]
        BY <4>2
      <4> HIDE DEF q, r
      <4>4. r = [pc |-> "versioned", base |-> b, state |-> z, version |-> version + 1]
        BY <4>1, <4>3
      <4>5. version + 1 \in Nat
        BY <1>1
      <4>6. QED
        BY <4>2, <4>4, <4>5 DEF Handling
    <3> HIDE DEF r
    <3>3. QED
      BY <1>1, <3>1, <3>2
  <2>4. StateTypes'
    <3>1. handler' \in [{"tick", "end"} -> {State!Resting} \union Handling]
      BY <1>1, <2>1, <2>3 DEF StateTypes
    <3>2. QED
      BY <1>1, <2>1, <3>1 DEF StateTypes
  <2>5. \A g \in {"tick", "end"} :
           /\ handler[g].pc \in Working => handler[g].base \in Nat /\ handler[g].version \in Nat
           /\ handler'[g].pc \in Working => handler[g].pc \in Working
    BY <1>1, <2>1, <2>3 DEF StateTypes, Handling, State!Resting, Working
  <2>6. Fresh'
    BY <1>1, <2>1, <2>3, <2>5 DEF StateInv, Fresh, Working
  <2>7. \A g \in DOMAIN handler' :
           handler'[g].pc \in Working /\ handler'[g].base = current'.version =>
              State!Kept(current'.state, handler'[g].state)
    BY <1>1, <2>1, <2>3, <2>5 DEF StateInv
  <2>8. QED
    BY <2>4, <2>6, <2>7 DEF StateInv
<1>5. ASSUME NEW h \in {"tick", "end"}, State!Store(h) PROVE StateInv'
  <2>1. /\ handler[h].pc = "versioned"
        /\ current' = [version |-> handler[h].version, state |-> handler[h].state]
        /\ handler' = [handler EXCEPT ![h].pc = "stored"]
        /\ UNCHANGED <<version, published, panics, ticks, ends>>
    BY <1>5 DEF State!Store
  <2>2. handler[h] \in Handling
    BY <1>1, <2>1 DEF StateTypes, State!Resting
  <2>3. /\ DOMAIN handler' = {"tick", "end"} /\ handler'[h].pc = "stored"
        /\ handler'[h] \in Handling
        /\ \A g \in {"tick", "end"} : g # h => handler'[g] = handler[g]
    BY <1>1, <2>1, <2>2 DEF Handling
  <2>4. StateTypes'
    BY <1>1, <2>1, <2>2, <2>3 DEF StateTypes, Handling
  <2>5. Fresh'
    BY <1>1, <2>1, <2>3 DEF StateInv, Fresh, Working
  <2>6. \A g \in DOMAIN handler' :
           handler'[g].pc \in Working => handler'[g].base # current'.version
    BY <1>1, <2>1, <2>3 DEF StateInv, Fresh, Working
  <2>7. QED
    BY <2>4, <2>5, <2>6 DEF StateInv
<1>6. ASSUME NEW h \in {"tick", "end"}, State!Publish(h) PROVE StateInv'
  <2>1. /\ handler[h].pc = "stored" /\ published' = handler[h].version
        /\ handler' = [handler EXCEPT ![h] = State!Resting]
        /\ UNCHANGED <<current, version, panics, ticks, ends>>
    BY <1>6 DEF State!Publish
  <2>2. handler[h] \in Handling
    BY <1>1, <2>1 DEF StateTypes, State!Resting
  <2>3. /\ DOMAIN handler' = {"tick", "end"} /\ handler'[h].pc \notin Working
        /\ handler'[h] = State!Resting
        /\ \A g \in {"tick", "end"} : g # h => handler'[g] = handler[g]
    BY <1>1, <2>1 DEF State!Resting, Working
  <2>4. StateTypes'
    BY <1>1, <2>1, <2>2, <2>3 DEF StateTypes, Handling
  <2>5. Fresh'
    BY <1>1, <2>1, <2>3 DEF StateInv, Fresh, Working
  <2>6. QED
    BY <1>1, <2>1, <2>3, <2>4, <2>5 DEF StateInv
<1>7. CASE UNCHANGED stateVars
  BY <1>7 DEF stateVars, StateInv, StateTypes, Fresh
<1>8. ASSUME NEW critical \in BOOLEAN, State!MalformedTick(critical) PROVE StateInv'
  <2>1. /\ handler["tick"] = State!Resting /\ State!Works("tick", current.state)
        /\ UNCHANGED <<current, version, published, ends>> /\ ticks < MaxTicks
        /\ ticks' = ticks + 1 /\ panics' \in {panics, panics + 1}
    BY <1>8 DEF State!MalformedTick
  <2>2. State!Kept(current.state, current.state)
    <3>1. \A i \in DOMAIN current.state.zones : current.state.zones[i].risk \in 1..2
      <4>1. current.state.zones \in Seq(State!Zone)
        BY <1>1 DEF State!State
      <4>2. \A i \in DOMAIN current.state.zones : current.state.zones[i] \in State!Zone
        BY <4>1
      <4>3. QED
        BY <4>2 DEF State!Zone
    <3>2. QED
      BY <3>1 DEF State!Kept
  <2>3. /\ handler' \in [{"tick", "end"} -> {State!Resting} \union Handling] /\ Fresh'
        /\ \A g \in DOMAIN handler' :
              handler'[g].pc \in Working /\ handler'[g].base = current'.version =>
                 State!Kept(current'.state, handler'[g].state)
    BY <1>1, <2>1, <2>2, WorkBegins
  <2>4. ticks' \in 0..MaxTicks /\ panics' \in 0..ticks'
    BY <1>1, <2>1, BoundAssumption DEF StateTypes
  <2>5. QED
    BY <1>1, <2>1, <2>3, <2>4 DEF StateInv, StateTypes
<1>9. QED
  BY <1>2, <1>3, <1>4, <1>5, <1>6, <1>7, <1>8 DEF State!Next

LEMMA StateStarts == Init => StateInv
<1> SUFFICES ASSUME Init PROVE StateInv
  OBVIOUS
<1>1. handler = [h \in {"tick", "end"} |-> State!Resting] /\ State!Resting.pc = "rest"
  BY DEF Init, State!Init, State!Resting
<1>2. State!EmptyState \in State!State
  BY BoundAssumption DEF State!EmptyState, State!State
<1>3. StateTypes
  BY <1>1, <1>2, BoundAssumption DEF Init, State!Init, StateTypes
<1>4. QED
  BY <1>1, <1>3 DEF Init, State!Init, StateInv, Fresh, Working

(* The memory of dangers and places is lost only where a snapshot was       *)
(* stored over while a handler worked on an older one, or where the list of *)
(* zones is full.                                                           *)
THEOREM ForgetsOnlyThen == Spec => ForgetsOnlyByOverlap
<1> DEFINE Remembered == \A h \in {"tick", "end"} :
                State!Store(h) => \/ handler[h].base # current.version
                                  \/ State!Kept(current.state, current'.state)
<1>1. StateInv => Remembered
  <2> SUFFICES ASSUME StateInv, NEW h \in {"tick", "end"}, State!Store(h),
                      handler[h].base = current.version
               PROVE  State!Kept(current.state, current'.state)
    OBVIOUS
  <2>1. handler[h].pc = "versioned" /\ current'.state = handler[h].state
    BY DEF State!Store
  <2>2. DOMAIN handler = {"tick", "end"}
    BY DEF StateInv, StateTypes
  <2>3. QED
    BY <2>1, <2>2 DEF StateInv, Working
<1>2. StateInv /\ [Next]_vars => StateInv'
  BY PartSteps, StateInductive
<1>3. QED
  BY <1>1, <1>2, StateStarts, PTL DEF Spec, ForgetsOnlyByOverlap, State!ForgetsOnlyByOverlap

-----------------------------------------------------------------------------
(* The types of the other parts.  Breaker, runner and flags need nothing    *)
(* beyond them.                                                             *)
LEMMA BreakerTypes == Spec => []Breaker!TypeOK
<1> USE DEF Breaker!TypeOK, Breaker!Window, Breaker!Opening
<1> DEFINE Types == Breaker!TypeOK
<1>0. Limit \in Nat /\ Limit >= 1
  BY LimitsAssumption
<1>1. Init => Types
  <2> SUFFICES ASSUME Init PROVE Types
    OBVIOUS
  <2>1. circuitOpen \in BOOLEAN /\ calls \in [Caller -> BOOLEAN]
    BY Zenon DEF Init, Breaker!Init
  <2>2. QED
    BY <1>0, <2>1 DEF Init, Breaker!Init
<1>2. Types /\ [Next]_vars => Types'
  <2> SUFFICES ASSUME Types, [Breaker!Next]_breakerVars PROVE Types'
    BY PartSteps
  <2>1. CASE Breaker!Tick
    BY <1>0, <2>1 DEF Breaker!Tick
  <2>2. ASSUME NEW w \in Caller, Breaker!Call(w) PROVE Types'
    <3>1. (circuitOpen /\ ~Breaker!Expired) \in BOOLEAN
      OBVIOUS
    <3>2. circuitOpen' \in BOOLEAN /\ (~circuitOpen') \in BOOLEAN
      BY <2>2, <3>1, Zenon DEF Breaker!Call
    <3>3. calls' \in [Caller -> BOOLEAN]
      BY <2>2, <3>2, Zenon DEF Breaker!Call
    <3>4. errorCount' \in 0..Limit
      BY <1>0, <2>2 DEF Breaker!Call
    <3>5. QED
      BY <2>2, <3>2, <3>3, <3>4 DEF Breaker!Call
  <2>3. ASSUME NEW w \in Caller, Breaker!Succeeds(w) PROVE Types'
    <3>1. circuitOpen' \in BOOLEAN /\ calls' \in [Caller -> BOOLEAN]
      BY <2>3, Zenon DEF Breaker!Succeeds
    <3>2. QED
      BY <1>0, <2>3, <3>1 DEF Breaker!Succeeds
  <2>4. ASSUME NEW w \in Caller, Breaker!Fails(w) PROVE Types'
    <3>1. Breaker!InARow \in 0..Limit
      BY <1>0 DEF Breaker!InARow
    <3>2. circuitOpen' \in BOOLEAN
      <4>1. Breaker!OpenAfter(Breaker!InARow) \in BOOLEAN
        BY Zenon DEF Breaker!OpenAfter
      <4>2. QED
        BY <2>4, <4>1 DEF Breaker!Fails
    <3>3. calls' \in [Caller -> BOOLEAN]
      BY <2>4 DEF Breaker!Fails
    <3>4. sinceError' \in 0..4 /\ openLeft' \in 0..6 /\ errorCount' \in 0..Limit
      BY <2>4, <3>1 DEF Breaker!Fails
    <3>5. QED
      BY <3>2, <3>3, <3>4
  <2>5. ASSUME NEW w \in Caller, Breaker!GivesUp(w) PROVE Types'
    <3>1. calls' \in [Caller -> BOOLEAN]
      BY <2>5, Zenon DEF Breaker!GivesUp
    <3>2. QED
      BY <2>5, <3>1 DEF Breaker!GivesUp
  <2>6. CASE UNCHANGED breakerVars
    BY <2>6 DEF breakerVars
  <2>7. QED
    BY <2>1, <2>2, <2>3, <2>4, <2>5, <2>6
       DEF Breaker!Next, Breaker!GenerateWithFormat, Breaker!CreateEmbedding
<1>3. QED
  BY <1>1, <1>2, PTL DEF Spec

LEMMA RunnerTypes == Spec => []Runner!TypeOK
<1> USE DEF Runner!TypeOK, Runner!Stable, Runner!Starved
<1> DEFINE Types == Runner!TypeOK
<1>1. Init => Types
  BY DEF Init, Runner!Init
<1>2. Types /\ [Next]_vars => Types'
  <2> SUFFICES ASSUME Types, [Runner!Next]_runnerVars PROVE Types'
    BY PartSteps
  <2>1. CASE Runner!Tick
    BY <2>1 DEF Runner!Tick
  <2>2. ASSUME NEW crashes \in 0..4, Runner!waitBeforeRestart(crashes)
        PROVE  crashCount' \in 0..4 /\ delay' \in 0..6 /\ pc' = "waiting"
    <3>1. crashCount' \in 1..4 /\ pc' = "waiting" /\ delay' = <<1, 1, 2, 6>>[crashCount']
      BY <2>2 DEF Runner!waitBeforeRestart, Runner!Delay
    <3>2. \A n \in 1..4 : <<1, 1, 2, 6>>[n] \in 0..6
      <4>1. \A n \in 1..4 : n = 1 \/ n = 2 \/ n = 3 \/ n = 4
        OBVIOUS
      <4>2. QED
        BY <4>1
    <3>3. QED
      BY <3>1, <3>2
  <2>3. CASE Runner!Start
    BY <2>2, <2>3 DEF Runner!Start, Runner!PingOnStartup
  <2>4. CASE Runner!WaitIsOver \/ Runner!Ping \/ Runner!Stop \/ UNCHANGED runnerVars
    BY <2>4 DEF Runner!WaitIsOver, Runner!Ping, Runner!Stop, runnerVars
  <2>5. CASE Runner!ProcessEnds \/ Runner!Kill
    BY <2>2, <2>5 DEF Runner!ProcessEnds, Runner!Kill
  <2>6. QED
    BY <2>1, <2>3, <2>4, <2>5 DEF Runner!Next
<1>3. QED
  BY <1>1, <1>2, PTL DEF Spec

LEMMA ConfigTypes == Spec => []Config!TypeOK
<1> DEFINE Watcher == [at : {"sleeping", "stat", "read", "notify"}, time : Nat]
           Consumer == [at : {"waiting", "get", "humanizer", "engine"}, flags : Config!Flags]
           Types == Config!TypeOK /\ watcher \in Watcher
<1> USE DEF Config!TypeOK
<1>1. Init => Types
  <2> SUFFICES ASSUME Init PROVE Types
    OBVIOUS
  <2>1. flags \in Config!Flags /\ (CHOOSE f \in Config!Flags : TRUE) \in Config!Flags
    BY DEF Init, Config!Init
  <2>2. /\ watcher = Config!Sleeping /\ consumer = Config!Waiting /\ content \in Config!Content
        /\ modTime = 0 /\ lastMod = 0 /\ signal = FALSE /\ applied = [c \in Config!Component |-> flags]
    BY DEF Init, Config!Init, Config!Content
  <2>3. watcher \in Watcher /\ watcher.time = 0
    BY <2>2 DEF Config!Sleeping
  <2>4. consumer \in Consumer
    BY <2>1, <2>2 DEF Config!Waiting
  <2>5. applied \in [Config!Component -> Config!Flags]
    BY <2>1, <2>2
  <2>6. MaxWrites \in Nat
    BY BoundAssumption
  <2>7. modTime \in 0..MaxWrites /\ lastMod \in 0..modTime /\ watcher.time \in 0..modTime
    BY <2>2, <2>3, <2>6
  <2>8. signal \in BOOLEAN
    BY <2>2
  <2>9. QED
    BY <2>1, <2>2, <2>3, <2>4, <2>5, <2>7, <2>8
<1>2. Types /\ [Next]_vars => Types'
  <2> SUFFICES ASSUME Types, [Config!Next]_configVars PROVE Types'
    BY PartSteps
  <2>1. CASE Config!FileWritten
    BY <2>1, BoundAssumption DEF Config!FileWritten
  <2>2. CASE Config!CheckChanged \/ Config!StatFile \/ Config!Notify
    <3>1. watcher' \in Watcher /\ watcher'.time \in 0..modTime /\ modTime \in 0..MaxWrites
      BY <2>2 DEF Config!CheckChanged, Config!StatFile, Config!Notify, Config!Sleeping
    <3>2. signal' \in BOOLEAN
      BY <2>2 DEF Config!CheckChanged, Config!StatFile, Config!Notify
    <3>3. UNCHANGED <<content, modTime, flags, lastMod, consumer, applied>>
      BY <2>2 DEF Config!CheckChanged, Config!StatFile, Config!Notify
    <3>4. QED
      BY <3>1, <3>2, <3>3
  <2>3. CASE Config!LoadFile
    <3>1. CASE content = Broken
      BY <2>3, <3>1 DEF Config!LoadFile, Config!Sleeping
    <3>2. CASE content # Broken
      <4>1. content \in UNION {[ks -> Value] : ks \in SUBSET Key}
        BY <3>2 DEF Config!Content
      <4>2. PICK file \in {[ks -> Value] : ks \in SUBSET Key} : content \in file
        BY <4>1
      <4>3. PICK ks \in SUBSET Key : file = [ks -> Value]
        BY <4>2
      <4>4. content \in [ks -> Value] /\ DOMAIN content = ks
        BY <4>2, <4>3
      <4>5. Config!Merged(content) \in Config!Flags
        BY <4>4 DEF Config!Merged, Config!Flags
      <4>6. QED
        BY <2>3, <3>2, <4>5 DEF Config!LoadFile
    <3>3. QED
      BY <3>1, <3>2
  <2>4. CASE Config!ConsumerTakes \/ Config!ConsumerGets
    <3>1. consumer' \in Consumer
      BY <2>4 DEF Config!ConsumerTakes, Config!ConsumerGets, Config!Reads
    <3>2. signal' \in BOOLEAN
      BY <2>4 DEF Config!ConsumerTakes, Config!ConsumerGets
    <3>3. UNCHANGED <<content, modTime, flags, lastMod, watcher, applied>>
      BY <2>4 DEF Config!ConsumerTakes, Config!ConsumerGets
    <3>4. QED
      BY <3>1, <3>2, <3>3
  <2>5. ASSUME NEW c \in Config!Component, NEW then \in {"waiting", "engine"},
               Config!UpdateConfig(c, then)
        PROVE  Types'
    BY <2>5 DEF Config!UpdateConfig
  <2>6. CASE UNCHANGED configVars
    BY <2>6 DEF configVars
  <2>7. QED
    BY <2>1, <2>2, <2>3, <2>4, <2>5, <2>6 DEF Config!Next, Config!Component
<1>3. QED
  BY <1>1, <1>2, PTL DEF Spec

(* UIHub: there are finitely many members, so that the slow ones can be     *)
(* enumerated, as many as there is room for.                                *)
LEMMA Enumerated ==
    ASSUME NEW S, IsFiniteSet(S)
    PROVE  /\ Cardinality(S) \in Nat /\ Hub!Cardinality(S) = Cardinality(S)
           /\ Hub!SetToSeq(S) \in Seq(S) /\ Len(Hub!SetToSeq(S)) = Cardinality(S)
<1>1. Hub!Cardinality(S) = Cardinality(S)
  BY DEF Hub!Cardinality, Cardinality
<1>2. Cardinality(S) \in Nat /\ ExistsBijection(1..Cardinality(S), S)
  BY FS_CardinalityType
<1>3. PICK f \in [1..Cardinality(S) -> S] : Hub!IsInjective(f)
  BY <1>2 DEF ExistsBijection, Bijection, Injection, IsInjective, Hub!IsInjective
<1>4. Hub!SetToSeq(S) \in [1..Cardinality(S) -> S]
  BY <1>1, <1>3 DEF Hub!SetToSeq
<1>5. QED
  BY <1>1, <1>2, <1>4

LEMMA AppendedFits ==
    ASSUME NEW s \in Seq(Client), NEW c \in Client, NEW cap \in Nat, Len(s) < cap
    PROVE  Append(s, c) \in Seq(Client) /\ Len(Append(s, c)) <= cap
<1>1. Len(s) \in Nat /\ Len(Append(s, c)) = Len(s) + 1
  OBVIOUS
<1>2. QED
  BY <1>1

LEMMA HubTypes == Spec => [](Hub!TypeOK /\ IsFiniteSet(clients))
<1> DEFINE Types == Hub!TypeOK /\ IsFiniteSet(clients)
<1> USE DEF Hub!TypeOK, Hub!pumps, Hub!channels
<1>0. QueueCap \in Nat /\ SendCap \in Nat
  BY LimitsAssumption
<1> DEFINE Conns == [Client -> {"none", "open", "broken", "closed"}]
<1>1. Init => Types
  <2> SUFFICES ASSUME Init PROVE Types
    OBVIOUS
  <2>1. clients = {} /\ reading = {} /\ writing = {} /\ register = << >> /\ unregister = << >>
    BY DEF Init, Hub!Init
  <2>2. broadcast = 0 /\ isShutdown = FALSE /\ conn \in Conns
    BY DEF Init, Hub!Init
  <2>3. send \in [Client -> 0..SendCap] /\ closings \in [Client -> Nat]
    BY <1>0 DEF Init, Hub!Init
  <2>4. register \in Seq(Client) /\ unregister \in Seq(Client) /\ Len(<< >>) = 0
    BY <2>1
  <2>5. IsFiniteSet(clients)
    BY <2>1, FS_EmptySet
  <2>6. broadcast \in 0..QueueCap /\ isShutdown \in BOOLEAN
    <3>1. 0 \in 0..QueueCap
      BY <1>0
    <3>2. QED
      BY <2>2, <3>1, Zenon
  <2>7. Len(register) <= QueueCap /\ Len(unregister) <= QueueCap
    BY <1>0, <2>1, <2>4
  <2>8. QED
    BY <2>1, <2>2, <2>3, <2>4, <2>5, <2>6, <2>7
<1>2. Types /\ [Next]_vars => Types'
  <2> SUFFICES ASSUME Types, [Hub!Next]_hubVars PROVE Types'
    BY PartSteps
  <2>1. ASSUME NEW c \in Client, Hub!HandleConnections(c) PROVE Types'
    <3>1. conn' \in Conns
      BY <2>1 DEF Hub!HandleConnections
    <3>2. register' \in Seq(Client) /\ Len(register') <= QueueCap
      <4>1. \/ register' = register
            \/ Len(register) < QueueCap /\ register' = Append(register, c)
        BY <2>1 DEF Hub!HandleConnections
      <4>2. QED
        BY <1>0, <4>1, AppendedFits
    <3>3. reading' \subseteq Client /\ writing' \subseteq Client
      BY <2>1 DEF Hub!HandleConnections
    <3>4. UNCHANGED <<clients, unregister, broadcast, send, closings, isShutdown>>
      BY <2>1 DEF Hub!HandleConnections
    <3>5. QED
      BY <3>1, <3>2, <3>3, <3>4
  <2>2. ASSUME NEW c \in Client, Hub!PeerLeaves(c) PROVE Types'
    BY <2>2 DEF Hub!PeerLeaves
  <2>3. ASSUME NEW c \in Client, Hub!Pump(c) PROVE Types'
    <3> USE DEF Hub!Pump, Hub!WriteMessage, Hub!WriteStops, Hub!ReadFails, Hub!WriteEnds,
                Hub!unchangedByWriter
    <3>1. conn' \in Conns
      BY <2>3
    <3>2. unregister' \in Seq(Client) /\ Len(unregister') <= QueueCap
      <4>1. \/ unregister' = unregister
            \/ Len(unregister) < QueueCap /\ unregister' = Append(unregister, c)
        BY <2>3
      <4>2. QED
        BY <1>0, <4>1, AppendedFits
    <3>3. send' \in [Client -> 0..SendCap]
      <4>1. send' = send \/ (send[c] > 0 /\ send' = [send EXCEPT ![c] = @ - 1])
        <5>1. CASE Hub!ReadFails(c)
          BY <5>1
        <5>2. CASE Hub!WriteMessage(c)
          BY <5>2
        <5>3. CASE Hub!WriteStops(c)
          BY <5>3
        <5>4. QED
          BY <2>3, <5>1, <5>2, <5>3
      <4>2. send[c] \in 0..SendCap
        OBVIOUS
      <4>3. send[c] > 0 => send[c] - 1 \in 0..SendCap
        BY <1>0, <4>2
      <4>4. QED
        BY <4>1, <4>3
    <3>4. reading' \subseteq Client /\ writing' \subseteq Client
      BY <2>3
    <3>5. UNCHANGED <<clients, register, broadcast, closings, isShutdown>>
      BY <2>3
    <3>6. QED
      BY <3>1, <3>2, <3>3, <3>4, <3>5
  <2>4. CASE Hub!Broadcast
    BY <1>0, <2>4 DEF Hub!Broadcast
  <2>5. CASE Hub!Register
    <3>1. /\ register # << >> /\ register' = Tail(register)
          /\ clients' = clients \union {Head(register)}
          /\ UNCHANGED <<unregister, broadcast, send, closings, conn, reading, writing, isShutdown>>
      BY <2>5 DEF Hub!Register
    <3>2. Head(register) \in Client /\ register' \in Seq(Client) /\ Len(register') <= QueueCap
      BY <1>0, <3>1
    <3>3. IsFiniteSet(clients')
      BY <3>1, FS_AddElement
    <3>4. QED
      BY <3>1, <3>2, <3>3
  <2>6. CASE Hub!Unregister
    <3>1. /\ unregister # << >> /\ unregister' = Tail(unregister)
          /\ UNCHANGED <<register, broadcast, send, conn, reading, writing, isShutdown>>
      BY <2>6 DEF Hub!Unregister
    <3>2. unregister' \in Seq(Client) /\ Len(unregister') <= QueueCap
      BY <1>0, <3>1
    <3> DEFINE d == Head(unregister)
    <3>3. \/ UNCHANGED <<clients, closings>>
          \/ clients' = clients \ {d} /\ closings' = [closings EXCEPT ![d] = @ + 1]
      BY <2>6 DEF Hub!Unregister, Hub!Known
    <3>4. d \in Client
      BY <3>1
    <3>5. clients' \in SUBSET clients /\ closings' \in [Client -> Nat]
      BY <3>3, <3>4
    <3>6. IsFiniteSet(clients')
      BY <3>5, FS_Subset
    <3>7. QED
      BY <3>1, <3>2, <3>5, <3>6
  <2>7. CASE Hub!TakeBroadcast
    <3> DEFINE slow == {c \in clients : send[c] = SendCap}
               room == QueueCap - Len(unregister)
    <3>1. /\ broadcast > 0 /\ broadcast' = broadcast - 1
          /\ send' = [c \in Client |-> IF c \in clients \ slow THEN send[c] + 1 ELSE send[c]]
          /\ UNCHANGED <<clients, register, closings, conn, reading, writing, isShutdown>>
      BY <2>7 DEF Hub!TakeBroadcast
    <3>2. PICK lucky \in SUBSET slow :
            /\ Hub!Cardinality(lucky) = IF Hub!Cardinality(slow) < room THEN Hub!Cardinality(slow)
                                        ELSE room
            /\ unregister' = unregister \o Hub!SetToSeq(lucky)
      BY <2>7 DEF Hub!TakeBroadcast, Hub!Dropped
    <3>3. IsFiniteSet(slow) /\ IsFiniteSet(lucky) /\ lucky \in SUBSET Client
      <4>1. slow \in SUBSET clients /\ lucky \in SUBSET clients
        OBVIOUS
      <4>2. QED
        BY <4>1, FS_Subset
    <3>4. send' \in [Client -> 0..SendCap]
      BY <1>0, <3>1
    <3> HIDE DEF slow
    <3> DEFINE gone == Hub!SetToSeq(lucky)
    <3>5. gone \in Seq(Client) /\ Len(gone) <= room
      <4>1. /\ Cardinality(slow) \in Nat /\ Hub!Cardinality(slow) = Cardinality(slow)
            /\ Hub!Cardinality(lucky) = Cardinality(lucky) /\ Cardinality(lucky) \in Nat
            /\ gone \in Seq(lucky) /\ Len(gone) = Cardinality(lucky)
        BY <3>3, Enumerated
      <4>2. room \in Nat
        BY <1>0
      <4>3. gone \in Seq(Client)
        BY <3>3, <4>1
      <4>4. Cardinality(lucky) <= room
        BY <3>2, <4>1, <4>2
      <4>5. QED
        BY <4>1, <4>3, <4>4
    <3> HIDE DEF gone
    <3>6. unregister' \in Seq(Client) /\ Len(unregister') = Len(unregister) + Len(gone)
      BY <3>2, <3>5 DEF gone
    <3>7. Len(unregister') <= QueueCap /\ Len(gone) \in Nat
      BY <1>0, <3>5, <3>6
    <3>8. QED
      BY <1>0, <3>1, <3>4, <3>6, <3>7
  <2>8. CASE Hub!Shutdown
    BY <2>8, FS_EmptySet DEF Hub!Shutdown
  <2>9. CASE UNCHANGED hubVars
    BY <2>9 DEF hubVars
  <2>10. QED
    BY <2>1, <2>2, <2>3, <2>4, <2>5, <2>6, <2>7, <2>8, <2>9 DEF Hub!Next
<1>3. QED
  BY <1>1, <1>2, PTL DEF Spec

=============================================================================
