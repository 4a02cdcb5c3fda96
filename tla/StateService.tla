----------------------------- MODULE StateService -----------------------------
(***************************************************************************)
(* The state service and its reducer (internal/state/service.go,           *)
(* reducer.go).  Each subscription of the bus has a proxy actor of its     *)
(* own (internal/domain/bus.go), so that handleStateTick and handleTaskEnd *)
(* run at the same time, one event each: both read the current snapshot,   *)
(* reduce the event into it, take a version and store the result.          *)
(*                                                                         *)
(* A snapshot keeps the number of the tick it shows, the danger zones and  *)
(* the visited chunks; a zone is its key (reason and cell) and its risk.   *)
(* The threat heatmap, roughness of terrain and the memory of places are   *)
(* not modelled.                                                           *)
(***************************************************************************)
EXTENDS Naturals, Sequences, SequencesExt

CONSTANTS
    Cell,       \* the keys of danger zones
    Here,       \* the cell the bot is in, where its failures are marked
    Chunk,      \* the chunks it may be in
    MaxZones,   \* mergeDangerZones keeps that many
    MaxTicks, MaxEnds   \* bounds: state ticks, ends of tasks

VARIABLES
    current,    \* Service.currentState
    version,    \* Service.stateVersion
    handler,    \* the two proxies, by event type
    published,  \* the version of the last STATE_UPDATED event
    panics,     \* how many PANIC events
    ticks, ends \* how many events have been taken up

vars == <<current, version, handler, published, panics, ticks, ends>>

-----------------------------------------------------------------------------
Zone == [key : Cell, risk : 1..2]
Marked == [key |-> Here, risk |-> 1]         \* MarkAreaRisky(..., 0.85)
Zones == {<< >>} \union {<<z>> : z \in Zone}   \* of a tick, the bot's own memory
EmptyState == [tick |-> 0, zones |-> << >>, chunks |-> {}]
Resting == [pc |-> "rest"]

Init ==
    /\ current = [version |-> 0, state |-> EmptyState]
    /\ version = 0
    /\ handler = [h \in {"tick", "end"} |-> Resting]
    /\ published = 0 /\ panics = 0
    /\ ticks = 0 /\ ends = 0

(* Bug: what was known is dropped                                           *)
MergeForgets(existing, incoming) == IF incoming = << >> THEN existing ELSE incoming

(* The incoming zones first, one for each key, with the highest risk; the   *)
(* two shortcuts neither deduplicate nor cut.                               *)
MergeDangerZones(existing, incoming) ==
    LET all == incoming \o existing
        First == {n \in DOMAIN all : \A m \in 1..(n - 1) : all[m].key # all[n].key}
        order == CHOOSE f \in [1..Cardinality(First) -> First] :
                    \A i, j \in DOMAIN f : i < j => f[i] < f[j]
        Riskiest(n) ==
            CHOOSE z \in Zone : /\ z.key = all[n].key
                                /\ Contains(all, z)
                                /\ \A m \in DOMAIN all : all[m].key = z.key => all[m].risk <= z.risk
        merged == [i \in DOMAIN order |-> Riskiest(order[i])]
    IN  IF existing = << >> THEN incoming
        ELSE IF incoming = << >> THEN existing
        ELSE SubSeq(merged, 1, IF Len(merged) > MaxZones THEN MaxZones ELSE Len(merged))

(* Reduce, STATE_TICK *)
ReduceTick(state, zones, chunk) ==
    [tick |-> ticks + 1,
     zones |-> MergeDangerZones(state.zones, zones),
     chunks |-> state.chunks \union {chunk}]

(* Reduce, TASK_END: being blocked or stuck marks the area. *)
ReduceTaskEnd(state, bad) ==
    IF bad THEN [state EXCEPT !.zones = Append(@, Marked)] ELSE state

Works(h, new) ==
    handler' = [handler EXCEPT ![h] =
        [pc |-> "reduced", base |-> current.version, state |-> new, version |-> 0]]

(* handleStateTick up to saveState: a critical state raises the alarm at    *)
(* once (lava, a fall, health below 8, three threats closer than 4).        *)
HandleStateTick(zones, chunk, critical) ==
    /\ handler["tick"] = Resting /\ ticks < MaxTicks
    /\ Works("tick", ReduceTick(current.state, zones, chunk))
    /\ ticks' = ticks + 1
    /\ panics' = IF critical THEN panics + 1 ELSE panics
    /\ UNCHANGED <<current, version, published, ends>>

(* A tick that cannot be decoded leaves the state as it is, which is saved  *)
(* again; if it is critical, the alarm is raised again.                     *)
MalformedTick(critical) ==
    /\ handler["tick"] = Resting /\ ticks < MaxTicks
    /\ Works("tick", current.state)
    /\ ticks' = ticks + 1
    /\ panics' = IF critical THEN panics + 1 ELSE panics
    /\ UNCHANGED <<current, version, published, ends>>

(* handleTaskEnd saves only what has changed the number of zones or chunks. *)
HandleTaskEnd(bad) ==
    /\ handler["end"] = Resting /\ ends < MaxEnds
    /\ LET new == ReduceTaskEnd(current.state, bad) IN
       IF Len(new.zones) # Len(current.state.zones)
       THEN Works("end", new) ELSE UNCHANGED handler
    /\ ends' = ends + 1
    /\ UNCHANGED <<current, version, published, panics, ticks>>

(* saveState, step by step: version.Add, currentState.Store, Publish *)
TakeVersion(h) ==
    /\ handler[h].pc = "reduced"
    /\ version' = version + 1
    /\ handler' = [handler EXCEPT ![h].pc = "versioned", ![h].version = version + 1]
    /\ UNCHANGED <<current, published, panics, ticks, ends>>

Store(h) ==
    /\ handler[h].pc = "versioned"
    /\ current' = [version |-> handler[h].version, state |-> handler[h].state]
    /\ handler' = [handler EXCEPT ![h].pc = "stored"]
    /\ UNCHANGED <<version, published, panics, ticks, ends>>

Publish(h) ==
    /\ handler[h].pc = "stored"
    /\ published' = handler[h].version
    /\ handler' = [handler EXCEPT ![h] = Resting]
    /\ UNCHANGED <<current, version, panics, ticks, ends>>

Next ==
    \/ \E zones \in Zones, chunk \in Chunk, critical \in BOOLEAN :
           HandleStateTick(zones, chunk, critical)
    \/ \E critical \in BOOLEAN : MalformedTick(critical)
    \/ \E bad \in BOOLEAN : HandleTaskEnd(bad)
    \/ \E h \in {"tick", "end"} : TakeVersion(h) \/ Store(h) \/ Publish(h)

-----------------------------------------------------------------------------
State == [tick : 0..MaxTicks, zones : Seq(Zone), chunks : SUBSET Chunk]

TypeOK ==
    /\ current \in [version : Nat, state : State]
    /\ version \in Nat /\ ticks \in 0..MaxTicks /\ ends \in 0..MaxEnds
    /\ \A h \in {"tick", "end"} :
          handler[h] = Resting \/ handler[h].state \in State
    /\ published \in Nat /\ panics \in 0..MaxTicks

(* World memory is preserved across ticks ("permanently mark that area as   *)
(* bad"): a danger zone leaves the snapshot, or loses risk, and a visited   *)
(* chunk leaves it only if the snapshot was stored over while the handler   *)
(* worked on an older one, or the list of zones is full.                    *)
Kept(old, new) ==
    /\ \/ Len(new.zones) >= MaxZones
       \/ \A i \in DOMAIN old.zones : \E j \in DOMAIN new.zones :
             new.zones[j].key = old.zones[i].key /\ new.zones[j].risk >= old.zones[i].risk
    /\ old.chunks \subseteq new.chunks

ForgetsOnlyByOverlap ==
    [][ \A h \in {"tick", "end"} :
          Store(h) => \/ handler[h].base # current.version
                      \/ Kept(current.state, current'.state) ]_vars

=============================================================================
