------------------------------ MODULE SeenLedger ------------------------------
(***************************************************************************)
(* The duplicate filter of a bot connection (wsActor in                    *)
(* internal/execution/ws_actor.go): seen maps an action ID to the time of  *)
(* its dispatch, keys lists the IDs oldest first; both are limited in      *)
(* length and in age.  One actor uses it, one message at a time.  Times    *)
(* are kept as ages in ticks.  cleanupExpired and isDuplicate read the     *)
(* clock one after the other: the second reading may be a tick late.       *)
(***************************************************************************)
EXTENDS Integers, Sequences, FiniteSets

CONSTANTS
    Id,       \* action IDs
    Capacity, \* wsActor.capacity
    TTL       \* wsActor.ttl, in ticks

VARIABLES
    keys,     \* wsActor.keys
    seen,     \* the IDs wsActor.seen has an entry for
    age,      \* [Id -> 0..AgeCap], the time since an ID was last recorded
    others    \* [Id -> 0..Capacity], how many IDs have been recorded since then

vars == <<keys, seen, age, others>>

AgeCap == TTL + 1   \* bound: an age above the TTL is as good as any other
OlderUncapped(a, late) == a + late   \* bug: the age does not saturate
Older(a, late) == IF a + late > AgeCap THEN AgeCap ELSE a + late

Init ==
    /\ keys = << >> /\ seen = {}
    /\ age = [id \in Id |-> AgeCap]
    /\ others = [id \in Id |-> Capacity]

Tick ==
    /\ age' = [id \in Id |-> Older(age[id], 1)]
    /\ age' # age
    /\ UNCHANGED <<keys, seen, others>>

-----------------------------------------------------------------------------
(* cleanupExpired pops the oldest keys while their entries have expired; a *)
(* key without an entry ends it.                                           *)
Expired(k) == k \in seen /\ age[k] > TTL

Pops ==
    {n \in 1..Len(keys) : \A m \in 1..n : Expired(keys[m]) /\ \A k \in 1..(m - 1) : keys[k] # keys[m]}

KeptKeys == SubSeq(keys, Cardinality(Pops) + 1, Len(keys))
KeptSeen == seen \ {keys[n] : n \in Pops}

(* Bugs: an entry that lapses a tick early, one that keeps its time when it *)
(* is recorded again, room for one key too many.                            *)
IsRecentDuplicate(id, late) == id \in KeptSeen /\ age[id] + late < TTL - 1
AgedUnlessSeen(id, late) ==
    [i \in Id |-> IF i = id /\ id \notin KeptSeen THEN 0 ELSE Older(age[i], late)]
OverFull == Len(KeptKeys) > Capacity

IsDuplicate(id, late) == id \in KeptSeen /\ age[id] + late < TTL

Full == Len(KeptKeys) >= Capacity

(* seen[id] = time.Now() *)
Aged(id, late) == [i \in Id |-> IF i = id THEN 0 ELSE Older(age[i], late)]

(* recordSeen: the oldest key makes room, and its entry goes with it. *)
Record(id, late) ==
    /\ IF Full
       THEN /\ keys' = Append(Tail(KeptKeys), id)
            /\ seen' = (KeptSeen \ {Head(KeptKeys)}) \union {id}
       ELSE /\ keys' = Append(KeptKeys, id)
            /\ seen' = KeptSeen \union {id}
    /\ age' = Aged(id, late)
    /\ others' = [i \in Id |-> IF i = id THEN 0
                               ELSE IF others[i] < Capacity THEN others[i] + 1 ELSE Capacity]

(* Checked and not recorded: a duplicate dispatch, or a preload *)
JustChecks(late) ==
    /\ keys' = KeptKeys /\ seen' = KeptSeen
    /\ age' = [i \in Id |-> Older(age[i], late)]
    /\ UNCHANGED others

Dispatch(id, late) ==
    IF IsDuplicate(id, late) THEN JustChecks(late) ELSE Record(id, late)

Preload(id, late) == JustChecks(late)

Next ==
    \/ Tick
    \/ \E id \in Id, late \in 0..1 : Dispatch(id, late) \/ Preload(id, late)

Spec == Init /\ [][Next]_vars

-----------------------------------------------------------------------------
TypeOK ==
    /\ keys \in Seq(Id) /\ seen \subseteq Id
    /\ age \in [Id -> 0..AgeCap] /\ others \in [Id -> 0..Capacity]

(* The memory of the filter is bounded: no entry outlives its key, and the  *)
(* list never exceeds the capacity.                                         *)
MemoryBounded ==
    /\ Len(keys) <= Capacity
    /\ \A id \in seen : \E n \in 1..Len(keys) : keys[n] = id

(* The dispatch of an ID is written again within the TTL only after the     *)
(* capacity of the filter has been used up by others.  The exception is an  *)
(* ID that was dispatched again just as its entry expired, between the two  *)
(* readings of the clock: the key it had is still in the list, and takes    *)
(* the new entry along when it leaves.                                      *)
Listed(id) == Cardinality({n \in 1..Len(keys) : keys[n] = id})
Muddled(id) == Listed(id) # (IF id \in seen THEN 1 ELSE 0)

NoEarlyRepeat ==
    [][ \A id \in Id, late \in 0..1 :
          /\ age[id] + late < TTL /\ others[id] < Capacity
          /\ ~Muddled(id) /\ ~IsDuplicate(id, late)
          => ~Dispatch(id, late) ]_vars

(* An ID is not kept out once its TTL is over, even if a key without an     *)
(* entry has stopped the cleanup.                                           *)
ExpiredPasses ==
    [][ \A id \in Id, late \in 0..1 :
          (age[id] > TTL /\ age'[id] # 0) => ~Dispatch(id, late) ]_vars

=============================================================================
