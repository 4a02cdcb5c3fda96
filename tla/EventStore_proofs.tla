---------------------------- MODULE EventStore_proofs ----------------------------
(***************************************************************************)
(* The event store implements EventLog, for all numbers of events, workers *)
(* and faults and all sizes of the channels, the buffer and the batches.   *)
(***************************************************************************)
EXTENDS ServerParts_proofs, SequenceTheorems

ToSet(s) == Store!ToSet(s)

(* Operations on sequences and the elements they have                       *)
LEMMA SetOfSeq ==
    ASSUME NEW S, NEW s \in Seq(S)
    PROVE  /\ \A e : e \in ToSet(s) <=> \E i \in 1..Len(s) : s[i] = e
           /\ ToSet(s) \subseteq S
           /\ \A t \in Seq(S) : s \o t \in Seq(S) /\ ToSet(s \o t) = ToSet(s) \union ToSet(t)
           /\ \A e \in S : Append(s, e) \in Seq(S) /\ ToSet(Append(s, e)) = ToSet(s) \union {e}
           /\ s # << >> => /\ Head(s) \in S /\ Tail(s) \in Seq(S)
                           /\ ToSet(s) = {Head(s)} \union ToSet(Tail(s))
<1>0. \A u \in Seq(S) : \A e : e \in ToSet(u) <=> \E i \in 1..Len(u) : u[i] = e
  BY DEF ToSet, Store!ToSet
<1>1. \A e : e \in ToSet(s) <=> \E i \in 1..Len(s) : s[i] = e
  BY <1>0
<1>2. ToSet(s) \subseteq S
  BY <1>1
<1>3. ASSUME NEW t \in Seq(S)
      PROVE  s \o t \in Seq(S) /\ ToSet(s \o t) = ToSet(s) \union ToSet(t)
  <2>1. /\ s \o t \in Seq(S) /\ Len(s \o t) = Len(s) + Len(t)
        /\ \A i \in 1..Len(s) : (s \o t)[i] = s[i]
        /\ \A i \in 1..Len(t) : (s \o t)[Len(s) + i] = t[i]
        /\ Len(s) \in Nat /\ Len(t) \in Nat
    OBVIOUS
  <2>2. ASSUME NEW e \in ToSet(s \o t) PROVE e \in ToSet(s) \/ e \in ToSet(t)
    <3>1. PICK i \in 1..Len(s \o t) : (s \o t)[i] = e
      BY <1>0, <2>1, <2>2
    <3>2. CASE i \in 1..Len(s)
      BY <1>0, <2>1, <3>1, <3>2
    <3>3. CASE ~(i \in 1..Len(s))
      <4>1. i - Len(s) \in 1..Len(t) /\ i = Len(s) + (i - Len(s))
        BY <2>1, <3>1, <3>3
      <4>2. t[i - Len(s)] = e
        BY <2>1, <3>1, <4>1
      <4>3. QED
        BY <1>0, <4>1, <4>2
    <3>4. QED
      BY <3>2, <3>3
  <2>3. ASSUME NEW e \in ToSet(s) PROVE e \in ToSet(s \o t)
    <3>1. PICK i \in 1..Len(s) : s[i] = e
      BY <1>0, <2>3
    <3>2. i \in 1..Len(s \o t) /\ (s \o t)[i] = e
      BY <2>1, <3>1
    <3>3. QED
      BY <1>0, <2>1, <3>2
  <2>4. ASSUME NEW e \in ToSet(t) PROVE e \in ToSet(s \o t)
    <3>1. PICK i \in 1..Len(t) : t[i] = e
      BY <1>0, <2>4
    <3>2. Len(s) + i \in 1..Len(s \o t) /\ (s \o t)[Len(s) + i] = e
      BY <2>1, <3>1
    <3>3. QED
      BY <1>0, <2>1, <3>2
  <2>5. QED
    BY <2>1, <2>2, <2>3, <2>4
<1>4. ASSUME NEW e \in S
      PROVE  Append(s, e) \in Seq(S) /\ ToSet(Append(s, e)) = ToSet(s) \union {e}
  <2> DEFINE t == Append(s, e)
  <2>1. /\ t \in Seq(S) /\ Len(t) = Len(s) + 1 /\ Len(s) \in Nat
        /\ \A i \in 1..Len(s) : t[i] = s[i]
        /\ t[Len(s) + 1] = e
    OBVIOUS
  <2> HIDE DEF t
  <2>2. ASSUME NEW d \in ToSet(t) PROVE d \in ToSet(s) \/ d = e
    <3>1. PICK i \in 1..Len(t) : t[i] = d
      BY <1>0, <2>1, <2>2
    <3>2. i \in 1..Len(s) \/ i = Len(s) + 1
      BY <2>1
    <3>3. QED
      BY <1>0, <2>1, <3>1, <3>2
  <2>3. ASSUME NEW d \in ToSet(s) PROVE d \in ToSet(t)
    <3>1. PICK i \in 1..Len(s) : s[i] = d
      BY <1>0, <2>3
    <3>2. i \in 1..Len(t) /\ t[i] = d
      BY <2>1, <3>1
    <3>3. QED
      BY <1>0, <2>1, <3>2
  <2>4. Len(s) + 1 \in 1..Len(t) /\ e \in ToSet(t)
    <3>1. Len(s) + 1 \in 1..Len(t)
      BY <2>1
    <3>2. QED
      BY <1>0, <2>1, <3>1
  <2>5. t \in Seq(S) /\ ToSet(t) = ToSet(s) \union {e}
    BY <2>1, <2>2, <2>3, <2>4
  <2>6. QED
    BY <2>5 DEF t
<1>5. ASSUME s # << >>
      PROVE  /\ Head(s) \in S /\ Tail(s) \in Seq(S)
             /\ ToSet(s) = {Head(s)} \union ToSet(Tail(s))
  <2>1. /\ Head(s) = s[1] /\ Tail(s) \in Seq(S) /\ Len(Tail(s)) = Len(s) - 1
        /\ \A i \in 1..(Len(s) - 1) : Tail(s)[i] = s[i + 1]
        /\ 1 \in 1..Len(s)
    BY <1>5
  <2>2. ASSUME NEW e \in ToSet(s), e # Head(s) PROVE e \in ToSet(Tail(s))
    <3>1. PICK i \in 1..Len(s) : s[i] = e
      BY <1>0, <2>2
    <3>2. i - 1 \in 1..(Len(s) - 1) /\ (i - 1) + 1 = i
      BY <2>1, <2>2, <3>1
    <3>3. Tail(s)[i - 1] = e
      BY <2>1, <3>1, <3>2
    <3>4. QED
      BY <1>0, <2>1, <3>2, <3>3
  <2>3. ASSUME NEW e \in ToSet(Tail(s)) PROVE e \in ToSet(s)
    <3> DEFINE t == Tail(s)
    <3>0. \E i \in 1..Len(t) : t[i] = e
      BY <1>0, <2>1, <2>3
    <3>1. PICK i \in 1..(Len(s) - 1) : Tail(s)[i] = e
      BY <2>1, <3>0
    <3>2. i + 1 \in 1..Len(s) /\ s[i + 1] = e
      BY <2>1, <3>1
    <3>3. QED
      BY <1>0, <3>2
  <2>4. Head(s) \in ToSet(s) /\ Head(s) \in S
    BY <1>0, <2>1
  <2>5. QED
    BY <2>1, <2>2, <2>3, <2>4
<1>6. QED
  BY <1>1, <1>2, <1>3, <1>4, <1>5

(* What the store does to batch and buffer, seen as one queue               *)
LEMMA QueueMoves ==
    ASSUME NEW S, NEW s \in Seq(S), NEW t \in Seq(S)
    PROVE  /\ SubSeq(s \o t, 1, Len(s)) = s
           /\ SubSeq(s \o t, Len(s) + 1, Len(s \o t)) = t
           /\ \A e \in S : s \o Append(t, e) = Append(s \o t, e)
           /\ t # << >> => Append(s, Head(t)) \o Tail(t) = s \o t
<1>1. /\ s \o t \in Seq(S) /\ Len(s \o t) = Len(s) + Len(t)
      /\ \A i \in 1..Len(s) : (s \o t)[i] = s[i]
      /\ \A i \in 1..Len(t) : (s \o t)[Len(s) + i] = t[i]
      /\ Len(s) \in Nat /\ Len(t) \in Nat
  OBVIOUS
<1>2. SubSeq(s \o t, 1, Len(s)) = s
  <2> DEFINE u == SubSeq(s \o t, 1, Len(s))
  <2>1. u \in Seq(S) /\ Len(u) = Len(s) /\ \A i \in 1..Len(s) : u[i] = (s \o t)[i]
    BY <1>1
  <2> HIDE DEF u
  <2>2. u = s
    BY <1>1, <2>1, SeqEqual
  <2>3. QED
    BY <2>2 DEF u
<1>3. SubSeq(s \o t, Len(s) + 1, Len(s \o t)) = t
  <2> DEFINE u == SubSeq(s \o t, Len(s) + 1, Len(s) + Len(t))
  <2>1. u \in Seq(S) /\ Len(u) = Len(t) /\ \A i \in 1..Len(t) : u[i] = (s \o t)[Len(s) + i]
    BY <1>1
  <2> HIDE DEF u
  <2>2. u = t
    BY <1>1, <2>1, SeqEqual
  <2>3. QED
    BY <1>1, <2>2 DEF u
<1>4. ASSUME NEW e \in S PROVE s \o Append(t, e) = Append(s \o t, e)
  <2>1. Append(t, e) = t \o <<e>> /\ Append(s \o t, e) = (s \o t) \o <<e>> /\ <<e>> \in Seq(S)
    BY <1>1, AppendIsConcat
  <2>2. QED
    BY <2>1, ConcatAssociative
<1>5. ASSUME t # << >> PROVE Append(s, Head(t)) \o Tail(t) = s \o t
  <2>1. /\ Head(t) \in S /\ Tail(t) \in Seq(S) /\ <<Head(t)>> \in Seq(S)
        /\ <<Head(t)>> \o Tail(t) = t
    <3>1. Head(t) \in S /\ Tail(t) \in Seq(S) /\ <<Head(t)>> \in Seq(S)
      BY <1>5
    <3>2. SubSeq(t, 1, Len(t)) = <<t[1]>> \o SubSeq(t, 2, Len(t))
      BY <1>5, SubSeqRecursiveFirst
    <3>3. SubSeq(t, 1, Len(t)) = t /\ SubSeq(t, 2, Len(t)) = Tail(t) /\ Head(t) = t[1]
      BY <1>5, SubSeqFull, TailIsSubSeq
    <3>4. QED
      BY <3>1, <3>2, <3>3
  <2>2. Append(s, Head(t)) = s \o <<Head(t)>>
    BY <2>1, AppendIsConcat
  <2>3. (s \o <<Head(t)>>) \o Tail(t) = s \o (<<Head(t)>> \o Tail(t))
    BY <2>1, ConcatAssociative
  <2>4. QED
    BY <2>1, <2>2, <2>3
<1>6. QED
  BY <1>2, <1>3, <1>4, <1>5

Distinct(s) == \A m, n \in 1..Len(s) : s[m] = s[n] => m = n

LEMMA DistinctSeq ==
    ASSUME NEW S, NEW s \in Seq(S), Distinct(s)
    PROVE  /\ \A e \in S : e \notin ToSet(s) => Distinct(Append(s, e))
           /\ s # << >> => Distinct(Tail(s)) /\ Head(s) \notin ToSet(Tail(s))
<1>1. ASSUME NEW e \in S, e \notin ToSet(s) PROVE Distinct(Append(s, e))
  <2>1. \A i \in 1..Len(s) : s[i] # e
    BY <1>1, SetOfSeq
  <2>2. QED
    BY <2>1 DEF Distinct
<1>2. ASSUME s # << >> PROVE Distinct(Tail(s)) /\ Head(s) \notin ToSet(Tail(s))
  <2> DEFINE t == Tail(s)
  <2>1. /\ Head(s) = s[1] /\ t \in Seq(S) /\ Len(t) = Len(s) - 1 /\ Len(s) \in Nat
        /\ \A i \in 1..(Len(s) - 1) : t[i] = s[i + 1] /\ i + 1 \in 1..Len(s) /\ i + 1 # 1
        /\ 1 \in 1..Len(s)
    BY <1>2
  <2> HIDE DEF t
  <2>2. ASSUME NEW m \in 1..Len(t), NEW n \in 1..Len(t), t[m] = t[n] PROVE m = n
    <3>1. m + 1 = n + 1
      BY <2>1, <2>2 DEF Distinct
    <3>2. QED
      BY <2>1, <3>1
  <2>3. \A i \in 1..Len(t) : t[i] # Head(s)
    BY <2>1 DEF Distinct
  <2>4. Head(s) \notin ToSet(t)
    BY <2>1, <2>3, SetOfSeq
  <2>5. Distinct(t)
    BY <2>2 DEF Distinct
  <2>6. QED
    BY <2>4, <2>5 DEF t
<1>3. QED
  BY <1>1, <1>2

-----------------------------------------------------------------------------
(* An event is in one place at a time: what the channels and the workers    *)
(* hold has been taken up by a sink, is held by no other of them, and is    *)
(* neither queued nor stored nor lost.  So what a worker appends is new to  *)
(* the log, which the abstract specification asks of it.                    *)
Chan == {"critical", "plain"}
Task == [at : {"append", "insert"}, event : Event]
Holding == {w \in Worker : workers[w] \in Task}
Settled == ToSet(batch) \union ToSet(buffer) \union ToSet(log) \union lost

StoreTypes ==
    /\ sunk \subseteq Event /\ lost \subseteq Event
    /\ channels \in [Chan -> Seq(Event)]
    /\ workers \in [Worker -> {Store!Free, Store!Gone} \union Task]
    /\ batch \in Seq(Event) /\ buffer \in Seq(Event) /\ log \in Seq(Event)
    /\ faults \in Nat

OnePlace ==
    /\ Settled \subseteq sunk
    /\ \A c \in Chan : ToSet(channels[c]) \subseteq sunk \ Settled /\ Distinct(channels[c])
    /\ \A c, d \in Chan : c # d => ToSet(channels[c]) \cap ToSet(channels[d]) = {}
    /\ \A w \in Holding : /\ workers[w].event \in sunk \ Settled
                          /\ \A c \in Chan : workers[w].event \notin ToSet(channels[c])
    /\ \A v, w \in Holding : v # w => workers[v].event # workers[w].event

StoreInv == StoreTypes /\ OnePlace

(* Whoever holds an event is not at rest.                                   *)
LEMMA Holders ==
    ASSUME StoreTypes
    PROVE  /\ Store!Free \notin Task /\ Store!Gone \notin Task
           /\ \A w \in Worker, label \in {"append", "insert"} :
                 Store!At(w, label) => w \in Holding /\ workers[w].event \in Event
  BY DEF StoreTypes, Task, Holding, Store!At, Store!Free, Store!Gone

-----------------------------------------------------------------------------
LEMMA StoreInit == Init => StoreInv
<1> SUFFICES ASSUME Init PROVE StoreInv
  OBVIOUS
<1>1. StoreTypes
  BY DEF Init, Store!Init, StoreTypes, Chan
<1>2. ToSet(<< >>) = {} /\ Distinct(<< >>)
  BY DEF ToSet, Store!ToSet, Distinct
<1>3. Holding = {} /\ Settled = {} /\ channels = [c \in Chan |-> << >>]
  BY <1>1, <1>2, Holders DEF Init, Store!Init, Holding, Settled, Chan
<1>4. QED
  BY <1>1, <1>2, <1>3 DEF StoreInv, OnePlace

(* A step that leaves channels and workers alone and settles nothing new.   *)
LEMMA NothingNew ==
    ASSUME StoreInv, StoreTypes', Settled' \subseteq Settled, UNCHANGED <<sunk, channels, workers>>
    PROVE  StoreInv'
  BY DEF StoreInv, OnePlace, Holding

LEMMA SinkKeepsPlaces ==
    ASSUME StoreInv, NEW e \in Event, Store!Sink(e)
    PROVE  StoreInv'
<1>1. /\ e \notin sunk /\ sunk' = sunk \union {e}
      /\ UNCHANGED <<workers, buffer, batch, log, faults>>
  BY DEF Store!Sink, Store!storeVars
<1>2. Holding' = Holding
  BY <1>1 DEF Holding
<1> DEFINE c == Store!Channel(e)
<1>3. c \in Chan
  BY DEF Chan, Store!Channel
<1>4. CASE UNCHANGED <<channels, lost>>
  <2>1. StoreTypes' /\ Settled' = Settled
    BY <1>1, <1>4 DEF StoreInv, StoreTypes, Settled
  <2>2. QED
    BY <1>1, <1>2, <1>4, <2>1 DEF StoreInv, OnePlace
<1>5. CASE channels' = [channels EXCEPT ![c] = Append(channels[c], e)] /\ UNCHANGED lost
  <2>1. channels[c] \in Seq(Event) /\ e \notin ToSet(channels[c]) /\ Distinct(channels[c])
    BY <1>1, <1>3 DEF StoreInv, StoreTypes, OnePlace
  <2>2. /\ Append(channels[c], e) \in Seq(Event) /\ Distinct(Append(channels[c], e))
        /\ ToSet(Append(channels[c], e)) = ToSet(channels[c]) \union {e}
    BY <2>1, SetOfSeq, DistinctSeq
  <2>3. /\ channels' \in [Chan -> Seq(Event)]
        /\ ToSet(channels'[c]) = ToSet(channels[c]) \union {e} /\ Distinct(channels'[c])
        /\ \A d \in Chan : d # c => channels'[d] = channels[d]
    BY <1>3, <1>5, <2>2 DEF StoreInv, StoreTypes
  <2>4. StoreTypes' /\ Settled' = Settled
    BY <1>1, <1>5, <2>3 DEF StoreInv, StoreTypes, Settled
  <2> HIDE DEF c
  <2>5. OnePlace'
    <3>1. e \notin Settled /\ \A d \in Chan : e \notin ToSet(channels[d])
      BY <1>1 DEF StoreInv, OnePlace
    <3>2. \A d \in Chan : ToSet(channels'[d]) \subseteq (sunk' \ Settled') /\ Distinct(channels'[d])
      BY <1>1, <1>3, <2>3, <2>4, <3>1 DEF StoreInv, OnePlace
    <3>3. \A d, b \in Chan : d # b => ToSet(channels'[d]) \cap ToSet(channels'[b]) = {}
      <4> SUFFICES ASSUME NEW d \in Chan, NEW b \in Chan, d # b
                   PROVE  ToSet(channels'[d]) \cap ToSet(channels'[b]) = {}
        OBVIOUS
      <4>1. ToSet(channels[d]) \cap ToSet(channels[b]) = {}
        BY DEF StoreInv, OnePlace
      <4>2. CASE d # c /\ b # c
        BY <2>3, <4>1, <4>2
      <4>3. CASE d = c \/ b = c
        BY <2>3, <3>1, <4>1, <4>3
      <4>4. QED
        BY <4>2, <4>3
    <3>4. \A w \in Holding : workers[w].event # e
      BY <1>1 DEF StoreInv, OnePlace
    <3>5. \A w \in Holding : \A d \in Chan : workers[w].event \notin ToSet(channels'[d])
      BY <1>3, <2>3, <3>4 DEF StoreInv, OnePlace
    <3>6. QED
      BY <1>1, <1>2, <2>4, <3>2, <3>3, <3>5 DEF StoreInv, OnePlace
  <2>6. QED
    BY <2>4, <2>5 DEF StoreInv
<1>6. CASE lost' = lost \union {e} /\ UNCHANGED channels
  <2>1. StoreTypes' /\ Settled' = Settled \union {e}
    BY <1>1, <1>6 DEF StoreInv, StoreTypes, Settled
  <2>2. QED
    BY <1>1, <1>2, <1>6, <2>1 DEF StoreInv, OnePlace
<1>7. QED
  BY <1>4, <1>5, <1>6 DEF Store!Sink

LEMMA TakingKeepsPlaces ==
    ASSUME StoreInv, NEW w \in Worker, Store!WorkerTakes(w)
    PROVE  StoreInv'
<1>1. PICK c \in Chan :
         /\ channels[c] # << >>
         /\ workers' = [workers EXCEPT ![w] = [at |-> "append", event |-> Head(channels[c])]]
         /\ channels' = [channels EXCEPT ![c] = Tail(channels[c])]
  BY DEF Store!WorkerTakes, StoreInv, StoreTypes
<1>2. /\ workers[w] = Store!Free
      /\ UNCHANGED <<sunk, buffer, batch, log, lost, faults>>
  BY DEF Store!WorkerTakes, Store!storeVars
<1> DEFINE e == Head(channels[c])
<1>3. /\ e \in Event /\ e \in ToSet(channels[c]) /\ e \notin ToSet(Tail(channels[c]))
      /\ Tail(channels[c]) \in Seq(Event) /\ Distinct(Tail(channels[c]))
      /\ ToSet(Tail(channels[c])) \subseteq ToSet(channels[c])
  <2>1. channels[c] \in Seq(Event) /\ Distinct(channels[c])
    BY DEF StoreInv, StoreTypes, OnePlace
  <2>2. QED
    BY <1>1, <2>1, SetOfSeq, DistinctSeq
<1>4. /\ channels' \in [Chan -> Seq(Event)]
      /\ Distinct(channels'[c]) /\ e \notin ToSet(channels'[c])
      /\ ToSet(channels'[c]) \subseteq ToSet(channels[c])
      /\ \A d \in Chan : d # c => channels'[d] = channels[d]
  BY <1>1, <1>3 DEF StoreInv, StoreTypes
<1>5. /\ workers' \in [Worker -> {Store!Free, Store!Gone} \union Task]
      /\ workers'[w] \in Task /\ workers'[w].event = e
      /\ \A v \in Worker : v # w => workers'[v] = workers[v]
  BY <1>1, <1>3 DEF StoreInv, StoreTypes, Task
<1> HIDE DEF e
<1>6. w \notin Holding /\ Holding' = Holding \union {w}
  BY <1>2, <1>5, Holders DEF StoreInv, Holding
<1>7. StoreTypes' /\ Settled' = Settled
  BY <1>2, <1>4, <1>5 DEF StoreInv, StoreTypes, Settled
<1>8. OnePlace'
  <2>1. \A d \in Chan : ToSet(channels'[d]) \subseteq ToSet(channels[d]) /\ Distinct(channels'[d])
    BY <1>4 DEF StoreInv, OnePlace
  <2>2. \A d \in Chan : e \notin ToSet(channels'[d])
    BY <1>3, <1>4 DEF StoreInv, OnePlace
  <2>3. \A v \in Holding : workers'[v].event = workers[v].event /\ workers[v].event # e
    BY <1>3, <1>5, <1>6 DEF StoreInv, OnePlace, Holding
  <2>4. e \in sunk \ Settled
    BY <1>3 DEF StoreInv, OnePlace
  <2>5. \A v \in Holding' : /\ workers'[v].event \in sunk \ Settled
                            /\ \A d \in Chan : workers'[v].event \notin ToSet(channels'[d])
    BY <1>5, <1>6, <2>1, <2>2, <2>3, <2>4 DEF StoreInv, OnePlace
  <2>6. \A u, v \in Holding' : u # v => workers'[u].event # workers'[v].event
    BY <1>5, <1>6, <2>3 DEF StoreInv, OnePlace
  <2>7. QED
    BY <1>2, <1>7, <2>1, <2>5, <2>6 DEF StoreInv, OnePlace
<1>9. QED
  BY <1>7, <1>8 DEF StoreInv

(* A worker lets go of its event, which alone may have been settled by it.  *)
LEMMA DoneKeepsPlaces ==
    ASSUME StoreInv, NEW w \in Holding, workers' = [workers EXCEPT ![w] = Store!Free],
           StoreTypes', Settled' \subseteq Settled \union {workers[w].event},
           UNCHANGED <<sunk, channels>>
    PROVE  StoreInv'
<1>1. /\ w \in Worker /\ workers'[w] = Store!Free
      /\ \A v \in Worker : v # w => workers'[v] = workers[v]
  BY DEF StoreInv, StoreTypes, Holding
<1>2. Holding' = Holding \ {w}
  BY <1>1, Holders DEF StoreInv, Holding
<1> DEFINE e == workers[w].event
<1>3. e \in sunk /\ \A d \in Chan : e \notin ToSet(channels[d])
  BY DEF StoreInv, OnePlace
<1>4. \A v \in Holding' : v \in Holding /\ workers'[v] = workers[v] /\ workers[v].event # e
  BY <1>1, <1>2 DEF StoreInv, OnePlace, Holding
<1> HIDE DEF e
<1>5. Settled' \subseteq Settled \union {e}
  BY DEF e
<1>6. OnePlace'
  <2>1. Settled' \subseteq sunk'
    BY <1>3, <1>5 DEF StoreInv, OnePlace
  <2>2. \A d \in Chan : ToSet(channels[d]) \subseteq sunk \ Settled'
    BY <1>3, <1>5 DEF StoreInv, OnePlace
  <2>3. \A v \in Holding' : workers'[v].event \in sunk \ Settled'
    BY <1>4, <1>5 DEF StoreInv, OnePlace
  <2>4. QED
    BY <1>4, <2>1, <2>2, <2>3 DEF StoreInv, OnePlace
<1>7. QED
  BY <1>6 DEF StoreInv

LEMMA WorkKeepsPlaces ==
    ASSUME StoreInv, NEW w \in Worker, Store!Work(w)
    PROVE  StoreInv'
<1> USE DEF Store!Done, Store!unchangedByAppend
<1>1. CASE Store!WorkerTakes(w)
  BY <1>1, TakingKeepsPlaces
<1>2. CASE Store!WorkerStops(w)
  <2>1. /\ workers[w] = Store!Free /\ workers' = [workers EXCEPT ![w] = Store!Gone]
        /\ UNCHANGED <<sunk, channels, buffer, batch, log, lost, faults>>
    BY <1>2 DEF Store!WorkerStops, Store!storeVars
  <2>2. StoreTypes' /\ Settled' = Settled
    BY <2>1 DEF StoreInv, StoreTypes, Settled
  <2>3. \A v \in Holding' : v \in Holding /\ workers'[v] = workers[v]
    BY <2>1, Holders DEF StoreInv, StoreTypes, Holding
  <2>4. QED
    BY <2>1, <2>2, <2>3 DEF StoreInv, OnePlace
<1>3. CASE Store!AppendBuffers(w)
  <2>1. w \in Holding /\ workers[w].event \in Event
    BY <1>3, Holders DEF Store!AppendBuffers, StoreInv
  <2>2. /\ workers' = [workers EXCEPT ![w] = Store!Free]
        /\ buffer' = Append(buffer, workers[w].event)
        /\ UNCHANGED <<sunk, channels, batch, log, lost, faults>>
    BY <1>3 DEF Store!AppendBuffers
  <2>3. buffer' \in Seq(Event) /\ ToSet(buffer') = ToSet(buffer) \union {workers[w].event}
    BY <2>1, <2>2, SetOfSeq DEF StoreInv, StoreTypes
  <2>4. StoreTypes'
    BY <2>2, <2>3 DEF StoreInv, StoreTypes
  <2>5. Settled' \subseteq Settled \union {workers[w].event}
    BY <2>2, <2>3 DEF Settled
  <2>6. QED
    BY <2>1, <2>2, <2>4, <2>5, DoneKeepsPlaces
<1>4. CASE Store!AppendGivesUp(w)
  <2>1. w \in Holding /\ workers[w].event \in Event
    BY <1>4, Holders DEF Store!AppendGivesUp, StoreInv
  <2>2. /\ workers' = [workers EXCEPT ![w] = Store!Free]
        /\ lost' = lost \union {workers[w].event}
        /\ UNCHANGED <<sunk, channels, batch, buffer, log, faults>>
    BY <1>4 DEF Store!AppendGivesUp
  <2>3. StoreTypes'
    BY <2>1, <2>2 DEF StoreInv, StoreTypes
  <2>4. Settled' \subseteq Settled \union {workers[w].event}
    BY <2>2 DEF Settled
  <2>5. QED
    BY <2>1, <2>2, <2>3, <2>4, DoneKeepsPlaces
<1>5. CASE Store!AppendFindsFull(w)
  <2>1. w \in Holding /\ workers[w] \in Task
    BY <1>5, Holders DEF Store!AppendFindsFull, StoreInv, Holding
  <2>2. /\ workers' = [workers EXCEPT ![w].at = "insert"]
        /\ UNCHANGED <<sunk, channels, batch, buffer, log, lost, faults>>
    BY <1>5 DEF Store!AppendFindsFull
  <2>3. /\ workers' \in [Worker -> {Store!Free, Store!Gone} \union Task]
        /\ workers'[w] \in Task /\ workers'[w].event = workers[w].event
        /\ \A v \in Worker : v # w => workers'[v] = workers[v]
    BY <2>1, <2>2 DEF StoreInv, StoreTypes, Task
  <2>4. Holding' = Holding /\ \A v \in Holding : workers'[v].event = workers[v].event
    BY <2>1, <2>3 DEF Holding
  <2>5. StoreTypes' /\ Settled' = Settled
    BY <2>2, <2>3 DEF StoreInv, StoreTypes, Settled
  <2>6. QED
    BY <2>2, <2>4, <2>5 DEF StoreInv, OnePlace
<1>6. CASE Store!InsertAtOnce(w)
  <2>1. w \in Holding /\ workers[w].event \in Event
    BY <1>6, Holders DEF Store!InsertAtOnce, StoreInv
  <2>2. /\ workers' = [workers EXCEPT ![w] = Store!Free]
        /\ UNCHANGED <<sunk, channels, batch, buffer>> /\ faults' \in {faults, faults + 1}
        /\ \/ log' = Append(log, workers[w].event) /\ lost' = lost
           \/ lost' = lost \union {workers[w].event} /\ log' = log
    BY <1>6 DEF Store!InsertAtOnce, Store!Refused
  <2>3. /\ Append(log, workers[w].event) \in Seq(Event)
        /\ ToSet(Append(log, workers[w].event)) = ToSet(log) \union {workers[w].event}
    BY <2>1, SetOfSeq DEF StoreInv, StoreTypes
  <2>4. StoreTypes'
    <3>1. workers' \in [Worker -> {Store!Free, Store!Gone} \union Task]
      BY <2>2 DEF StoreInv, StoreTypes
    <3>2. log' \in Seq(Event) /\ lost' \subseteq Event
      BY <2>1, <2>2, <2>3 DEF StoreInv, StoreTypes
    <3>3. faults' \in Nat
      BY <2>2 DEF StoreInv, StoreTypes
    <3>4. QED
      BY <2>2, <3>1, <3>2, <3>3 DEF StoreInv, StoreTypes
  <2>5. Settled' \subseteq Settled \union {workers[w].event}
    BY <2>2, <2>3 DEF Settled
  <2>6. QED
    BY <2>1, <2>2, <2>4, <2>5, DoneKeepsPlaces
<1>7. QED
  BY <1>1, <1>2, <1>3, <1>4, <1>5, <1>6 DEF Store!Work

LEMMA BatchKeepsPlaces ==
    ASSUME StoreInv, Store!Batch
    PROVE  StoreInv'
<1>1. UNCHANGED <<sunk, channels, workers>>
  BY DEF Store!Batch, Store!BatchTakes, Store!TimerFires, Store!Flush, Store!DrainBegins,
         Store!DrainTakes, Store!DrainFlushes, Store!unchangedByBatcher
<1>2. CASE Store!BatchTakes \/ Store!DrainTakes
  <2>1. /\ buffer # << >> /\ batch' = Append(batch, Head(buffer)) /\ buffer' = Tail(buffer)
        /\ UNCHANGED <<log, lost, faults>>
    BY <1>2 DEF Store!BatchTakes, Store!DrainTakes, Store!Joined
  <2>2. /\ Head(buffer) \in Event /\ buffer' \in Seq(Event)
        /\ ToSet(buffer) = {Head(buffer)} \union ToSet(buffer')
    BY <2>1, SetOfSeq DEF StoreInv, StoreTypes
  <2>3. batch' \in Seq(Event) /\ ToSet(batch') = ToSet(batch) \union {Head(buffer)}
    BY <2>1, <2>2, SetOfSeq DEF StoreInv, StoreTypes
  <2>4. StoreTypes' /\ Settled' \subseteq Settled
    BY <1>1, <2>1, <2>2, <2>3 DEF StoreInv, StoreTypes, Settled
  <2>5. QED
    BY <1>1, <2>4, NothingNew
<1>3. CASE Store!TimerFires \/ Store!DrainBegins
  <2>1. UNCHANGED <<buffer, batch, log, lost, faults>>
    BY <1>3 DEF Store!TimerFires, Store!DrainBegins
  <2>2. StoreTypes' /\ Settled' = Settled
    BY <1>1, <2>1 DEF StoreInv, StoreTypes, Settled
  <2>3. QED
    BY <1>1, <2>2, NothingNew
<1>4. CASE Store!Flush \/ Store!DrainFlushes
  <2>1. /\ batch' = << >> /\ buffer' = buffer /\ faults' \in {faults, faults + 1}
        /\ \/ log' = log \o batch /\ lost' = lost
           \/ lost' = lost \union ToSet(batch) /\ log' = log
    BY <1>4 DEF Store!Flush, Store!DrainFlushes, Store!Insert, Store!InsertFails,
                Store!Refused, ToSet
  <2>2. log \o batch \in Seq(Event) /\ ToSet(log \o batch) = ToSet(log) \union ToSet(batch)
    BY SetOfSeq DEF StoreInv, StoreTypes
  <2>3. ToSet(batch) \subseteq Event /\ ToSet(<< >>) = {}
    BY SetOfSeq DEF StoreInv, StoreTypes, ToSet, Store!ToSet
  <2>4. StoreTypes'
    <3>1. log' \in Seq(Event) /\ lost' \subseteq Event
      BY <2>1, <2>2, <2>3 DEF StoreInv, StoreTypes
    <3>2. faults' \in Nat
      BY <2>1 DEF StoreInv, StoreTypes
    <3>3. batch' \in Seq(Event)
      BY <2>1
    <3>4. QED
      BY <1>1, <2>1, <3>1, <3>2, <3>3 DEF StoreInv, StoreTypes
  <2>5. Settled' \subseteq Settled
    BY <2>1, <2>2, <2>3 DEF Settled
  <2>6. QED
    BY <1>1, <2>4, <2>5, NothingNew
<1>5. QED
  BY <1>2, <1>3, <1>4 DEF Store!Batch

LEMMA StoreKeepsPlaces == StoreInv /\ [Next]_vars => StoreInv'
<1> SUFFICES ASSUME StoreInv, [Store!Next]_storeVars PROVE StoreInv'
  BY PartSteps
<1>1. CASE Store!Shutdown \/ UNCHANGED storeVars
  <2>1. UNCHANGED <<sunk, channels, workers, buffer, batch, log, lost, faults>>
    BY <1>1 DEF Store!Shutdown, Store!storeVars, storeVars
  <2>2. StoreTypes' /\ Settled' = Settled
    BY <2>1 DEF StoreInv, StoreTypes, Settled
  <2>3. QED
    BY <2>1, <2>2, NothingNew
<1>2. QED
  BY <1>1, SinkKeepsPlaces, WorkKeepsPlaces, BatchKeepsPlaces DEF Store!Next

-----------------------------------------------------------------------------
(* Each step of the store is a step of the log it promises, or none.        *)
Queue == batch \o buffer
Excused == faults > 0 \/ overflowed \/ phase # "up"

(* The steps of EventLog, written out for the values the store gives it     *)
LEMMA LogSteps ==
    ASSUME StoreInv
    PROVE  /\ \A e \in Event \ Settled : Store!Log!New(e)
           /\ UNCHANGED <<Queue, log, lost, Excused>> => [Store!Log!Next]_(Store!Log!vars)
           /\ \A e \in Event :
                 /\ Store!Log!New(e)
                 /\ \/ Queue' = Append(Queue, e) /\ UNCHANGED <<log, lost, Excused>>
                    \/ log' = Append(log, e) /\ UNCHANGED <<Queue, lost, Excused>>
                    \/ lost' = lost \union {e} /\ UNCHANGED <<Queue, log>> /\ Excused'
                 => Store!Log!Next
           /\ Excused' = TRUE /\ UNCHANGED <<Queue, log, lost>> => Store!Log!Next
<1>1. ASSUME NEW e \in Event \ Settled PROVE Store!Log!New(e)
  <2>1. e \notin ToSet(batch) \union ToSet(buffer) /\ e \notin ToSet(log) /\ e \notin lost
    BY DEF Settled
  <2>2. Queue \in Seq(Event) /\ log \in Seq(Event) /\ e \notin ToSet(Queue)
    BY <2>1, SetOfSeq DEF StoreInv, StoreTypes, Queue
  <2>3. ~Store!Log!Contains(Queue, e) /\ ~Store!Log!Contains(log, e)
    BY <2>1, <2>2, SetOfSeq DEF Store!Log!Contains
  <2>4. QED
    BY <2>1, <2>3 DEF Store!Log!New, Queue
<1>2. QED
  BY <1>1 DEF Store!Log!Next, Store!Log!vars, Store!Log!Accept, Store!Log!StoreAtOnce,
              Store!Log!LoseAtOnce, Store!Log!Excuse, Queue, Excused

LEMMA WorkIsLogged ==
    ASSUME StoreInv, NEW w \in Worker, Store!Work(w)
    PROVE  [Store!Log!Next]_(Store!Log!vars)
<1> USE DEF Store!unchangedByAppend
<1>1. ASSUME Store!At(w, "append") \/ Store!At(w, "insert")
      PROVE  workers[w].event \in Event /\ Store!Log!New(workers[w].event)
  BY <1>1, Holders, LogSteps DEF StoreInv, OnePlace
<1>2. CASE Store!WorkerTakes(w) \/ Store!WorkerStops(w) \/ Store!AppendFindsFull(w)
  <2>1. UNCHANGED <<Queue, log, lost, Excused>>
    BY <1>2 DEF Store!WorkerTakes, Store!WorkerStops, Store!AppendFindsFull, Store!storeVars,
                Queue, Excused
  <2>2. QED
    BY <2>1, LogSteps
<1>3. CASE Store!AppendBuffers(w)
  <2> DEFINE e == workers[w].event
  <2>1. e \in Event /\ Store!Log!New(e)
    BY <1>1, <1>3 DEF Store!AppendBuffers
  <2>2. buffer' = Append(buffer, e) /\ UNCHANGED <<batch, log, lost, faults, overflowed, phase>>
    BY <1>3 DEF Store!AppendBuffers
  <2>3. batch \in Seq(Event) /\ buffer \in Seq(Event)
    BY DEF StoreInv, StoreTypes
  <2> HIDE DEF e
  <2>4. Queue' = Append(Queue, e) /\ UNCHANGED <<log, lost, Excused>>
    BY <2>1, <2>2, <2>3, QueueMoves DEF Queue, Excused
  <2>5. QED
    BY <2>1, <2>4, LogSteps
<1>4. CASE Store!AppendGivesUp(w)
  <2> DEFINE e == workers[w].event
  <2>1. e \in Event /\ Store!Log!New(e)
    BY <1>1, <1>4 DEF Store!AppendGivesUp
  <2>2. lost' = lost \union {e} /\ UNCHANGED <<Queue, log>> /\ Excused'
    BY <1>4 DEF Store!AppendGivesUp, Queue, Excused
  <2>3. QED
    BY <2>1, <2>2, LogSteps
<1>5. CASE Store!InsertAtOnce(w)
  <2> DEFINE e == workers[w].event
  <2>1. e \in Event /\ Store!Log!New(e)
    BY <1>1, <1>5 DEF Store!InsertAtOnce
  <2>2. UNCHANGED <<Queue, phase, overflowed>>
    BY <1>5 DEF Store!InsertAtOnce, Queue
  <2>3. CASE log' = Append(log, e) /\ UNCHANGED <<lost, faults>>
    BY <2>1, <2>2, <2>3, LogSteps DEF Excused
  <2>4. CASE lost' = lost \union {e} /\ UNCHANGED log /\ (Store!Refused \/ phase # "up")
    <3>1. Excused'
      BY <2>2, <2>4 DEF Excused, Store!Refused, StoreInv, StoreTypes
    <3>2. QED
      BY <2>1, <2>2, <2>4, <3>1, LogSteps
  <2>5. QED
    BY <1>5, <2>3, <2>4 DEF Store!InsertAtOnce
<1>6. QED
  BY <1>2, <1>3, <1>4, <1>5 DEF Store!Work

(* The insertion of a batch, done or refused, takes the front of the queue. *)
LEMMA FlushIsLogged ==
    ASSUME StoreInv, batch' = << >>, UNCHANGED <<buffer, phase, overflowed>>,
           \/ Store!Insert
           \/ Store!InsertFails /\ (Store!Refused \/ (phase = "closing" /\ UNCHANGED faults))
    PROVE  [Store!Log!Next]_(Store!Log!vars)
<1>1. batch \in Seq(Event) /\ buffer \in Seq(Event) /\ log \in Seq(Event) /\ faults \in Nat
  BY DEF StoreInv, StoreTypes
<1>2. Queue' = buffer
  BY <1>1, ConcatEmptySeq DEF Queue
<1>3. /\ SubSeq(Queue, 1, Len(batch)) = batch
      /\ SubSeq(Queue, Len(batch) + 1, Len(Queue)) = buffer
  BY <1>1, QueueMoves DEF Queue
<1>4. CASE batch = << >>
  <2>1. Queue' = Queue
    BY <1>1, <1>2, <1>4, ConcatEmptySeq DEF Queue
  <2>2. log' = log /\ lost' = lost
    <3>1. log \o batch = log /\ lost \union ToSet(batch) = lost
      BY <1>1, <1>4, ConcatEmptySeq DEF ToSet, Store!ToSet
    <3>2. QED
      BY <3>1 DEF Store!Insert, Store!InsertFails, ToSet
  <2>3. UNCHANGED Excused \/ Excused' = TRUE
    BY <1>1 DEF Excused, Store!Insert, Store!Refused
  <2>4. QED
    BY <2>1, <2>2, <2>3, LogSteps
<1>5. CASE batch # << >>
  <2>1. Len(batch) \in 1..Len(Queue)
    BY <1>1, <1>5 DEF Queue
  <2>2. CASE Store!Insert
    <3>1. UNCHANGED Excused
      BY <2>2 DEF Store!Insert, Excused
    <3>2. Store!Log!StoreFirst(Len(batch))
      BY <1>2, <1>3, <2>2, <3>1 DEF Store!Insert, Store!Log!StoreFirst, Queue, Excused
    <3>3. QED
      BY <2>1, <3>2 DEF Store!Log!Next, Queue
  <2>3. CASE Store!InsertFails /\ (Store!Refused \/ (phase = "closing" /\ UNCHANGED faults))
    <3>1. Excused'
      BY <1>1, <2>3 DEF Store!Refused, Excused
    <3>2. Store!Log!LoseFirst(Len(batch))
      BY <1>2, <1>3, <2>3
         DEF Store!InsertFails, Store!Log!LoseFirst, Store!Log!ToSet, Store!ToSet, Queue
    <3>3. QED
      BY <2>1, <3>1, <3>2 DEF Store!Log!Next, Queue, Excused
  <2>4. QED
    BY <2>2, <2>3
<1>6. QED
  BY <1>4, <1>5

LEMMA BatchIsLogged ==
    ASSUME StoreInv, Store!Batch
    PROVE  [Store!Log!Next]_(Store!Log!vars)
<1> USE DEF Store!unchangedByBatcher
<1>1. CASE Store!BatchTakes \/ Store!DrainTakes
  <2>1. /\ buffer # << >> /\ batch' = Append(batch, Head(buffer)) /\ buffer' = Tail(buffer)
        /\ UNCHANGED <<log, lost, faults, phase, overflowed>>
    BY <1>1 DEF Store!BatchTakes, Store!DrainTakes, Store!Joined
  <2>2. batch \in Seq(Event) /\ buffer \in Seq(Event)
    BY DEF StoreInv, StoreTypes
  <2>3. UNCHANGED <<Queue, log, lost, Excused>>
    BY <2>1, <2>2, QueueMoves DEF Queue, Excused
  <2>4. QED
    BY <2>3, LogSteps
<1>2. CASE Store!TimerFires \/ Store!DrainBegins
  <2>1. UNCHANGED <<Queue, log, lost, Excused>>
    BY <1>2 DEF Store!TimerFires, Store!DrainBegins, Queue, Excused
  <2>2. QED
    BY <2>1, LogSteps
<1>3. CASE Store!Flush \/ Store!DrainFlushes
  BY <1>3, FlushIsLogged DEF Store!Flush, Store!DrainFlushes
<1>4. QED
  BY <1>1, <1>2, <1>3 DEF Store!Batch

(* The store implements the log: an event is stored at most once, what went *)
(* through the buffer keeps its order, and nothing is lost but by a refused *)
(* insertion, a full channel or the shutdown.                               *)
THEOREM StoreImplementsLog == Spec => LogSpec
<1>1. Init => Store!Log!Init
  <2> SUFFICES ASSUME Init PROVE Store!Log!Init
    OBVIOUS
  <2>1. batch = << >> /\ buffer = << >> /\ batch \o buffer = << >>
    BY ConcatEmptySeq, EmptySeq DEF Init, Store!Init
  <2>2. QED
    BY <2>1 DEF Init, Store!Init, Store!Log!Init
<1>2. StoreInv /\ [Next]_vars => [Store!Log!Next]_(Store!Log!vars)
  <2> SUFFICES ASSUME StoreInv, [Store!Next]_storeVars PROVE [Store!Log!Next]_(Store!Log!vars)
    BY PartSteps
  <2>1. ASSUME NEW e \in Event, Store!Sink(e) PROVE [Store!Log!Next]_(Store!Log!vars)
    <3>1. UNCHANGED <<Queue, log, faults, phase>>
      BY <2>1 DEF Store!Sink, Store!storeVars, Queue
    <3>2. CASE UNCHANGED <<lost, overflowed>>
      BY <3>1, <3>2, LogSteps DEF Excused
    <3>3. CASE lost' = lost \union {e} /\ overflowed' = TRUE
      <4>1. Excused'
        BY <3>3 DEF Excused
      <4>2. e \notin sunk
        BY <2>1 DEF Store!Sink
      <4>3. Store!Log!New(e)
        BY <4>2, LogSteps DEF StoreInv, OnePlace
      <4>4. QED
        BY <3>1, <3>3, <4>1, <4>3, LogSteps
    <3>4. QED
      BY <2>1, <3>2, <3>3 DEF Store!Sink
  <2>2. CASE Store!Shutdown
    <3>1. Excused' = TRUE /\ UNCHANGED <<Queue, log, lost>>
      BY <2>2 DEF Store!Shutdown, Store!storeVars, Queue, Excused
    <3>2. QED
      BY <3>1, LogSteps
  <2>3. CASE UNCHANGED storeVars
    <3>1. UNCHANGED <<Queue, log, lost, Excused>>
      BY <2>3 DEF storeVars, Queue, Excused
    <3>2. QED
      BY <3>1, LogSteps
  <2>4. QED
    BY <2>1, <2>2, <2>3, WorkIsLogged, BatchIsLogged DEF Store!Next
<1>3. QED
  BY <1>1, <1>2, StoreInit, StoreKeepsPlaces, PTL DEF Spec, LogSpec, Store!LogSpec, Store!Log!Spec

-----------------------------------------------------------------------------
(* The ends of attempts among the events looked at                          *)
InFlight(events, n) ==
    \E m \in 1..(n - 1) :
        /\ Store!Type(events[m]) = "TASK_START" /\ TaskOf[events[m]] = TaskOf[events[n]]
        /\ \A i \in (m + 1)..(n - 1) :
              ~(Store!Type(events[i]) = "TASK_END" /\ TaskOf[events[i]] = TaskOf[events[n]])

Attempted(events) ==
    {n \in 1..Len(events) : Store!Type(events[n]) = "TASK_END" /\ InFlight(events, n)}

LEMMA AttemptsCount ==
    ASSUME NEW s \in Seq(Event)
    PROVE  /\ Store!Attempts(s) = Cardinality(Attempted(s))
           /\ IsFiniteSet(Attempted(s)) /\ Cardinality(Attempted(s)) \in Nat
<1>1. Store!Attempts(s) = Cardinality(Attempted(s))
  <2>1. \A S : Store!Cardinality(S) = Cardinality(S)
    BY DEF Store!Cardinality, Cardinality
  <2>2. DOMAIN s = 1..Len(s)
    OBVIOUS
  <2>3. Store!Attempts(s) = Store!Cardinality(Attempted(s))
    BY <2>2 DEF Store!Attempts, Attempted, InFlight
  <2>4. QED
    BY <2>1, <2>3
<1>2. IsFiniteSet(1..Len(s)) /\ Attempted(s) \in SUBSET (1..Len(s))
  BY FS_Interval DEF Attempted
<1>3. IsFiniteSet(Attempted(s))
  BY <1>2, FS_Subset
<1>4. QED
  BY <1>1, <1>3, FS_CardinalityType

(* An attempt within one half of the events is one of the whole.            *)
LEMMA HalvesCount ==
    ASSUME NEW s \in Seq(Event), NEW k \in 0..Len(s)
    PROVE  Store!Attempts(SubSeq(s, 1, k)) + Store!Attempts(SubSeq(s, k + 1, Len(s)))
             <= Store!Attempts(s)
<1> DEFINE a == SubSeq(s, 1, k)
           b == SubSeq(s, k + 1, Len(s))
           Later == {n \in Attempted(s) : n > k}
           f == [n \in Attempted(b) |-> n + k]
<1>1. a \in Seq(Event) /\ Len(a) = k /\ \A n \in 1..k : a[n] = s[n]
  OBVIOUS
<1>2. b \in Seq(Event) /\ Len(b) = Len(s) - k /\ \A n \in 1..(Len(s) - k) : b[n] = s[n + k]
  OBVIOUS
<1>3. Len(s) \in Nat /\ k \in Nat /\ k <= Len(s)
  OBVIOUS
<1> HIDE DEF a, b
<1>4. Attempted(a) \subseteq Attempted(s) \ Later
  <2> SUFFICES ASSUME NEW n \in Attempted(a) PROVE n \in Attempted(s) /\ n <= k
    BY <1>1 DEF Attempted
  <2>1. n \in 1..k /\ n \in 1..Len(s) /\ Store!Type(a[n]) = "TASK_END" /\ InFlight(a, n)
    BY <1>1, <1>3 DEF Attempted
  <2>2. \A i \in 1..n : a[i] = s[i]
    BY <1>1, <2>1
  <2>3. \A m \in 1..(n - 1) : m \in 1..n /\ \A i \in (m + 1)..(n - 1) : i \in 1..n
    BY <2>1
  <2>4. n \in 1..n
    BY <2>1
  <2>5. InFlight(s, n)
    BY <2>1, <2>2, <2>3, <2>4 DEF InFlight
  <2>6. QED
    BY <2>1, <2>2, <2>4, <2>5 DEF Attempted
<1>5. \A n \in Attempted(b) : n + k \in Later /\ n \in Nat
  <2> SUFFICES ASSUME NEW n \in Attempted(b) PROVE n + k \in Later /\ n \in Nat
    OBVIOUS
  <2>1. n \in 1..(Len(s) - k) /\ n + k \in 1..Len(s) /\ Store!Type(b[n]) = "TASK_END" /\ InFlight(b, n)
    BY <1>2, <1>3 DEF Attempted
  <2>2. PICK m \in 1..(n - 1) :
          /\ Store!Type(b[m]) = "TASK_START" /\ TaskOf[b[m]] = TaskOf[b[n]]
          /\ \A i \in (m + 1)..(n - 1) :
                ~(Store!Type(b[i]) = "TASK_END" /\ TaskOf[b[i]] = TaskOf[b[n]])
    BY <2>1 DEF InFlight
  <2>3. b[n] = s[n + k] /\ b[m] = s[m + k] /\ m + k \in 1..((n + k) - 1)
    <3>1. m \in 1..(Len(s) - k) /\ m + k \in 1..((n + k) - 1)
      BY <1>3, <2>1
    <3>2. QED
      BY <1>2, <2>1, <3>1
  <2>4. ASSUME NEW i \in (m + k + 1)..((n + k) - 1)
        PROVE  ~(Store!Type(s[i]) = "TASK_END" /\ TaskOf[s[i]] = TaskOf[s[n + k]])
    <3>1. i - k \in (m + 1)..(n - 1) /\ i - k \in 1..(Len(s) - k) /\ (i - k) + k = i
      BY <1>3, <2>1
    <3>2. b[i - k] = s[i]
      BY <1>2, <3>1
    <3>3. QED
      BY <2>2, <2>3, <3>1, <3>2
  <2>5. InFlight(s, n + k)
    <3> DEFINE j == m + k
    <3>1. j \in 1..((n + k) - 1) /\ (m + k + 1) = j + 1
      BY <1>3, <2>1, <2>3
    <3>2. Store!Type(s[j]) = "TASK_START" /\ TaskOf[s[j]] = TaskOf[s[n + k]]
      BY <2>2, <2>3
    <3>3. \A i \in (j + 1)..((n + k) - 1) :
             ~(Store!Type(s[i]) = "TASK_END" /\ TaskOf[s[i]] = TaskOf[s[n + k]])
      BY <2>4, <3>1
    <3> HIDE DEF j
    <3>4. QED
      BY <3>1, <3>2, <3>3 DEF InFlight
  <2>6. n + k > k
    BY <1>3, <2>1
  <2>7. QED
    BY <2>1, <2>3, <2>5, <2>6 DEF Attempted
<1>6. /\ IsFiniteSet(Later) /\ Cardinality(Later) \in Nat
      /\ IsFiniteSet(Attempted(s) \ Later)
      /\ Cardinality(Attempted(s) \ Later) = Cardinality(Attempted(s)) - Cardinality(Later)
  <2>1. IsFiniteSet(Attempted(s)) /\ Later \in SUBSET Attempted(s)
    BY AttemptsCount
  <2>2. IsFiniteSet(Later)
    BY <2>1, FS_Subset
  <2>3. Attempted(s) \intersect Later = Later
    OBVIOUS
  <2>4. QED
    BY <2>1, <2>2, <2>3, FS_Difference, FS_CardinalityType
<1>7. Cardinality(Attempted(b)) <= Cardinality(Later)
  <2>1. f \in Injection(Attempted(b), Later)
    BY <1>3, <1>5 DEF Injection, IsInjective
  <2>2. QED
    BY <1>6, <2>1, FS_Injection
<1>8. Cardinality(Attempted(a)) <= Cardinality(Attempted(s) \ Later)
  BY <1>4, <1>6, FS_Subset
<1> HIDE DEF Later
<1>9. /\ Store!Attempts(a) = Cardinality(Attempted(a)) /\ Cardinality(Attempted(a)) \in Nat
      /\ Store!Attempts(b) = Cardinality(Attempted(b)) /\ Cardinality(Attempted(b)) \in Nat
      /\ Store!Attempts(s) = Cardinality(Attempted(s)) /\ Cardinality(Attempted(s)) \in Nat
  BY <1>1, <1>2, AttemptsCount
<1>10. Store!Attempts(a) + Store!Attempts(b) <= Store!Attempts(s)
  BY <1>6, <1>7, <1>8, <1>9
<1>11. QED
  BY <1>10 DEF a, b

(* Wherever in the log a snapshot of the statistics was taken, what is      *)
(* projected from it never exceeds what the whole log shows.                *)
THEOREM AttemptsNeverOvercounted == Spec => []StatsNeverOvercount
<1>1. ASSUME StoreInv PROVE StatsNeverOvercount
  <2>1. log \in Seq(Event)
    BY <1>1 DEF StoreInv, StoreTypes
  <2>2. QED
    BY <2>1, HalvesCount DEF StatsNeverOvercount, Store!StatsNeverOvercount, Store!Projected, Store!LastID
<1>2. QED
  BY <1>1, StoreInit, StoreKeepsPlaces, PTL DEF Spec

-----------------------------------------------------------------------------
(* The buffer and the batch keep within their limits: an event is joined to *)
(* the batch only while there is room in it, which a flush has to restore   *)
(* before the next select.                                                  *)
StoreSizes ==
    /\ Len(buffer) <= BufferCap /\ Len(batch) <= BatchSize
    /\ batcher = "select" => Len(batch) < BatchSize
    /\ batcher \in {"select", "flush", "drain", "done"}
    /\ phase \in {"up", "stopping", "closing", "closed"}
    /\ faults \in 0..MaxFaults /\ overflowed \in BOOLEAN

LEMMA StoreSizesKept == StoreInv /\ StoreSizes /\ [Next]_vars => StoreSizes'
<1> SUFFICES ASSUME StoreInv, StoreSizes, [Store!Next]_storeVars PROVE StoreSizes'
  BY PartSteps
<1>1. BufferCap \in Nat /\ BatchSize \in Nat /\ BatchSize >= 1 /\ MaxFaults \in Nat
  BY LimitsAssumption, BoundAssumption
<1>2. /\ buffer \in Seq(Event) /\ batch \in Seq(Event) /\ Len(buffer) \in Nat /\ Len(batch) \in Nat
      /\ workers \in [Worker -> {Store!Free, Store!Gone} \union Task]
  BY DEF StoreInv, StoreTypes
<1>3. Len(<< >>) = 0
  OBVIOUS
<1>4. Store!Refused => faults' \in 0..MaxFaults
  BY <1>1 DEF Store!Refused, StoreSizes
<1>5. CASE UNCHANGED storeVars \/ Store!Shutdown \/ \E e \in Event : Store!Sink(e)
  <2>1. UNCHANGED <<buffer, batch, batcher, faults>>
    BY <1>5 DEF storeVars, Store!Shutdown, Store!storeVars, Store!Sink
  <2>2. overflowed' \in BOOLEAN
    BY <1>5 DEF storeVars, Store!Shutdown, Store!Sink, StoreSizes
  <2>3. phase' \in {"up", "stopping", "closing", "closed"}
    BY <1>5 DEF storeVars, Store!Shutdown, Store!Sink, StoreSizes
  <2>4. QED
    BY <2>1, <2>2, <2>3 DEF StoreSizes
<1>6. ASSUME NEW w \in Worker, Store!Work(w) PROVE StoreSizes'
  <2> USE DEF Store!Work, Store!WorkerTakes, Store!WorkerStops, Store!AppendBuffers,
              Store!AppendGivesUp, Store!AppendFindsFull, Store!InsertAtOnce
  <2>1. UNCHANGED <<batch, batcher, phase, overflowed>>
    BY <1>6 DEF Store!storeVars, Store!unchangedByAppend
  <2>2. faults' \in 0..MaxFaults
    BY <1>4, <1>6 DEF StoreSizes
  <2>3. \/ buffer' = buffer
        \/ Store!AppendBuffers(w)
    BY <1>6 DEF Store!storeVars, Store!unchangedByAppend
  <2>4. CASE Store!AppendBuffers(w)
    <3>1. workers[w].event \in Event
      BY <2>4, Holders DEF StoreInv
    <3>2. Len(buffer) < BufferCap /\ buffer' = Append(buffer, workers[w].event)
      BY <2>4
    <3>3. Len(buffer') <= BufferCap
      BY <1>1, <1>2, <3>1, <3>2
    <3>4. QED
      BY <2>1, <2>2, <3>3 DEF StoreSizes
  <2>5. QED
    BY <2>1, <2>2, <2>3, <2>4 DEF StoreSizes
<1>7. CASE Store!Batch
  <2>1. phase' = phase /\ overflowed' = overflowed
    BY <1>7 DEF Store!Batch, Store!BatchTakes, Store!TimerFires, Store!Flush, Store!DrainBegins,
                Store!DrainTakes, Store!DrainFlushes, Store!unchangedByBatcher
  <2>2. CASE Store!BatchTakes \/ Store!DrainTakes
    <3>1. /\ buffer # << >> /\ batch' = Append(batch, Head(buffer)) /\ buffer' = Tail(buffer)
          /\ Len(batch) < BatchSize /\ faults' = faults
      BY <2>2 DEF Store!BatchTakes, Store!DrainTakes, Store!Joined, StoreSizes
    <3>2. batcher' \in {"select", "flush", "drain"} /\ (batcher' = "select" => Len(batch') < BatchSize)
      <4>1. Len(batch') \in Nat
        BY <1>2, <3>1
      <4>2. CASE Store!BatchTakes
        BY <1>1, <4>1, <4>2 DEF Store!BatchTakes
      <4>3. CASE Store!DrainTakes
        BY <4>3 DEF Store!DrainTakes
      <4>4. QED
        BY <2>2, <4>2, <4>3
    <3>3. Len(buffer') <= BufferCap /\ Len(batch') <= BatchSize
      BY <1>1, <1>2, <3>1 DEF StoreSizes
    <3>4. QED
      BY <2>1, <3>1, <3>2, <3>3 DEF StoreSizes
  <2>3. CASE Store!TimerFires \/ Store!DrainBegins
    BY <2>1, <2>3 DEF Store!TimerFires, Store!FlushIsDue, Store!DrainBegins, StoreSizes
  <2>4. CASE Store!Flush \/ Store!DrainFlushes
    <3>1. buffer' = buffer /\ batch' = << >>
      BY <2>4 DEF Store!Flush, Store!DrainFlushes
    <3>2. batcher' \in {"select", "drain", "done"}
      BY <2>4 DEF Store!Flush, Store!DrainFlushes
    <3>3. faults' \in 0..MaxFaults
      BY <1>4, <2>4 DEF Store!Flush, Store!DrainFlushes, Store!Insert, StoreSizes
    <3>4. QED
      BY <1>1, <1>3, <2>1, <3>1, <3>2, <3>3 DEF StoreSizes
  <2>5. QED
    BY <1>7, <2>2, <2>3, <2>4 DEF Store!Batch
<1>8. QED
  BY <1>5, <1>6, <1>7 DEF Store!Next

(* The types of all parts, the limits of their queues, lists and counters   *)
(* among them.                                                              *)
THEOREM PartsTypes == Spec => []TypeOK
<1>1. Init => StoreSizes
  <2> SUFFICES ASSUME Init PROVE StoreSizes
    OBVIOUS
  <2>1. BufferCap \in Nat /\ BatchSize \in Nat /\ BatchSize >= 1 /\ MaxFaults \in Nat
    BY LimitsAssumption, BoundAssumption
  <2>2. overflowed = FALSE /\ buffer = << >> /\ batch = << >> /\ batcher = "select" /\ phase = "up"
        /\ faults = 0 /\ Len(<< >>) = 0
    BY DEF Init, Store!Init
  <2>3. Len(buffer) <= BufferCap /\ Len(batch) < BatchSize /\ Len(batch) <= BatchSize
    BY <2>1, <2>2
  <2>4. faults \in 0..MaxFaults
    BY <2>1, <2>2
  <2>5. overflowed \in BOOLEAN
    BY <2>2
  <2>6. QED
    BY <2>2, <2>3, <2>4, <2>5 DEF StoreSizes
<1>2. StoreInv /\ StoreSizes => Store!TypeOK
  <2> SUFFICES ASSUME StoreInv, StoreSizes PROVE Store!TypeOK
    OBVIOUS
  <2>1. /\ sunk \subseteq Event /\ lost \subseteq Event
        /\ channels \in [{"critical", "plain"} -> Seq(Event)]
        /\ buffer \in Seq(Event) /\ batch \in Seq(Event) /\ log \in Seq(Event)
    BY DEF StoreInv, StoreTypes, Chan
  <2>2. \A w \in Worker : workers[w] \in {Store!Free, Store!Gone} \union [at : {"append", "insert"}, event : Event]
    BY DEF StoreInv, StoreTypes, Task
  <2>3. QED
    BY <2>1, <2>2 DEF StoreSizes, Store!TypeOK
<1>3. StateInv => State!TypeOK
  <2> SUFFICES ASSUME StateInv PROVE State!TypeOK
    OBVIOUS
  <2>1. panics \in 0..MaxTicks
    BY BoundAssumption DEF StateInv, StateTypes
  <2>2. \A h \in {"tick", "end"} : handler[h] = State!Resting \/ handler[h].state \in State!State
    BY DEF StateInv, StateTypes, Handling
  <2>3. QED
    BY <2>1, <2>2 DEF StateInv, StateTypes, State!TypeOK
<1>4. LedgerInv => Ledger!TypeOK
  BY DEF LedgerInv
<1>5. DangerInv => Danger!TypeOK
  BY DEF DangerInv
<1>6. Spec => [](Ledger!TypeOK /\ State!TypeOK)
  <2>1. StateInv /\ [Next]_vars => StateInv'
    BY PartSteps, StateInductive
  <2>2. QED
    BY <1>3, <1>4, <2>1, LedgerInductive, StateStarts, PTL DEF Spec
<1>7. Spec => []Store!TypeOK
  BY <1>1, <1>2, StoreInit, StoreKeepsPlaces, StoreSizesKept, PTL DEF Spec
<1>8. Ledger!TypeOK /\ State!TypeOK /\ Store!TypeOK /\ Hub!TypeOK /\ Breaker!TypeOK /\ Runner!TypeOK
         /\ Config!TypeOK /\ Danger!TypeOK => TypeOK
  BY DEF TypeOK
<1>9. QED
  BY <1>5, <1>6, <1>7, <1>8, HubTypes, BreakerTypes, RunnerTypes, ConfigTypes, DangerKept, PTL

=============================================================================
