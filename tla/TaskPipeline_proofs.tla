--------------------------- MODULE TaskPipeline_proofs ---------------------------
(***************************************************************************)
(* The pipeline as a whole, for any actions of every kind, any priorities  *)
(* and retreats, any budget of outside events and any bounds on goroutines,*)
(* messages and copies: what may be on its way, what a retry is covered    *)
(* by, and what the record of dispatched IDs is good for.                  *)
(***************************************************************************)
EXTENDS TaskPipeline, TLAPS, FiniteSetTheorems

-----------------------------------------------------------------------------
(* How often an action is in a sequence of actions                          *)
Places(q, id) == {n \in DOMAIN q : q[n] = id}
Count(q, id) == Cardinality(Places(q, id))

LEMMA CountType ==
    ASSUME NEW S, NEW q \in Seq(S), NEW id
    PROVE  IsFiniteSet(Places(q, id)) /\ Count(q, id) \in Nat
<1>1. DOMAIN q = 1..Len(q) /\ Len(q) \in Nat
  OBVIOUS
<1>2. IsFiniteSet(1..Len(q))
  BY <1>1, FS_Interval
<1>3. Places(q, id) \in SUBSET (1..Len(q))
  BY <1>1 DEF Places
<1>4. QED
  BY <1>2, <1>3, FS_Subset, FS_CardinalityType DEF Count

LEMMA CountAppend ==
    ASSUME NEW S, NEW q \in Seq(S), NEW d \in S, NEW id
    PROVE  Count(Append(q, d), id) = Count(q, id) + (IF d = id THEN 1 ELSE 0)
<1> DEFINE t == Append(q, d)
<1>1. /\ DOMAIN t = DOMAIN q \union {Len(q) + 1} /\ Len(q) + 1 \notin DOMAIN q
      /\ t[Len(q) + 1] = d /\ \A n \in DOMAIN q : t[n] = q[n]
  <2>1. DOMAIN q = 1..Len(q) /\ Len(q) \in Nat /\ DOMAIN t = 1..(Len(q) + 1)
    OBVIOUS
  <2>2. t[Len(q) + 1] = d /\ \A n \in 1..Len(q) : t[n] = q[n]
    OBVIOUS
  <2>3. QED
    BY <2>1, <2>2
<1> HIDE DEF t
<1>2. Places(t, id) = IF d = id THEN Places(q, id) \union {Len(q) + 1} ELSE Places(q, id)
  BY <1>1 DEF Places
<1>3. Len(q) + 1 \notin Places(q, id)
  BY <1>1 DEF Places
<1>4. IsFiniteSet(Places(q, id)) /\ Count(q, id) \in Nat
  BY CountType
<1>5. CASE d = id
  <2>1. Cardinality(Places(q, id) \union {Len(q) + 1}) = Cardinality(Places(q, id)) + 1
    BY <1>3, <1>4, FS_AddElement
  <2>2. QED
    BY <1>2, <1>5, <2>1 DEF Count, t
<1>6. CASE d # id
  BY <1>2, <1>4, <1>6 DEF Count, t
<1>7. QED
  BY <1>5, <1>6

LEMMA CountTail ==
    ASSUME NEW S, NEW q \in Seq(S), q # << >>, NEW id
    PROVE  Count(q, id) = Count(Tail(q), id) + (IF Head(q) = id THEN 1 ELSE 0)
<1> DEFINE t == Tail(q)
           shift == [n \in Places(t, id) |-> n + 1]
<1>1. /\ Len(q) \in Nat \ {0} /\ DOMAIN q = 1..Len(q) /\ DOMAIN t = 1..(Len(q) - 1)
      /\ \A n \in 1..(Len(q) - 1) : t[n] = q[n + 1]
      /\ Head(q) = q[1] /\ t \in Seq(S)
  OBVIOUS
<1> HIDE DEF t
<1>2. Places(t, id) \subseteq Nat
  BY <1>1 DEF Places
<1>3. Places(q, id) \ {1} = {n + 1 : n \in Places(t, id)}
  <2>1. ASSUME NEW n \in Places(t, id) PROVE n + 1 \in Places(q, id) /\ n + 1 # 1
    BY <1>1, <2>1 DEF Places
  <2>2. ASSUME NEW n \in Places(q, id), n # 1 PROVE n - 1 \in Places(t, id) /\ n = (n - 1) + 1
    BY <1>1, <2>2 DEF Places
  <2>3. QED
    BY <2>1, <2>2
<1>4. shift \in Bijection(Places(t, id), Places(q, id) \ {1})
  <2>1. shift \in [Places(t, id) -> Places(q, id) \ {1}]
    BY <1>3
  <2>2. \A m, n \in Places(t, id) : shift[m] = shift[n] => m = n
    BY <1>2
  <2>3. \A p \in Places(q, id) \ {1} : \E n \in Places(t, id) : shift[n] = p
    BY <1>3
  <2> HIDE DEF shift
  <2>4. QED
    BY <2>1, <2>2, <2>3 DEF Bijection, Injection, Surjection, IsInjective
<1> HIDE DEF shift
<1>5. IsFiniteSet(Places(t, id)) /\ IsFiniteSet(Places(q, id)) /\ Count(q, id) \in Nat
      /\ Count(t, id) \in Nat
  BY <1>1, CountType
<1>6. Cardinality(Places(q, id) \ {1}) = Count(t, id)
  <2>1. ExistsBijection(Places(t, id), Places(q, id) \ {1})
    BY <1>4 DEF ExistsBijection
  <2>2. QED
    BY <1>5, <2>1, FS_Bijection DEF Count
<1>7. 1 \in Places(q, id) <=> Head(q) = id
  BY <1>1 DEF Places
<1>8. Count(q, id) = Count(t, id) + (IF Head(q) = id THEN 1 ELSE 0)
  <2>1. CASE Head(q) = id
    <3>1. Cardinality(Places(q, id) \ {1}) = Cardinality(Places(q, id)) - 1
      BY <1>5, <1>7, <2>1, FS_RemoveElement
    <3>2. QED
      BY <1>5, <1>6, <2>1, <3>1 DEF Count
  <2>2. CASE Head(q) # id
    <3>1. Places(q, id) \ {1} = Places(q, id)
      BY <1>7, <2>2
    <3>2. Cardinality(Places(q, id)) = Count(t, id)
      BY <1>6, <3>1
    <3>3. QED
      BY <1>5, <2>2, <3>2 DEF Count
  <2>3. QED
    BY <2>1, <2>2
<1>9. QED
  BY <1>8 DEF t

-----------------------------------------------------------------------------
(* The task executor of the bot, as a function: what it holds stays among   *)
(* the actions A it had or is given, every start it reports is one it has   *)
(* made, and without a new dispatch only the preloaded task starts.         *)
EndEvents(A) == [id : A, cause : Causes]

Bots(A) == [current : A \union {NoTask}, preloaded : A \union {NoTask},
            starts : Seq(A), ends : Seq(EndEvents(A)), ran : [Id -> Nat]]

(* the starts that have been made and are not waiting to be handled         *)
Handled(b, id) == b.ran[id] - Count(b.starts, id)

Grows(A, b, c) == c \in Bots(A) /\ \A id \in Id : Handled(c, id) >= Handled(b, id)

Started(b, c, d) == c.ran = [b.ran EXCEPT ![d] = @ + 1]

StartsPreloaded(b, c) ==
    \/ c.ran = b.ran /\ c.preloaded \in {b.preloaded, NoTask}
    \/ b.preloaded # NoTask /\ c.preloaded = NoTask /\ Started(b, c, b.preloaded)

LEMMA GrowsOn ==
    ASSUME NEW A \in SUBSET Id, NEW b \in Bots(A), NEW c, NEW d,
           Grows(A, b, c), Grows(A, c, d)
    PROVE  Grows(A, b, d)
<1>1. ASSUME NEW e \in Bots(A), NEW id \in Id PROVE Handled(e, id) \in Int
  <2>1. e.ran[id] \in Nat /\ e.starts \in Seq(A)
    BY DEF Bots
  <2>2. Count(e.starts, id) \in Nat
    BY <2>1, CountType
  <2>3. QED
    BY <2>1, <2>2 DEF Handled
<1>2. c \in Bots(A) /\ d \in Bots(A)
  BY DEF Grows
<1>3. ASSUME NEW id \in Id PROVE Handled(d, id) >= Handled(b, id)
  <2>1. Handled(b, id) \in Int /\ Handled(c, id) \in Int /\ Handled(d, id) \in Int
    BY <1>1, <1>2
  <2>2. Handled(d, id) >= Handled(c, id) /\ Handled(c, id) >= Handled(b, id)
    BY DEF Grows
  <2>3. QED
    BY <2>1, <2>2
<1>4. QED
  BY <1>2, <1>3 DEF Grows

(* Fields other than ran and starts do not count.                           *)
LEMMA GrowsAnyway ==
    ASSUME NEW A \in SUBSET Id, NEW b \in Bots(A), NEW c \in Bots(A),
           c.ran = b.ran, c.starts = b.starts
    PROVE  Grows(A, b, c)
<1>1. ASSUME NEW id \in Id PROVE Handled(c, id) \in Int /\ Handled(c, id) = Handled(b, id)
  <2>1. c.ran[id] \in Nat /\ c.starts \in Seq(A)
    BY DEF Bots
  <2>2. Count(c.starts, id) \in Nat
    BY <2>1, CountType
  <2>3. QED
    BY <2>1, <2>2 DEF Handled
<1>2. QED
  BY <1>1 DEF Grows

LEMMA ReportGrows ==
    ASSUME NEW A \in SUBSET Id, NEW b \in Bots(A), NEW id \in A, NEW cause \in Causes
    PROVE  /\ Grows(A, b, Report(b, id, cause))
           /\ Report(b, id, cause).current = b.current
           /\ Report(b, id, cause).preloaded = b.preloaded
           /\ Report(b, id, cause).ran = b.ran
<1> DEFINE r == Report(b, id, cause)
<1>1. [id |-> id, cause |-> cause] \in EndEvents(A) /\ b.ends \in Seq(EndEvents(A))
  BY DEF EndEvents, Bots
<1>2. Append(b.ends, [id |-> id, cause |-> cause]) \in Seq(EndEvents(A))
  BY <1>1
<1>3. r \in Bots(A) /\ r.ran = b.ran /\ r.starts = b.starts /\ r.current = b.current
      /\ r.preloaded = b.preloaded
  <2>1. CASE ready
    <3>1. r = [b EXCEPT !.ends = Append(b.ends, [id |-> id, cause |-> cause])]
      BY <2>1 DEF Report
    <3> DEFINE ends2 == Append(b.ends, [id |-> id, cause |-> cause])
    <3>2. ends2 \in Seq(EndEvents(A)) /\ r = [b EXCEPT !.ends = ends2]
      BY <1>2, <3>1
    <3> HIDE DEF ends2, r
    <3>3. QED
      BY <3>2 DEF Bots
  <2>2. CASE ~ready
    BY <2>2 DEF Report
  <2>3. QED
    BY <2>1, <2>2
<1> HIDE DEF r
<1>4. Grows(A, b, r)
  BY <1>3, GrowsAnyway
<1>5. QED
  BY <1>3, <1>4 DEF r

LEMMA BeginGrows ==
    ASSUME NEW A \in SUBSET Id, NEW b \in Bots(A), NEW id \in A,
           NEW up \in BOOLEAN, NEW panic \in BOOLEAN
    PROVE  /\ Grows(A, b, Begin(b, id, up, panic))
           /\ Begin(b, id, up, panic).preloaded = b.preloaded
           /\ \/ Begin(b, id, up, panic).ran = b.ran
              \/ Started(b, Begin(b, id, up, panic), id)
<1>1. CASE ~up
  <2>1. Begin(b, id, up, panic) = b
    BY <1>1 DEF Begin
  <2>2. Grows(A, b, b)
    BY GrowsAnyway
  <2>3. QED
    BY <2>1, <2>2
<1>2. CASE up /\ panic /\ id \notin Retreat
  <2>1. Begin(b, id, up, panic) = Report(b, id, "panic")
    BY <1>2 DEF Begin
  <2>2. "panic" \in Causes
    BY DEF Causes
  <2>3. QED
    BY <2>1, <2>2, ReportGrows
<1>3. CASE up /\ ~(panic /\ id \notin Retreat)
  <2> DEFINE starts2 == IF ready THEN Append(b.starts, id) ELSE b.starts
             ran2 == [b.ran EXCEPT ![id] = @ + 1]
             c == Begin(b, id, up, panic)
  <2>1. b.starts \in Seq(A) /\ b.ran \in [Id -> Nat] /\ id \in Id
    BY DEF Bots
  <2>2. c = [b EXCEPT !.current = id, !.ran = ran2, !.starts = starts2]
    BY <1>3 DEF Begin
  <2>3. starts2 \in Seq(A) /\ ran2 \in [Id -> Nat]
    BY <2>1
  <2>4. \A d \in Id : /\ ran2[d] = b.ran[d] + (IF d = id THEN 1 ELSE 0)
                      /\ Count(starts2, d) <= Count(b.starts, d) + (IF d = id THEN 1 ELSE 0)
    <3> TAKE d \in Id
    <3>1. ran2[d] = b.ran[d] + (IF d = id THEN 1 ELSE 0)
      BY <2>1
    <3>2. Count(Append(b.starts, id), d) = Count(b.starts, d) + (IF id = d THEN 1 ELSE 0)
          /\ Count(b.starts, d) \in Nat
      BY <2>1, CountAppend, CountType
    <3>3. QED
      BY <3>1, <3>2
  <2> HIDE DEF starts2, ran2, c
  <2>5. c \in Bots(A) /\ c.starts = starts2 /\ c.ran = ran2 /\ c.preloaded = b.preloaded
    BY <2>2, <2>3 DEF Bots
  <2>6. ASSUME NEW d \in Id PROVE Handled(c, d) >= Handled(b, d)
    <3>1. Count(starts2, d) \in Nat /\ Count(b.starts, d) \in Nat /\ b.ran[d] \in Nat
      BY <2>1, <2>3, CountType
    <3>2. QED
      BY <2>4, <2>5, <3>1 DEF Handled
  <2>7. Grows(A, b, c) /\ c.preloaded = b.preloaded /\ Started(b, c, id)
    BY <2>5, <2>6 DEF Grows, Started, ran2
  <2>8. QED
    BY <2>7 DEF c
<1>4. QED
  BY <1>1, <1>2, <1>3

LEMMA CompleteTaskGrows ==
    ASSUME PipelineAssumption,
           NEW A \in SUBSET Id, NEW b \in Bots(A), NEW id \in A, NEW cause \in Causes,
           NEW up \in BOOLEAN, NEW panic \in BOOLEAN
    PROVE  /\ Grows(A, b, CompleteTask(b, id, cause, up, panic))
           /\ StartsPreloaded(b, CompleteTask(b, id, cause, up, panic))
<1> DEFINE a == [b EXCEPT !.current = IF @ = id THEN NoTask ELSE @]
           r == Report(a, id, cause)
           c == CompleteTask(b, id, cause, up, panic)
<1>1. a \in Bots(A) /\ a.ran = b.ran /\ a.starts = b.starts /\ a.preloaded = b.preloaded
  BY DEF Bots
<1>2. Grows(A, b, a)
  BY <1>1, GrowsAnyway
<1> HIDE DEF a
<1>3. Grows(A, a, r) /\ r.preloaded = b.preloaded /\ r.ran = b.ran /\ r \in Bots(A)
  BY <1>1, ReportGrows DEF Grows
<1>4. Grows(A, b, r)
  BY <1>2, <1>3, GrowsOn
<1>5. c = IF r.current = NoTask /\ r.preloaded # NoTask
          THEN Begin([r EXCEPT !.preloaded = NoTask], r.preloaded, up, panic)
          ELSE r
  BY DEF CompleteTask, a
<1> HIDE DEF r, c
<1>6. CASE ~(r.current = NoTask /\ r.preloaded # NoTask)
  <2>1. c = r
    BY <1>5, <1>6
  <2>2. StartsPreloaded(b, c)
    BY <1>3, <2>1 DEF StartsPreloaded
  <2>3. QED
    BY <1>4, <2>1, <2>2 DEF c
<1>7. CASE r.current = NoTask /\ r.preloaded # NoTask
  <2> DEFINE e == [r EXCEPT !.preloaded = NoTask]
  <2>1. e \in Bots(A) /\ e.ran = r.ran /\ e.starts = r.starts /\ e.preloaded = NoTask
    BY <1>3 DEF Bots
  <2>2. Grows(A, r, e)
    BY <1>3, <2>1, GrowsAnyway
  <2>3. r.preloaded \in A
    BY <1>3, <1>7 DEF Bots
  <2>4. c = Begin(e, r.preloaded, up, panic)
    BY <1>5, <1>7
  <2> HIDE DEF e
  <2>5. /\ Grows(A, e, c) /\ c.preloaded = NoTask
        /\ c.ran = e.ran \/ Started(e, c, r.preloaded)
    BY <2>1, <2>3, <2>4, BeginGrows
  <2>6. Grows(A, r, c)
    BY <1>3, <2>2, <2>5, GrowsOn
  <2>7. Grows(A, b, c)
    BY <1>4, <2>6, GrowsOn
  <2>8. StartsPreloaded(b, c)
    BY <1>3, <1>7, <2>1, <2>5 DEF StartsPreloaded, Started
  <2>9. QED
    BY <2>7, <2>8 DEF c
<1>8. QED
  BY <1>6, <1>7

LEMMA AbortGrows ==
    ASSUME PipelineAssumption,
           NEW A \in SUBSET Id, NEW b \in Bots(A), NEW reason \in Causes,
           NEW up \in BOOLEAN, NEW panic \in BOOLEAN
    PROVE  /\ Grows(A, b, AbortActiveTask(b, reason, up, panic))
           /\ StartsPreloaded(b, AbortActiveTask(b, reason, up, panic))
<1>1. CASE b.current = NoTask
  <2>1. AbortActiveTask(b, reason, up, panic) = b
    BY <1>1 DEF AbortActiveTask
  <2>2. Grows(A, b, b) /\ StartsPreloaded(b, b)
    BY GrowsAnyway DEF StartsPreloaded
  <2>3. QED
    BY <2>1, <2>2
<1>2. CASE b.current # NoTask
  <2> DEFINE r == CompleteTask(b, b.current, reason, up, panic)
             c == AbortActiveTask(b, reason, up, panic)
  <2>1. b.current \in A
    BY <1>2 DEF Bots
  <2>2. Grows(A, b, r) /\ StartsPreloaded(b, r) /\ r \in Bots(A)
    BY <2>1, CompleteTaskGrows DEF Grows
  <2>3. c = [r EXCEPT !.current = NoTask]
    BY <1>2 DEF AbortActiveTask
  <2> HIDE DEF r, c
  <2>4. c \in Bots(A) /\ c.ran = r.ran /\ c.starts = r.starts /\ c.preloaded = r.preloaded
    BY <2>2, <2>3 DEF Bots
  <2>5. Grows(A, r, c)
    BY <2>2, <2>4, GrowsAnyway
  <2>6. Grows(A, b, c)
    BY <2>2, <2>5, GrowsOn
  <2>7. StartsPreloaded(b, c)
    BY <2>2, <2>4 DEF StartsPreloaded, Started
  <2>8. QED
    BY <2>6, <2>7 DEF c
<1>3. QED
  BY <1>1, <1>2

(* An action that is not itself dispatched starts from the preload slot,    *)
(* once, and does not come back to it.                                      *)
Spent(b, c, id) ==
    /\ c.ran[id] # b.ran[id] => b.preloaded = id /\ c.ran[id] = b.ran[id] + 1
    /\ c.preloaded = id => b.preloaded = id /\ c.ran[id] = b.ran[id]

LEMMA PreloadedIsSpent ==
    ASSUME PipelineAssumption,
           NEW A \in SUBSET Id, NEW b \in Bots(A), NEW c, StartsPreloaded(b, c), NEW id \in Id
    PROVE  Spent(b, c, id)
<1>1. id # NoTask /\ b.ran \in [Id -> Nat]
  BY PipelineAssumption DEF Bots
<1>2. QED
  BY <1>1 DEF StartsPreloaded, Started, Spent

LEMMA ExecuteGrows ==
    ASSUME PipelineAssumption, alive \in BOOLEAN, panicking \in BOOLEAN,
           NEW A \in SUBSET Id, NEW b \in Bots(A), NEW id \in A
    PROVE  /\ Grows(A, b, ExecuteIntent(b, id))
           /\ \A d \in Id \ {id} : Spent(b, ExecuteIntent(b, id), d)
<1> DEFINE c == ExecuteIntent(b, id)
<1>1. PICK e \in Bots(A) : /\ Grows(A, b, e) /\ StartsPreloaded(b, e)
                          /\ c = Begin(e, id, alive, panicking)
  <2>1. CASE alive /\ (panicking => id \in Retreat)
    <3> DEFINE e == AbortActiveTask(b, "preempted", alive, panicking)
    <3>1. "preempted" \in Causes
      BY DEF Causes
    <3>2. Grows(A, b, e) /\ StartsPreloaded(b, e)
      BY <3>1, AbortGrows
    <3>3. c = Begin(e, id, alive, panicking)
      BY <2>1 DEF ExecuteIntent
    <3>4. QED
      BY <3>2, <3>3 DEF Grows
  <2>2. CASE ~(alive /\ (panicking => id \in Retreat))
    <3>1. c = Begin(b, id, alive, panicking)
      BY <2>2 DEF ExecuteIntent
    <3>2. Grows(A, b, b) /\ StartsPreloaded(b, b)
      BY GrowsAnyway DEF StartsPreloaded
    <3>3. QED
      BY <3>1, <3>2
  <2>3. QED
    BY <2>1, <2>2
<1> HIDE DEF c
<1>2. /\ Grows(A, e, c) /\ c.preloaded = e.preloaded
      /\ c.ran = e.ran \/ Started(e, c, id)
  BY <1>1, BeginGrows
<1>3. Grows(A, b, c)
  BY <1>1, <1>2, GrowsOn
<1>4. ASSUME NEW d \in Id \ {id} PROVE Spent(b, c, d)
  <2>1. Spent(b, e, d)
    BY <1>1, PreloadedIsSpent
  <2>2. e.ran \in [Id -> Nat]
    BY DEF Bots
  <2>3. c.ran[d] = e.ran[d]
    BY <1>2, <2>2 DEF Started
  <2>4. QED
    BY <1>2, <2>1, <2>3 DEF Spent
<1>5. QED
  BY <1>3, <1>4 DEF c

-----------------------------------------------------------------------------
(* Whatever is on its way anywhere in the pipeline is cleared: approved at  *)
(* some time, or an idle drift.  The parts of the invariant follow the      *)
(* parts of the system.                                                     *)
Cleared == approved \union DriftId

Messages(A) == [type : {"dispatch", "preload"}, id : A]
                 \union [type : {"abort"}, reason : Reason \union {"context_cancelled"}]

QueueInv ==
    /\ TM!TypeOK
    /\ \A i \in Item : queue[i] > 0 \/ scheduled[i] > 0 => i.id \in Cleared
    /\ active # NoItem => active.id \in Cleared
    /\ item # NoItem => item.id \in Cleared
    /\ pc = "execute" => itemCtx \in Ctx

EngineTypes(A, record, goroutines, sent) ==
    /\ record \in [id : A, started : BOOLEAN] \union {NoTask}
    /\ goroutines \subseteq [id : A, ctx : Ctx \union {Background}, n : 1..MaxThreads,
                             pc : {"dispatch", "loop", "abort", "preload"}]
    /\ sent \in Seq(Messages(A))

EngineInv == EngineTypes(Cleared, inFlight, threads, outbox)

LeaseInv ==
    /\ approved \subseteq Id /\ holder \in Id \union {NoTask}
    /\ reflexActive \in BOOLEAN /\ aborting \in Reason \union {NoReason}
    /\ retried \in [Id -> Nat]

TimerInv ==
    /\ registered \subseteq Cleared /\ armed \in [Id -> Nat]
    /\ \A id \in Id : armed[id] > 0 => id \in Cleared

HandlerInv ==
    /\ planning \in {Resting} \union [at : {"request", "enqueue"}, id : PlanId]
    /\ planning.at = "enqueue" => planning.id \in Cleared
    /\ starting \in {Resting} \union [at : {"look", "register"}, id : Cleared]
    /\ asking \subseteq Id
    /\ ending \in {Resting} \union [at : {"complete", "adapt"}, event : EndEvents(Cleared),
                                    tracked : BOOLEAN]
    /\ halting \in [HaltReasons -> {"rest", "halt", "clear", "request"}]

Outcomes(A) == [call : [id : A, n : Nat], cause : {Completed, "TIMEOUT"}]

BotInv ==
    /\ Executor \in Bots(Cleared)
    /\ finishing \subseteq Outcomes(Cleared)
    /\ panicking \in BOOLEAN /\ alive \in BOOLEAN /\ seen \subseteq Cleared

ClearedInv == QueueInv /\ EngineInv /\ LeaseInv /\ TimerInv /\ HandlerInv /\ BotInv

(* Every retry, made or still owed by handleTaskEnd, every registered       *)
(* watchdog and every start not handled yet has a start of its own.         *)
Owed(id) == ending # Resting /\ ending.event.id = id /\ (ending.at = "adapt" \/ ending.tracked)

One(p) == IF p THEN 1 ELSE 0

InStart(id) == starting # Resting /\ starting.id = id

Charge(id) == retried[id] + One(Owed(id)) + One(id \in registered) + One(InStart(id))

RetriesCovered == \A id \in Id : Charge(id) <= Handled(Executor, id)

-----------------------------------------------------------------------------
(* The queue: what enters it is cleared, and it moves what it has.          *)
QueueStep ==
    \/ \E i \in Item : i.id \in Cleared /\ (TM!Enqueue(i) \/ TM!EnqueueScheduled(i))
    \/ \E id : TM!CompleteSuccess(id)
    \/ \E id : TM!CompleteFailure(id, TRUE) \/ TM!CompleteFailure(id, FALSE)
    \/ TM!Halt \/ TM!ProcessScheduled \/ TM!TakeSignal
    \/ TM!DispatchDrop \/ TM!DispatchPushBack \/ \E c \in Ctx : TM!DispatchActivate(c)
    \/ TM!Execute
    \/ \E k \in recent : TM!DedupWindowCloses(k)
    \/ TM!ControllerChanges
    \/ UNCHANGED tmVars

Heaps == [Item -> Nat]

LEMMA HeapMoves ==
    ASSUME NEW q \in Heaps, NEW i \in Item
    PROVE  /\ TM!Push(q, i) \in Heaps /\ TM!EmptyQueue \in Heaps
           /\ q[i] > 0 => TM!Remove(q, i) \in Heaps
           /\ \A j \in Item : TM!Push(q, i)[j] > 0 => q[j] > 0 \/ j = i
           /\ q[i] > 0 => \A j \in Item : TM!Remove(q, i)[j] > 0 => q[j] > 0
           /\ \A j \in Item : ~(TM!EmptyQueue[j] > 0)
  BY DEF Heaps, TM!Push, TM!Remove, TM!EmptyQueue

LEMMA QueueKept ==
    ASSUME PipelineAssumption, QueueInv, QueueStep, approved \subseteq approved'
    PROVE  QueueInv'
<1> DEFINE Safe(q) == \A i \in Item : q[i] > 0 => i.id \in Cleared
           Work(w) == w # NoItem => w.id \in Cleared
<1>1. Cleared \subseteq Cleared'
  BY DEF Cleared
<1>2. ASSUME queue' \in Heaps, scheduled' \in Heaps, Safe(queue'), Safe(scheduled'),
             active' \in Item \union {NoItem}, activeCtx' \in Ctx \union {NoCtx},
             liveCtx' \subseteq Ctx, Work(active')
      PROVE  /\ (queue \in Heaps)' /\ (scheduled \in Heaps)'
             /\ (active \in Item \union {NoItem})'
             /\ (activeCtx \in Ctx \union {NoCtx})' /\ (liveCtx \subseteq Ctx)'
             /\ (\A i \in Item : queue[i] > 0 \/ scheduled[i] > 0 => i.id \in Cleared)'
             /\ (active # NoItem => active.id \in Cleared)'
  BY <1>1, <1>2
<1> DEFINE
      Shelves == /\ queue' \in Heaps /\ scheduled' \in Heaps /\ Safe(queue') /\ Safe(scheduled')
      Actives == /\ active' \in Item \union {NoItem} /\ activeCtx' \in Ctx \union {NoCtx}
                 /\ liveCtx' \subseteq Ctx /\ Work(active')
      Runs == /\ pc' \in {"select", "dispatch", "execute"} /\ item' \in Item \union {NoItem}
              /\ (item' = NoItem) <=> (pc' = "select")
              /\ itemCtx' \in Ctx \union {NoCtx} /\ Work(item')
              /\ pc' = "execute" => itemCtx' \in Ctx
      Flags == /\ recent' \subseteq {DedupKey[i] : i \in Item} /\ idle' \in {"zero", "set", "long"}
               /\ signal' \in BOOLEAN /\ backingOff' \in BOOLEAN /\ ready' \in BOOLEAN
<1>3. ASSUME Shelves, Actives, Runs, Flags PROVE QueueInv'
  <2>1. TM!TypeOK'
    BY <1>3 DEF TM!TypeOK, Heaps
  <2>2. \A i \in Item : queue'[i] > 0 \/ scheduled'[i] > 0 => i.id \in Cleared'
    BY <1>1, <1>3
  <2>3. /\ active' # NoItem => active'.id \in Cleared'
        /\ item' # NoItem => item'.id \in Cleared'
        /\ pc' = "execute" => itemCtx' \in Ctx
    BY <1>1, <1>3
  <2>4. QED
    BY <2>1, <2>2, <2>3 DEF QueueInv
<1>4. /\ queue \in Heaps /\ scheduled \in Heaps /\ Safe(queue) /\ Safe(scheduled)
      /\ Work(active) /\ Work(item)
  BY DEF QueueInv, TM!TypeOK, Heaps
<1>5. /\ active \in Item \union {NoItem} /\ activeCtx \in Ctx \union {NoCtx} /\ liveCtx \subseteq Ctx
      /\ pc \in {"select", "dispatch", "execute"} /\ item \in Item \union {NoItem}
      /\ (item = NoItem) <=> (pc = "select")
      /\ itemCtx \in Ctx \union {NoCtx} /\ (pc = "execute" => itemCtx \in Ctx)
      /\ recent \subseteq {DedupKey[i] : i \in Item} /\ idle \in {"zero", "set", "long"}
      /\ signal \in BOOLEAN /\ backingOff \in BOOLEAN /\ ready \in BOOLEAN
  BY DEF QueueInv, TM!TypeOK
<1>6. UNCHANGED <<queue, scheduled>> => Shelves
  BY <1>4
<1>7. UNCHANGED <<active, activeCtx, liveCtx>> \/ TM!CancelActive => Actives
  BY <1>4, <1>5 DEF TM!CancelActive
<1>8. UNCHANGED <<pc, item, itemCtx>> => Runs
  BY <1>4, <1>5
<1>9. UNCHANGED <<recent, idle, signal, backingOff, ready>> => Flags
  BY <1>5
<1>10. queue' = TM!EmptyQueue /\ UNCHANGED scheduled => Shelves
  BY <1>4 DEF TM!EmptyQueue, Heaps
<1> USE DEF TM!ctxVars, TM!runVars, TM!idleVars
<1>11. ASSUME NEW i \in Item, i.id \in Cleared, TM!Enqueue(i) PROVE QueueInv'
  <2>1. Shelves
    BY <1>4, <1>11, HeapMoves DEF TM!Enqueue
  <2>2. Flags
    BY <1>5, <1>11 DEF TM!Enqueue
  <2>3. UNCHANGED <<active, activeCtx, liveCtx>> /\ UNCHANGED <<pc, item, itemCtx>>
    BY <1>11 DEF TM!Enqueue
  <2> HIDE DEF Shelves, Actives, Runs, Flags
  <2>4. QED
    BY <1>3, <1>7, <1>8, <2>1, <2>2, <2>3
<1>12. ASSUME NEW i \in Item, i.id \in Cleared, TM!EnqueueScheduled(i) PROVE QueueInv'
  <2>1. Shelves
    BY <1>4, <1>12, HeapMoves DEF TM!EnqueueScheduled
  <2>2. UNCHANGED <<active, activeCtx, liveCtx>> /\ UNCHANGED <<pc, item, itemCtx>>
        /\ UNCHANGED <<recent, idle, signal, backingOff, ready>>
    BY <1>12 DEF TM!EnqueueScheduled
  <2> HIDE DEF Shelves, Actives, Runs, Flags
  <2>3. QED
    BY <1>3, <1>7, <1>8, <1>9, <2>1, <2>2
<1>13. ASSUME NEW id, TM!CompleteSuccess(id) PROVE QueueInv'
  <2>1. Flags
    <3>1. signal' \in BOOLEAN
      BY <1>13 DEF TM!CompleteSuccess
    <3>2. QED
      BY <1>5, <1>13, <3>1 DEF TM!CompleteSuccess
  <2>2. TM!CancelActive /\ UNCHANGED <<pc, item, itemCtx>> /\ UNCHANGED <<queue, scheduled>>
    BY <1>13 DEF TM!CompleteSuccess
  <2> HIDE DEF Shelves, Actives, Runs, Flags
  <2>3. QED
    BY <1>3, <1>6, <1>7, <1>8, <2>1, <2>2
<1>14. ASSUME NEW id, NEW controlled \in BOOLEAN, TM!CompleteFailure(id, controlled)
       PROVE  QueueInv'
  <2>1. Flags
    <3>1. backingOff' \in BOOLEAN
      BY <1>14 DEF TM!CompleteFailure
    <3>2. QED
      BY <1>5, <1>14, <3>1 DEF TM!CompleteFailure
  <2>2. TM!CancelActive /\ UNCHANGED <<pc, item, itemCtx>> /\ queue' = TM!EmptyQueue
        /\ UNCHANGED scheduled
    BY <1>14 DEF TM!CompleteFailure
  <2> HIDE DEF Shelves, Actives, Runs, Flags
  <2>3. QED
    BY <1>3, <1>7, <1>8, <1>10, <2>1, <2>2
<1>15. ASSUME TM!Halt PROVE QueueInv'
  <2>1. UNCHANGED <<active, activeCtx, liveCtx>> \/ TM!CancelActive
    BY <1>15 DEF TM!Halt
  <2>2. UNCHANGED <<pc, item, itemCtx>> /\ queue' = TM!EmptyQueue /\ UNCHANGED scheduled
        /\ UNCHANGED <<recent, idle, signal, backingOff, ready>>
    BY <1>15 DEF TM!Halt
  <2> HIDE DEF Shelves, Actives, Runs, Flags
  <2>3. QED
    BY <1>3, <1>7, <1>8, <1>9, <1>10, <2>1, <2>2
<1>16. ASSUME TM!ProcessScheduled PROVE QueueInv'
  <2>1. PICK due \in SUBSET {i \in Item : scheduled[i] > 0 /\ queue[i] < MaxCopies} :
           /\ scheduled' = [i \in Item |-> IF i \in due THEN scheduled[i] - 1 ELSE scheduled[i]]
           /\ queue' = [i \in Item |-> IF i \in due THEN queue[i] + 1 ELSE queue[i]]
    BY <1>16 DEF TM!ProcessScheduled
  <2>2. scheduled' \in Heaps /\ queue' \in Heaps
    BY <1>4, <2>1 DEF Heaps
  <2>3. \A i \in Item : scheduled'[i] > 0 \/ queue'[i] > 0 => scheduled[i] > 0 \/ queue[i] > 0
    BY <1>4, <2>1 DEF Heaps
  <2>4. Shelves
    BY <1>4, <2>2, <2>3
  <2>5. Flags
    BY <1>5, <1>16 DEF TM!ProcessScheduled
  <2>6. UNCHANGED <<active, activeCtx, liveCtx>> /\ UNCHANGED <<pc, item, itemCtx>>
    BY <1>16 DEF TM!ProcessScheduled
  <2> HIDE DEF Shelves, Actives, Runs, Flags
  <2>7. QED
    BY <1>3, <1>7, <1>8, <2>4, <2>5, <2>6
<1>17. ASSUME TM!TakeSignal PROVE QueueInv'
  <2>1. UNCHANGED <<active, activeCtx, liveCtx>> /\ UNCHANGED scheduled /\ pc = "select"
        /\ signal' = FALSE /\ UNCHANGED <<itemCtx, recent, backingOff, ready>>
    BY <1>17 DEF TM!TakeSignal
  <2>2. CASE UNCHANGED <<queue, pc, item, idle>>
    <3>1. Flags
      BY <1>5, <2>1, <2>2
    <3>2. UNCHANGED <<queue, scheduled>> /\ UNCHANGED <<pc, item, itemCtx>>
      BY <2>1, <2>2
    <3> HIDE DEF Shelves, Actives, Runs, Flags
    <3>3. QED
      BY <1>3, <1>6, <1>7, <1>8, <2>1, <3>1, <3>2
  <2>3. ASSUME NEW i \in Item, TM!Pops(i), queue' = TM!Remove(queue, i), pc' = "dispatch",
               item' = i, idle' = "zero"
        PROVE  QueueInv'
    <3>1. queue[i] > 0
      BY <2>3 DEF TM!Pops, TM!IsRoot
    <3>2. Shelves
      BY <1>4, <2>1, <2>3, <3>1, HeapMoves
    <3>3. Flags
      BY <1>5, <2>1, <2>3
    <3>4. Runs
      BY <1>4, <1>5, <2>1, <2>3, <3>1, PipelineAssumption
    <3> HIDE DEF Shelves, Actives, Runs, Flags
    <3>5. QED
      BY <1>3, <1>7, <2>1, <3>2, <3>3, <3>4
  <2>4. QED
    BY <1>17, <2>2, <2>3 DEF TM!TakeSignal
<1>18. ASSUME TM!DispatchDrop PROVE QueueInv'
  <2>1. Runs
    BY <1>5, <1>18 DEF TM!DispatchDrop
  <2>2. UNCHANGED <<active, activeCtx, liveCtx>> /\ UNCHANGED <<queue, scheduled>>
        /\ UNCHANGED <<recent, idle, signal, backingOff, ready>>
    BY <1>18 DEF TM!DispatchDrop
  <2> HIDE DEF Shelves, Actives, Runs, Flags
  <2>3. QED
    BY <1>3, <1>6, <1>7, <1>9, <2>1, <2>2
<1>19. ASSUME TM!DispatchPushBack PROVE QueueInv'
  <2>1. item \in Item /\ item.id \in Cleared
    BY <1>4, <1>5, <1>19 DEF TM!DispatchPushBack
  <2>2. Shelves
    BY <1>4, <1>19, <2>1, HeapMoves DEF TM!DispatchPushBack
  <2>3. Runs
    BY <1>5, <1>19 DEF TM!DispatchPushBack
  <2>4. UNCHANGED <<active, activeCtx, liveCtx>>
        /\ UNCHANGED <<recent, idle, signal, backingOff, ready>>
    BY <1>19 DEF TM!DispatchPushBack
  <2> HIDE DEF Shelves, Actives, Runs, Flags
  <2>5. QED
    BY <1>3, <1>7, <1>9, <2>2, <2>3, <2>4
<1>20. ASSUME NEW c \in Ctx, TM!DispatchActivate(c) PROVE QueueInv'
  <2>1. Actives
    BY <1>4, <1>5, <1>20 DEF TM!DispatchActivate
  <2>2. Runs
    BY <1>4, <1>5, <1>20 DEF TM!DispatchActivate
  <2>3. UNCHANGED <<queue, scheduled>> /\ UNCHANGED <<recent, idle, signal, backingOff, ready>>
    BY <1>20 DEF TM!DispatchActivate
  <2> HIDE DEF Shelves, Actives, Runs, Flags
  <2>4. QED
    BY <1>3, <1>6, <1>9, <2>1, <2>2, <2>3
<1>21. ASSUME TM!Execute PROVE QueueInv'
  <2>1. Runs
    BY <1>21 DEF TM!Execute
  <2>2. UNCHANGED <<active, activeCtx, liveCtx>> /\ UNCHANGED <<queue, scheduled>>
        /\ UNCHANGED <<recent, idle, signal, backingOff, ready>>
    BY <1>21 DEF TM!Execute
  <2> HIDE DEF Shelves, Actives, Runs, Flags
  <2>3. QED
    BY <1>3, <1>6, <1>7, <1>9, <2>1, <2>2
<1>22. ASSUME UNCHANGED <<queue, scheduled>>, UNCHANGED <<active, activeCtx, liveCtx>>,
              UNCHANGED <<pc, item, itemCtx>>, recent' \subseteq recent, ready' \in BOOLEAN,
              UNCHANGED <<idle, signal, backingOff>>
       PROVE  QueueInv'
  <2>1. Flags
    BY <1>5, <1>22
  <2> HIDE DEF Shelves, Actives, Runs, Flags
  <2>2. QED
    BY <1>3, <1>6, <1>7, <1>8, <1>22, <2>1
<1>23. ASSUME NEW k \in recent, TM!DedupWindowCloses(k) PROVE QueueInv'
  BY <1>5, <1>22, <1>23 DEF TM!DedupWindowCloses
<1>24. ASSUME TM!ControllerChanges PROVE QueueInv'
  <2>1. ready' \in BOOLEAN
    BY <1>5, <1>24 DEF TM!ControllerChanges
  <2>2. QED
    BY <1>22, <1>24, <2>1 DEF TM!ControllerChanges
<1>25. ASSUME UNCHANGED tmVars PROVE QueueInv'
  BY <1>5, <1>22, <1>25 DEF tmVars
<1>26. QED
  BY <1>11, <1>12, <1>13, <1>14, <1>15, <1>16, <1>17, <1>18, <1>19, <1>20, <1>21, <1>23,
     <1>24, <1>25 DEF QueueStep

-----------------------------------------------------------------------------
(* The engine: it passes on what it is called with.                         *)
EngineStep(A) ==
    \/ \E ctx \in Ctx \union {Background}, id \in A : EN!ExecuteAsync(ctx, id)
    \/ \E id \in A : EN!Preload(id)
    \/ \E id : EN!OnTaskStart(id) \/ EN!OnTaskEnd(id)
    \/ inFlight' \in {inFlight, NoTask} /\ UNCHANGED <<threads, outbox>>
    \/ \E g \in threads : EN!ThreadStep(g)
    \/ \E m \in Messages(A) : EN!Send(m) /\ UNCHANGED <<inFlight, threads>>
    \/ outbox # << >> /\ outbox' = Tail(outbox) /\ UNCHANGED <<inFlight, threads>>

LEMMA SeqWidens ==
    ASSUME NEW S, NEW T, S \subseteq T, NEW q \in Seq(S)
    PROVE  q \in Seq(T)
  OBVIOUS

LEMMA EngineWidens ==
    ASSUME NEW A, NEW B, A \subseteq B, NEW f, NEW ts, NEW o, EngineTypes(A, f, ts, o)
    PROVE  EngineTypes(B, f, ts, o)
<1>1. Messages(A) \subseteq Messages(B)
  BY DEF Messages
<1>2. o \in Seq(Messages(B))
  BY <1>1, SeqWidens DEF EngineTypes
<1>3. QED
  BY <1>2 DEF EngineTypes

LEMMA EngineKept ==
    ASSUME NEW A, EngineTypes(A, inFlight, threads, outbox), EngineStep(A)
    PROVE  EngineTypes(A, inFlight', threads', outbox')
<1> DEFINE Goroutines == [id : A, ctx : Ctx \union {Background}, n : 1..MaxThreads,
                          pc : {"dispatch", "loop", "abort", "preload"}]
           Record == [id : A, started : BOOLEAN] \union {NoTask}
<1>1. inFlight \in Record /\ threads \subseteq Goroutines /\ outbox \in Seq(Messages(A))
  BY DEF EngineTypes
<1>2. ASSUME inFlight' \in Record, threads' \subseteq Goroutines, outbox' \in Seq(Messages(A))
      PROVE  EngineTypes(A, inFlight', threads', outbox')
  BY <1>2 DEF EngineTypes
<1>3. ASSUME NEW id \in A, NEW ctx \in Ctx \union {Background},
             NEW label \in {"dispatch", "preload"}, EN!Spawn(id, ctx, label)
      PROVE  threads' \subseteq Goroutines
  <2> DEFINE free == {n \in 1..MaxThreads :
                        \A g \in threads : (g.id = id /\ g.ctx = ctx) => g.n # n}
             n0 == CHOOSE n \in free : TRUE
  <2>1. free # {} /\ threads' = threads \union
             {[id |-> id, ctx |-> ctx, n |-> n0, pc |-> label]}
    BY <1>3 DEF EN!Spawn
  <2>2. n0 \in 1..MaxThreads
    BY <2>1
  <2> HIDE DEF free, n0
  <2>3. QED
    BY <1>1, <2>1, <2>2
<1>4. ASSUME NEW m \in Messages(A), EN!Send(m) PROVE outbox' \in Seq(Messages(A))
  BY <1>1, <1>4 DEF EN!Send
<1>5. ASSUME NEW g \in threads, EN!Exit(g) PROVE threads' \subseteq Goroutines
  BY <1>1, <1>5 DEF EN!Exit
<1>6. ASSUME NEW g \in threads, NEW label \in {"loop", "abort"}, EN!GoTo(g, label)
      PROVE  threads' \subseteq Goroutines
  BY <1>1, <1>6 DEF EN!GoTo
<1>7. \A g \in threads : g.id \in A
  BY <1>1
<1> HIDE DEF Goroutines, Record
<1>8. ASSUME NEW ctx \in Ctx \union {Background}, NEW id \in A, EN!ExecuteAsync(ctx, id)
      PROVE  EngineTypes(A, inFlight', threads', outbox')
  <2>1. inFlight' \in Record
    BY <1>8 DEF EN!ExecuteAsync, Record
  <2>2. EN!Spawn(id, ctx, "dispatch") /\ outbox' = outbox
    BY <1>8 DEF EN!ExecuteAsync
  <2>3. QED
    BY <1>1, <1>2, <1>3, <2>1, <2>2
<1>9. ASSUME NEW id \in A, EN!Preload(id) PROVE EngineTypes(A, inFlight', threads', outbox')
  <2>1. UNCHANGED threads \/ EN!Spawn(id, Background, "preload")
    BY <1>9 DEF EN!Preload
  <2>2. UNCHANGED <<inFlight, outbox>>
    BY <1>9 DEF EN!Preload
  <2>3. QED
    BY <1>1, <1>2, <1>3, <2>1, <2>2
<1>10. ASSUME NEW id, EN!OnTaskStart(id) \/ EN!OnTaskEnd(id)
       PROVE  EngineTypes(A, inFlight', threads', outbox')
  <2>1. inFlight' \in Record
    BY <1>1, <1>10 DEF EN!OnTaskStart, EN!OnTaskEnd, EN!InFlight, Record
  <2>2. UNCHANGED <<threads, outbox>>
    BY <1>10 DEF EN!OnTaskStart, EN!OnTaskEnd
  <2>3. QED
    BY <1>1, <1>2, <2>1, <2>2
<1>11. ASSUME inFlight' \in {inFlight, NoTask}, UNCHANGED <<threads, outbox>>
       PROVE  EngineTypes(A, inFlight', threads', outbox')
  BY <1>1, <1>2, <1>11 DEF Record
<1>12. ASSUME NEW g \in threads, EN!ThreadStep(g)
       PROVE  EngineTypes(A, inFlight', threads', outbox')
  <2>1. g.id \in A
    BY <1>7
  <2>2. /\ EN!Dispatched(g.id) \in Messages(A) /\ EN!Preloaded(g.id) \in Messages(A)
        /\ EN!Aborted("context_cancelled") \in Messages(A)
    BY <2>1 DEF Messages, EN!Dispatched, EN!Preloaded, EN!Aborted
  <2>3. CASE EN!ThreadDispatch(g)
    BY <1>1, <1>2, <1>4, <1>6, <2>2, <2>3 DEF EN!ThreadDispatch
  <2>4. CASE EN!ThreadPreload(g)
    BY <1>1, <1>2, <1>4, <1>5, <2>2, <2>4 DEF EN!ThreadPreload
  <2>5. CASE EN!ThreadCancelled(g)
    <3>1. inFlight' \in Record
      BY <2>5 DEF EN!ThreadCancelled, EN!ForgetInFlight, Record
    <3>2. QED
      BY <1>1, <1>2, <1>6, <2>5, <3>1 DEF EN!ThreadCancelled
  <2>6. CASE EN!ThreadAbort(g)
    BY <1>1, <1>2, <1>4, <1>5, <2>2, <2>6 DEF EN!ThreadAbort
  <2>7. CASE EN!ThreadExit(g)
    BY <1>1, <1>2, <1>5, <2>7 DEF EN!ThreadExit
  <2>8. QED
    BY <1>12, <2>3, <2>4, <2>5, <2>6, <2>7 DEF EN!ThreadStep
<1>13. ASSUME NEW m \in Messages(A), EN!Send(m), UNCHANGED <<inFlight, threads>>
       PROVE  EngineTypes(A, inFlight', threads', outbox')
  BY <1>1, <1>2, <1>4, <1>13
<1>14. ASSUME outbox # << >>, outbox' = Tail(outbox), UNCHANGED <<inFlight, threads>>
       PROVE  EngineTypes(A, inFlight', threads', outbox')
  <2>1. Tail(outbox) \in Seq(Messages(A))
    BY <1>1, <1>14
  <2>2. QED
    BY <1>1, <1>2, <1>14, <2>1
<1>15. QED
  BY <1>8, <1>9, <1>10, <1>11, <1>12, <1>13, <1>14 DEF EngineStep

-----------------------------------------------------------------------------
(* The other parts, while what has been approved only grows.                *)
LEMMA BotsWiden ==
    ASSUME NEW A, NEW B, A \subseteq B, NEW b \in Bots(A)
    PROVE  b \in Bots(B)
<1>1. EndEvents(A) \subseteq EndEvents(B)
  BY DEF EndEvents
<1>2. b.starts \in Seq(A) /\ b.ends \in Seq(EndEvents(A))
  BY DEF Bots
<1>3. b.starts \in Seq(B) /\ b.ends \in Seq(EndEvents(B))
  BY <1>1, <1>2, SeqWidens
<1>4. QED
  BY <1>3 DEF Bots

(* What Becomes makes of the executor is the record it was given.           *)
LEMMA BecomesIt ==
    ASSUME NEW A, NEW b \in Bots(A), Becomes(b)
    PROVE  Executor' = b
<1>1. b = [current |-> b.current, preloaded |-> b.preloaded,
           starts |-> b.starts, ends |-> b.ends, ran |-> b.ran]
  BY DEF Bots
<1>2. QED
  BY <1>1 DEF Becomes, Executor

LEMMA OthersStay ==
    ASSUME ClearedInv, approved \subseteq approved'
    PROVE  /\ Cleared \subseteq Cleared'
           /\ UNCHANGED <<leaseVars, reflexActive, aborting, retried>> => LeaseInv'
           /\ UNCHANGED timerVars => TimerInv'
           /\ UNCHANGED handlerVars => HandlerInv'
           /\ UNCHANGED botVars => BotInv'
<1>1. Cleared \subseteq Cleared'
  BY DEF Cleared
<1>2. UNCHANGED <<leaseVars, reflexActive, aborting, retried>> => LeaseInv'
  BY DEF ClearedInv, LeaseInv, leaseVars
<1>3. UNCHANGED timerVars => TimerInv'
  BY <1>1 DEF ClearedInv, TimerInv, timerVars
<1>4. ASSUME UNCHANGED handlerVars PROVE HandlerInv'
  <2>1. EndEvents(Cleared) \subseteq EndEvents(Cleared')
    BY <1>1 DEF EndEvents
  <2>2. HandlerInv /\ UNCHANGED <<planning, starting, ending, halting, asking>>
    BY <1>4 DEF handlerVars, ClearedInv
  <2>3. ending' \in {Resting} \union [at : {"complete", "adapt"}, event : EndEvents(Cleared'),
                                      tracked : BOOLEAN]
    BY <2>1, <2>2 DEF HandlerInv
  <2>4. /\ planning' \in {Resting} \union [at : {"request", "enqueue"}, id : PlanId]
        /\ planning'.at = "enqueue" => planning'.id \in Cleared'
        /\ starting' \in {Resting} \union [at : {"look", "register"}, id : Cleared']
        /\ asking' \subseteq Id
        /\ halting' \in [HaltReasons -> {"rest", "halt", "clear", "request"}]
    BY <1>1, <2>2 DEF HandlerInv
  <2>5. EndEvents(Cleared)' = EndEvents(Cleared')
    BY DEF EndEvents
  <2>6. QED
    BY <2>3, <2>4, <2>5 DEF HandlerInv
<1>5. ASSUME UNCHANGED botVars PROVE BotInv'
  <2>1. Executor' = Executor /\ Executor \in Bots(Cleared)
    BY <1>5 DEF botVars, taskVars, Executor, ClearedInv, BotInv
  <2>2. Executor' \in Bots(Cleared')
    BY <1>1, <2>1, BotsWiden
  <2>3. Bots(Cleared)' = Bots(Cleared')
    BY DEF Bots, EndEvents
  <2>4. UNCHANGED <<finishing, panicking, alive, seen>> /\ BotInv
    BY <1>5 DEF botVars, taskVars, ClearedInv
  <2>5. QED
    BY <1>1, <2>2, <2>3, <2>4 DEF BotInv, Outcomes
<1>6. QED
  BY <1>1, <1>2, <1>3, <1>4, <1>5

-----------------------------------------------------------------------------
(* What is cleared stays cleared, and nothing else gets on its way.         *)
LEMMA ClearedKept ==
    ASSUME PipelineAssumption, ClearedInv, [Next]_vars
    PROVE  ClearedInv'
<1> USE PipelineAssumption
<1>1. QueueInv /\ EngineInv /\ LeaseInv /\ TimerInv /\ HandlerInv /\ BotInv
  BY DEF ClearedInv
<1>2. Cleared \subseteq Id /\ NoTask \notin Id
  BY <1>1 DEF LeaseInv, Cleared, Id
<1>3. ASSUME QueueStep, approved \subseteq approved' PROVE QueueInv'
  BY <1>1, <1>3, QueueKept
<1>4. ASSUME EngineStep(Cleared'), approved \subseteq approved' PROVE EngineInv'
  <2>1. EngineTypes(Cleared', inFlight, threads, outbox)
    BY <1>1, <1>4, OthersStay, EngineWidens DEF EngineInv
  <2>2. EngineTypes(Cleared', inFlight', threads', outbox')
    BY <1>4, <2>1, EngineKept
  <2>3. QED
    BY <2>2 DEF EngineInv, EngineTypes, Messages
<1>5. ASSUME UNCHANGED tmVars, approved \subseteq approved' PROVE QueueInv'
  BY <1>3, <1>5 DEF QueueStep
<1>6. ASSUME UNCHANGED enVars, approved \subseteq approved' PROVE EngineInv'
  BY <1>4, <1>6 DEF EngineStep, enVars
<1>7. UNCHANGED leaseVars => approved \subseteq approved'
  BY DEF leaseVars
<1>8. ASSUME NEW id \in Id, Approve(id)
      PROVE  /\ approved \subseteq approved' /\ id \in Cleared' /\ EngineInv'
             /\ UNCHANGED <<reflexActive, aborting, retried>> => LeaseInv'
  <2>1. approved' = approved \union {id} /\ holder' = id
    BY <1>8 DEF Approve, Lease!Approve
  <2>2. approved \subseteq approved' /\ id \in Cleared'
    BY <2>1 DEF Cleared
  <2>3. EngineInv'
    BY <1>4, <1>8, <2>2 DEF EngineStep, Approve
  <2>4. UNCHANGED <<reflexActive, aborting, retried>> => LeaseInv'
    BY <1>1, <2>1 DEF LeaseInv
  <2>5. QED
    BY <2>2, <2>3, <2>4
<1>9. ASSUME Deny
      PROVE  /\ approved \subseteq approved' /\ EngineInv'
             /\ UNCHANGED <<reflexActive, aborting, retried>> => LeaseInv'
  BY <1>6, <1>7, <1>9, OthersStay DEF Deny
<1>10. ASSUME NEW ids, StopWatchdogs(ids), approved \subseteq approved' PROVE TimerInv'
  <2>1. /\ registered' \subseteq registered
        /\ armed' = [id \in Id |-> IF id \in ids \intersect registered /\ armed[id] > 0
                                   THEN armed[id] - 1 ELSE armed[id]]
    BY <1>10 DEF StopWatchdogs
  <2>2. armed \in [Id -> Nat]
    BY <1>1 DEF TimerInv
  <2>3. armed' \in [Id -> Nat] /\ \A id \in Id : armed'[id] > 0 => armed[id] > 0
    BY <2>1, <2>2
  <2>4. QED
    BY <1>1, <1>10, <2>1, <2>3, OthersStay DEF TimerInv
<1>11. ASSUME QueueInv', EngineInv', LeaseInv', TimerInv', HandlerInv', BotInv' PROVE ClearedInv'
  BY <1>11 DEF ClearedInv
<1>12. ASSUME UNCHANGED <<holder, approved, reflexActive, retried>>,
              aborting' \in Reason \union {NoReason}
       PROVE  LeaseInv'
  BY <1>1, <1>12 DEF LeaseInv

<1>13. CASE SendAbort
  <2>1. EN!Aborted(aborting) \in Messages(Cleared')
    BY <1>1, <1>13 DEF SendAbort, LeaseInv, EN!Aborted, Messages
  <2>2. approved \subseteq approved'
    BY <1>7, <1>13 DEF SendAbort
  <2>3. EngineInv'
    BY <1>4, <1>13, <2>1, <2>2 DEF SendAbort, EngineStep
  <2>4. LeaseInv'
    BY <1>12, <1>13 DEF SendAbort, leaseVars
  <2>5. QED
    BY <1>5, <1>11, <1>13, <2>2, <2>3, <2>4, OthersStay DEF SendAbort
<1>14. CASE PlanRequests
  <2>1. planning \in [at : {"request", "enqueue"}, id : PlanId] /\ planning.id \in Id
    BY <1>1, <1>14 DEF PlanRequests, HandlerInv, Resting, Id
  <2>2. /\ UNCHANGED <<tmVars, reflexActive, timerVars, aborting, starting, ending, halting,
                       asking, botVars, budget, retried>>
        /\ \/ /\ Approve(planning.id)
              /\ planning' \in {[planning EXCEPT !.at = "enqueue"], Resting}
           \/ Deny /\ planning' = Resting
    BY <1>14 DEF PlanRequests
  <2>3. /\ approved \subseteq approved' /\ EngineInv' /\ LeaseInv'
        /\ planning' # Resting => planning.id \in Cleared'
    BY <1>8, <1>9, <2>1, <2>2
  <2>4. HandlerInv'
    <3>1. planning' \in {[planning EXCEPT !.at = "enqueue"], Resting}
      BY <2>2
    <3>2. UNCHANGED handlerVars => HandlerInv'
      BY <2>3, OthersStay
    <3>3. /\ planning' \in {Resting} \union [at : {"request", "enqueue"}, id : PlanId]
          /\ planning'.at = "enqueue" => planning'.id \in Cleared'
      BY <2>1, <2>3, <3>1 DEF Resting
    <3>4. Cleared \subseteq Cleared'
      BY <2>3, OthersStay
    <3>5. EndEvents(Cleared) \subseteq EndEvents(Cleared)'
      BY <3>4 DEF EndEvents
    <3>6. QED
      BY <1>1, <2>2, <3>3, <3>4, <3>5 DEF HandlerInv
  <2>5. QED
    BY <1>5, <1>11, <2>2, <2>3, <2>4, OthersStay
<1>15. CASE PlanDrifts
  <2>1. PICK id \in DriftId : TM!EnqueueScheduled(DriftItem(id))
    BY <1>15 DEF PlanDrifts
  <2>2. DriftItem(id) \in Item /\ DriftItem(id).id \in Cleared
    BY DEF Item, DriftItem, Cleared
  <2>3. approved \subseteq approved'
    BY <1>7, <1>15 DEF PlanDrifts
  <2>4. QueueInv'
    BY <1>3, <2>1, <2>2, <2>3 DEF QueueStep
  <2>5. QED
    BY <1>6, <1>11, <1>15, <2>3, <2>4, OthersStay DEF PlanDrifts
<1>16. CASE PlanEnqueues
  <2>1. planning.id \in PlanId /\ planning.id \in Cleared
    BY <1>1, <1>16 DEF PlanEnqueues, HandlerInv, Resting
  <2>2. PlanItem(planning.id) \in Item /\ PlanItem(planning.id).id \in Cleared
    BY <2>1 DEF Item, PlanItem
  <2>3. approved \subseteq approved'
    BY <1>7, <1>16 DEF PlanEnqueues
  <2>4. QueueInv'
    BY <1>3, <1>16, <2>2, <2>3 DEF QueueStep, PlanEnqueues, Process
  <2>5. HandlerInv'
    BY <1>1, <1>16 DEF PlanEnqueues, HandlerInv, Resting, leaseVars, Cleared, EndEvents
  <2>6. QED
    BY <1>6, <1>11, <1>16, <2>3, <2>4, <2>5, OthersStay DEF PlanEnqueues
<1>17. CASE StartHandled
  <2>1. approved \subseteq approved' /\ Cleared' = Cleared
    BY <1>17 DEF StartHandled, leaseVars, Cleared
  <2>2. Executor \in Bots(Cleared)
    BY <1>1 DEF BotInv
  <2>3. starts \in Seq(Cleared)
    BY <2>2 DEF Executor, Bots
  <2>4. Head(starts) \in Cleared /\ Tail(starts) \in Seq(Cleared)
    BY <1>17, <2>3 DEF StartHandled
  <2>5. EngineInv'
    BY <1>4, <1>17, <2>1 DEF StartHandled, EngineStep
  <2>6. HandlerInv'
    <3>1. starting' \in [at : {"look", "register"}, id : Cleared]
      BY <1>17, <2>4 DEF StartHandled
    <3>2. QED
      BY <1>1, <1>17, <2>1, <3>1 DEF StartHandled, HandlerInv, EndEvents
  <2>7. BotInv'
    <3>1. Executor' = [current |-> current, preloaded |-> preloaded,
                       starts |-> Tail(starts), ends |-> ends, ran |-> ran]
      BY <1>17 DEF StartHandled, Executor
    <3>2. Executor' \in Bots(Cleared)
      BY <2>2, <2>4, <3>1 DEF Executor, Bots
    <3>3. QED
      BY <1>1, <1>17, <2>1, <3>2 DEF StartHandled, BotInv, Bots, EndEvents, Outcomes
  <2>8. QED
    BY <1>5, <1>11, <1>17, <2>1, <2>5, <2>6, <2>7, OthersStay DEF StartHandled
<1> DEFINE Begun == [at : {"look", "register"}, id : Cleared]
<1>LOOK. CASE StartLooks
  <2>1. approved \subseteq approved' /\ Cleared' = Cleared
    BY <1>LOOK DEF StartLooks, leaseVars, Cleared
  <2>2. starting \in Begun
    BY <1>1, <1>LOOK DEF StartLooks, HandlerInv, Resting
  <2>3. starting' \in Begun \union {Resting}
    BY <1>LOOK, <2>2 DEF StartLooks
  <2>4. HandlerInv'
    BY <1>1, <1>LOOK, <2>1, <2>3 DEF StartLooks, HandlerInv, EndEvents
  <2>5. QED
    BY <1>5, <1>6, <1>11, <1>LOOK, <2>1, <2>4, OthersStay DEF StartLooks
<1>18. CASE RegisterWatchdog
  <2>1. approved \subseteq approved' /\ Cleared' = Cleared
    BY <1>18 DEF RegisterWatchdog, leaseVars, Cleared
  <2>2. starting.id \in Cleared
    BY <1>1, <1>18 DEF RegisterWatchdog, HandlerInv, Resting
  <2>3. TimerInv'
    BY <1>1, <1>2, <1>18, <2>1, <2>2 DEF RegisterWatchdog, TimerInv
  <2>4. HandlerInv'
    BY <1>1, <1>18, <2>1 DEF RegisterWatchdog, HandlerInv, EndEvents
  <2>5. QED
    BY <1>5, <1>6, <1>11, <1>18, <2>1, <2>3, <2>4, OthersStay DEF RegisterWatchdog
<1>19. CASE EndHandled
  <2> DEFINE e == Head(ends)
  <2>1. approved \subseteq approved' /\ Cleared' = Cleared
    BY <1>19 DEF EndHandled, leaseVars, Cleared
  <2>2. Executor \in Bots(Cleared)
    BY <1>1 DEF BotInv
  <2>3. ends \in Seq(EndEvents(Cleared))
    BY <2>2 DEF Executor, Bots
  <2>4. e \in EndEvents(Cleared) /\ Tail(ends) \in Seq(EndEvents(Cleared))
    BY <1>19, <2>3 DEF EndHandled
  <2>5. /\ ending' = [at |-> "complete", event |-> e, tracked |-> e.id \in registered]
        /\ StopWatchdogs({e.id}) /\ EN!OnTaskEnd(e.id) /\ ends' = Tail(ends)
        /\ UNCHANGED <<tmVars, leaseVars, reflexActive, aborting, planning, starting, halting,
                       asking, current, preloaded, finishing, starts, ran, seen, panicking,
                       alive, budget, retried>>
    BY <1>19 DEF EndHandled
  <2> HIDE DEF e
  <2>6. EngineInv' /\ TimerInv'
    BY <1>4, <1>10, <2>1, <2>5 DEF EngineStep
  <2>7. HandlerInv'
    <3>1. ending' \in [at : {"complete", "adapt"}, event : EndEvents(Cleared), tracked : BOOLEAN]
      BY <2>4, <2>5
    <3>2. QED
      BY <1>1, <2>1, <2>5, <3>1 DEF HandlerInv, EndEvents
  <2>8. BotInv'
    <3>1. Executor' = [current |-> current, preloaded |-> preloaded,
                       starts |-> starts, ends |-> Tail(ends), ran |-> ran]
      BY <2>5 DEF Executor
    <3>2. Executor' \in Bots(Cleared)
      BY <2>2, <2>4, <3>1 DEF Executor, Bots
    <3>3. QED
      BY <1>1, <2>1, <2>5, <3>2 DEF BotInv, Bots, EndEvents, Outcomes
  <2>9. QED
    BY <1>5, <1>11, <2>1, <2>5, <2>6, <2>7, <2>8, OthersStay
<1>20. ASSUME NEW e, Complete(e) PROVE QueueStep
  <2> DEFINE stop == e.cause \in ControlledStops
  <2>1. UNCHANGED tmVars \/ TM!CompleteSuccess(e.id) \/ TM!CompleteFailure(e.id, stop)
    BY <1>20 DEF Complete
  <2>2. stop = TRUE \/ stop = FALSE
    OBVIOUS
  <2> HIDE DEF stop
  <2>3. CASE stop = TRUE
    BY <2>1, <2>3 DEF QueueStep
  <2>4. CASE stop = FALSE
    BY <2>1, <2>4 DEF QueueStep
  <2>5. QED
    BY <2>2, <2>3, <2>4
<1>21. CASE EndCompletes
  <2>1. approved \subseteq approved' /\ Cleared' = Cleared
    BY <1>21 DEF EndCompletes, leaseVars, Cleared
  <2>2. QueueInv'
    BY <1>3, <1>20, <1>21, <2>1 DEF EndCompletes
  <2>3. ending' \in {Resting, [ending EXCEPT !.at = "adapt"]}
    BY <1>21 DEF EndCompletes
  <2>4. ending' \in {Resting} \union [at : {"complete", "adapt"}, event : EndEvents(Cleared),
                                      tracked : BOOLEAN]
    BY <1>1, <1>21, <2>3 DEF EndCompletes, HandlerInv, Resting
  <2>5. HandlerInv'
    BY <1>1, <1>21, <2>1, <2>4 DEF EndCompletes, HandlerInv, EndEvents
  <2>6. QED
    BY <1>6, <1>11, <1>21, <2>1, <2>2, <2>5, OthersStay DEF EndCompletes
<1>22. CASE EndAdapts
  <2> DEFINE id == ending.event.id
  <2>1. id \in Cleared /\ id \in Id
    BY <1>1, <1>2, <1>22 DEF EndAdapts, HandlerInv, Resting, EndEvents
  <2>2. /\ ReleaseLease(id)
        /\ \/ /\ TM!EnqueueScheduled(RetryItem(id))
              /\ retried' = [retried EXCEPT ![id] = @ + 1]
           \/ UNCHANGED <<tmVars, retried>>
        /\ ending' = Resting
        /\ UNCHANGED <<enVars, reflexActive, timerVars, aborting, planning, starting,
                       halting, asking, botVars, budget>>
    BY <1>22 DEF EndAdapts
  <2> HIDE DEF id
  <2>3. RetryItem(id) \in Item /\ RetryItem(id).id \in Cleared
    BY <2>1 DEF Item, RetryItem
  <2>4. approved \subseteq approved' /\ Cleared' = Cleared
    BY <2>2 DEF ReleaseLease, Lease!Release, Cleared
  <2>5. QueueStep
    BY <2>2, <2>3 DEF QueueStep
  <2>6. QueueInv'
    BY <1>3, <2>4, <2>5
  <2>7. LeaseInv'
    <3>1. retried' \in [Id -> Nat]
      BY <1>1, <2>2 DEF LeaseInv
    <3>2. QED
      BY <1>1, <2>2, <3>1 DEF LeaseInv, ReleaseLease, Lease!Release
  <2>8. HandlerInv'
    BY <1>1, <2>2, <2>4 DEF HandlerInv, EndEvents
  <2>9. QED
    BY <1>6, <1>11, <2>2, <2>4, <2>6, <2>7, <2>8, OthersStay
<1>23. ASSUME NEW r \in HaltReasons, HaltHalts(r) PROVE ClearedInv'
  <2>1. approved \subseteq approved' /\ Cleared' = Cleared
    BY <1>23 DEF HaltHalts, leaseVars, Cleared
  <2>2. QueueInv'
    BY <1>3, <1>23, <2>1 DEF HaltHalts, QueueStep
  <2>3. AbortActive(r) /\ UNCHANGED <<threads, outbox>>
    BY <1>23 DEF HaltHalts
  <2>4. EngineInv'
    BY <1>4, <2>1, <2>3 DEF AbortActive, EN!ForgetInFlight, EngineStep
  <2>5. aborting' \in Reason \union {NoReason}
    BY <1>1, <2>3 DEF AbortActive, LeaseInv, Reason
  <2>6. LeaseInv'
    BY <1>12, <1>23, <2>5 DEF HaltHalts, leaseVars
  <2>7. HandlerInv'
    BY <1>1, <1>23, <2>1 DEF HaltHalts, HandlerInv, EndEvents
  <2>8. QED
    BY <1>11, <1>23, <2>1, <2>2, <2>4, <2>6, <2>7, OthersStay DEF HaltHalts
<1>24. ASSUME NEW r \in HaltReasons, HaltClears(r) PROVE ClearedInv'
  <2>1. approved \subseteq approved' /\ Cleared' = Cleared
    BY <1>24 DEF HaltClears, leaseVars, Cleared
  <2>2. TimerInv'
    BY <1>10, <1>24, <2>1 DEF HaltClears
  <2>3. HandlerInv'
    BY <1>1, <1>24, <2>1 DEF HaltClears, HandlerInv, EndEvents
  <2>4. QED
    BY <1>5, <1>6, <1>11, <1>24, <2>1, <2>2, <2>3, OthersStay DEF HaltClears
<1>25. CASE PanicRequests
  <2>1. /\ (\E id \in ReflexId \ approved : Approve(id)) \/ Deny
        /\ halting' = [halting EXCEPT !["panic_triggered"] = "rest"]
        /\ UNCHANGED <<tmVars, reflexActive, timerVars, aborting, planning, starting, ending,
                       asking, botVars, budget, retried>>
    BY <1>25 DEF PanicRequests
  <2>2. approved \subseteq approved' /\ EngineInv' /\ LeaseInv'
    BY <1>8, <1>9, <2>1 DEF Id
  <2>3. Cleared \subseteq Cleared'
    BY <2>2, OthersStay
  <2>4. HandlerInv'
    <3>1. EndEvents(Cleared) \subseteq EndEvents(Cleared)'
      BY <2>3 DEF EndEvents
    <3>2. halting' \in [HaltReasons -> {"rest", "halt", "clear", "request"}]
      BY <1>1, <2>1 DEF HandlerInv
    <3>3. QED
      BY <1>1, <2>1, <2>3, <3>1, <3>2 DEF HandlerInv
  <2>5. QED
    BY <1>5, <1>11, <2>1, <2>2, <2>4, OthersStay
<1>ANSWER. ASSUME NEW id \in Id, Answered(id) PROVE ClearedInv'
  <2>1. /\ Approve(id) \/ Deny
        /\ asking' = asking \ {id}
        /\ UNCHANGED <<tmVars, reflexActive, timerVars, aborting, planning, starting, ending,
                       halting, botVars, budget, retried>>
    BY <1>ANSWER DEF Answered
  <2>2. approved \subseteq approved' /\ EngineInv' /\ LeaseInv'
    BY <1>8, <1>9, <2>1
  <2>3. Cleared \subseteq Cleared'
    BY <2>2, OthersStay
  <2>4. HandlerInv'
    <3>1. EndEvents(Cleared) \subseteq EndEvents(Cleared)'
      BY <2>3 DEF EndEvents
    <3>2. asking' \subseteq Id
      BY <1>1, <2>1 DEF HandlerInv
    <3>3. QED
      BY <1>1, <2>1, <2>3, <3>1, <3>2 DEF HandlerInv
  <2>5. QED
    BY <1>5, <1>11, <2>1, <2>2, <2>4, OthersStay
<1>26. CASE Server
  BY <1>13, <1>14, <1>15, <1>16, <1>17, <1>18, <1>LOOK, <1>ANSWER, <1>19, <1>21, <1>22, <1>23, <1>24, <1>25,
     <1>11, <1>26 DEF Server

<1>27. ASSUME UNCHANGED outsideQueue
       PROVE  /\ approved \subseteq approved' /\ Cleared' = Cleared
              /\ TimerInv' /\ HandlerInv' /\ BotInv'
              /\ UNCHANGED <<holder, approved, reflexActive, retried>>
  <2>1. UNCHANGED <<leaseVars, reflexActive, timerVars, handlerVars, botVars, retried>>
    BY <1>27 DEF outsideQueue
  <2>2. UNCHANGED <<holder, approved>> /\ approved \subseteq approved'
    BY <2>1 DEF leaseVars
  <2>3. QED
    BY <2>1, <2>2, OthersStay DEF Cleared
<1>28. CASE QueueSchedules
  <2>1. UNCHANGED outsideQueue /\ UNCHANGED enVars /\ UNCHANGED aborting /\ QueueStep
    BY <1>28 DEF QueueSchedules, QueueStep
  <2>2. LeaseInv'
    BY <1>1, <1>12, <1>27, <2>1 DEF LeaseInv
  <2>3. QED
    BY <1>3, <1>6, <1>11, <1>27, <2>1, <2>2
<1>29. CASE QueueTakesSignal
  <2>1. UNCHANGED outsideQueue /\ UNCHANGED aborting /\ QueueStep
    BY <1>29 DEF QueueTakesSignal, QueueStep
  <2>2. QueueInv'
    BY <1>3, <1>27, <2>1
  <2>3. UNCHANGED enVars \/ \E i \in Item : queue'[i] > 0 /\ EN!Preload(i.id)
    BY <1>29 DEF QueueTakesSignal, TM!IsRoot
  <2>4. EngineStep(Cleared') \/ UNCHANGED enVars
    BY <2>2, <2>3 DEF EngineStep, QueueInv
  <2>5. LeaseInv'
    BY <1>1, <1>12, <1>27, <2>1 DEF LeaseInv
  <2>6. QED
    BY <1>4, <1>6, <1>11, <1>27, <2>1, <2>2, <2>4, <2>5
<1>30. CASE QueueDispatches
  <2>1. UNCHANGED outsideQueue /\ UNCHANGED <<threads, outbox>>
    BY <1>30 DEF QueueDispatches
  <2>2. QueueStep
    <3>1. CASE FreshCtx # {}
      <4>1. (CHOOSE c \in FreshCtx : TRUE) \in Ctx
        BY <3>1 DEF FreshCtx
      <4>2. QED
        BY <1>30, <4>1 DEF QueueDispatches, QueueStep
    <3>2. CASE FreshCtx = {}
      BY <1>30, <3>2 DEF QueueDispatches, QueueStep
    <3>3. QED
      BY <3>1, <3>2
  <2>3. inFlight' \in {inFlight, NoTask} /\ aborting' \in Reason \union {NoReason}
    BY <1>1, <1>30 DEF QueueDispatches, AbortActive, EN!ForgetInFlight, LeaseInv, Reason
  <2>4. EngineInv'
    BY <1>4, <1>27, <2>1, <2>3 DEF EngineStep
  <2>5. LeaseInv'
    BY <1>12, <1>27, <2>1, <2>3
  <2>6. QED
    BY <1>3, <1>11, <1>27, <2>1, <2>2, <2>4, <2>5
<1>31. CASE QueueExecutes
  <2>1. UNCHANGED outsideQueue /\ UNCHANGED aborting /\ QueueStep
        /\ EN!ExecuteAsync(itemCtx, item.id) /\ pc = "execute"
    BY <1>31 DEF QueueExecutes, QueueStep, TM!Execute
  <2>2. item.id \in Cleared /\ itemCtx \in Ctx
    BY <1>1, <2>1 DEF QueueInv, TM!TypeOK
  <2>3. EngineInv'
    BY <1>4, <1>27, <2>1, <2>2 DEF EngineStep
  <2>4. LeaseInv'
    BY <1>1, <1>12, <1>27, <2>1 DEF LeaseInv
  <2>5. QED
    BY <1>3, <1>11, <1>27, <2>1, <2>3, <2>4
<1>32. CASE Queue
  BY <1>28, <1>29, <1>30, <1>31, <1>32 DEF Queue
<1>33. ASSUME NEW g \in threads, EngineRuns(g) PROVE ClearedInv'
  <2>1. UNCHANGED outsideQueue /\ UNCHANGED aborting /\ UNCHANGED tmVars /\ EN!ThreadStep(g)
    BY <1>33 DEF EngineRuns
  <2>2. EngineInv'
    BY <1>4, <1>27, <2>1 DEF EngineStep
  <2>3. LeaseInv'
    BY <1>1, <1>12, <1>27, <2>1 DEF LeaseInv
  <2>4. QED
    BY <1>5, <1>11, <1>27, <2>1, <2>2, <2>3

<1>34. ASSUME NEW id \in Id, PreEscape(id) PROVE ClearedInv'
  <2>1. Approve(id) /\ UNCHANGED <<tmVars, reflexActive, timerVars, aborting, handlerVars,
                                   botVars, retried>>
    BY <1>34 DEF PreEscape
  <2>2. approved \subseteq approved' /\ EngineInv' /\ LeaseInv'
    BY <1>8, <2>1
  <2>3. QED
    BY <1>5, <1>11, <2>1, <2>2, OthersStay
<1>ASK. ASSUME NEW id \in Id, LooksAndAsks(id) PROVE ClearedInv'
  <2>1. approved \subseteq approved' /\ Cleared' = Cleared
    BY <1>ASK DEF LooksAndAsks, leaseVars, Cleared
  <2>2. HandlerInv'
    BY <1>1, <1>ASK, <2>1 DEF LooksAndAsks, HandlerInv, EndEvents
  <2>3. QED
    BY <1>5, <1>6, <1>11, <1>ASK, <2>1, <2>2, OthersStay DEF LooksAndAsks
<1>35. ASSUME NEW id \in Id, WatchdogFires(id) PROVE ClearedInv'
  <2> DEFINE e == [id |-> id, cause |-> "DEADLINE_EXCEEDED"]
  <2>1. /\ armed[id] > 0 /\ armed' = [armed EXCEPT ![id] = @ - 1]
        /\ EN!Send(EN!Aborted("DEADLINE_EXCEEDED")) /\ ends' = Append(ends, e)
        /\ UNCHANGED <<tmVars, inFlight, threads, leaseVars, reflexActive, registered, aborting,
                       handlerVars, current, preloaded, finishing, starts, ran, seen, panicking,
                       alive, retried>>
    BY <1>35 DEF WatchdogFires
  <2>2. approved \subseteq approved' /\ Cleared' = Cleared
    BY <2>1 DEF leaseVars, Cleared
  <2>3. id \in Cleared
    BY <1>1, <2>1 DEF TimerInv
  <2>4. EN!Aborted("DEADLINE_EXCEEDED") \in Messages(Cleared')
    BY DEF EN!Aborted, Messages, Reason
  <2>5. EngineInv'
    BY <1>4, <2>1, <2>2, <2>4 DEF EngineStep
  <2>6. TimerInv'
    <3>1. armed \in [Id -> Nat]
      BY <1>1 DEF TimerInv
    <3>2. armed' \in [Id -> Nat] /\ \A d \in Id : armed'[d] > 0 => armed[d] > 0
      BY <2>1, <3>1
    <3>3. QED
      BY <1>1, <2>1, <2>2, <3>2 DEF TimerInv
  <2>7. BotInv'
    <3>1. Executor \in Bots(Cleared)
      BY <1>1 DEF BotInv
    <3>2. e \in EndEvents(Cleared) /\ ends \in Seq(EndEvents(Cleared))
      BY <2>3, <3>1 DEF EndEvents, Causes, Reason, Executor, Bots
    <3>3. Append(ends, e) \in Seq(EndEvents(Cleared))
      BY <3>2
    <3> HIDE DEF e
    <3>4. Executor' = [current |-> current, preloaded |-> preloaded,
                       starts |-> starts, ends |-> Append(ends, e), ran |-> ran]
      BY <2>1 DEF Executor
    <3>5. Executor' \in Bots(Cleared)
      BY <3>1, <3>3, <3>4 DEF Executor, Bots
    <3>6. QED
      BY <1>1, <2>1, <2>2, <3>5 DEF BotInv, Bots, EndEvents, Outcomes
  <2>8. QED
    BY <1>5, <1>11, <2>1, <2>2, <2>5, <2>6, <2>7, OthersStay
<1>36. ASSUME NEW id \in PlanId, PlanArrives(id) PROVE ClearedInv'
  <2>1. approved \subseteq approved' /\ Cleared' = Cleared
    BY <1>36 DEF PlanArrives, leaseVars, Cleared
  <2>2. HandlerInv'
    BY <1>1, <1>36, <2>1 DEF PlanArrives, HandlerInv, EndEvents
  <2>3. QED
    BY <1>5, <1>6, <1>11, <1>36, <2>1, <2>2, OthersStay DEF PlanArrives
<1>37. ASSUME NEW r \in HaltReasons, HaltArrives(r) PROVE ClearedInv'
  <2>1. approved \subseteq approved' /\ Cleared' = Cleared
    BY <1>37 DEF HaltArrives, leaseVars, Cleared
  <2>2. HandlerInv'
    BY <1>1, <1>37, <2>1 DEF HaltArrives, HandlerInv, EndEvents
  <2>3. LeaseInv'
    <3>1. reflexActive' \in BOOLEAN
      BY <1>1, <1>37 DEF HaltArrives, LeaseInv
    <3>2. QED
      BY <1>1, <1>37, <3>1 DEF HaltArrives, LeaseInv, leaseVars
  <2>4. QED
    BY <1>5, <1>6, <1>11, <1>37, <2>1, <2>2, <2>3, OthersStay DEF HaltArrives
<1>38. CASE PanicResolved
  <2>1. approved \subseteq approved'
    BY <1>38 DEF PanicResolved, leaseVars
  <2>2. LeaseInv'
    BY <1>1, <1>38 DEF PanicResolved, LeaseInv, leaseVars
  <2>3. QED
    BY <1>5, <1>6, <1>11, <1>38, <2>1, <2>2, OthersStay DEF PanicResolved
<1>39. CASE EngineCleansUp
  <2>1. approved \subseteq approved'
    BY <1>39 DEF EngineCleansUp, leaseVars
  <2>2. EngineInv'
    BY <1>4, <1>39, <2>1 DEF EngineCleansUp, EN!CheckStuckTasks, EngineStep
  <2>3. QED
    BY <1>5, <1>11, <1>39, <2>1, <2>2, OthersStay DEF EngineCleansUp
<1>40. CASE DedupWindowCloses
  <2>1. approved \subseteq approved'
    BY <1>40 DEF DedupWindowCloses, leaseVars
  <2>2. QueueInv'
    BY <1>3, <1>40, <2>1 DEF DedupWindowCloses, QueueStep
  <2>3. QED
    BY <1>6, <1>11, <1>40, <2>1, <2>2, OthersStay DEF DedupWindowCloses
<1>41. CASE Outside
  <2>1. FarmId \subseteq Id /\ EscapeId \subseteq Id /\ ControlId \subseteq Id
    BY DEF Id
  <2>2. ASSUME NEW id \in FarmId, CheckProactiveFarming(id) PROVE ClearedInv'
    BY <1>ASK, <2>1, <2>2 DEF CheckProactiveFarming
  <2>3. ASSUME NEW id \in EscapeId, PreEscape(id) PROVE ClearedInv'
    BY <1>34, <2>1, <2>3
  <2>4. ASSUME NEW id \in ControlId, IngestControlInput(id) PROVE ClearedInv'
    BY <1>ASK, <2>1, <2>4 DEF IngestControlInput
  <2>5. ASSUME NEW id \in Id, FilterForgets(id) PROVE ClearedInv'
    <3>1. approved \subseteq approved' /\ Cleared' = Cleared
      BY <2>5 DEF FilterForgets, leaseVars, Cleared
    <3>2. Executor' = Executor /\ seen' \subseteq seen
          /\ UNCHANGED <<finishing, panicking, alive>>
      BY <2>5 DEF FilterForgets, Executor, taskVars
    <3>3. BotInv'
      BY <1>1, <3>1, <3>2 DEF BotInv, Bots, EndEvents, Outcomes
    <3>4. QED
      BY <1>5, <1>6, <1>11, <2>5, <3>1, <3>3, OthersStay DEF FilterForgets
  <2>6. QED
    BY <1>35, <1>36, <1>37, <1>38, <1>39, <1>40, <1>41, <2>2, <2>3, <2>4, <2>5 DEF Outside

<1>42. ASSUME NEW b \in Bots(Cleared), Becomes(b), UNCHANGED approved,
              finishing' \subseteq Outcomes(Cleared),
              panicking' \in BOOLEAN, alive' \in BOOLEAN, seen' \subseteq Cleared
       PROVE  BotInv'
  <2>1. Executor' \in Bots(Cleared) /\ Cleared' = Cleared
    BY <1>42, BecomesIt DEF Cleared
  <2>2. QED
    BY <1>42, <2>1 DEF BotInv, Bots, EndEvents, Outcomes
<1>43. ASSUME UNCHANGED outsideBot
       PROVE  /\ approved \subseteq approved' /\ UNCHANGED <<approved, inFlight, threads>>
              /\ QueueInv' /\ LeaseInv' /\ TimerInv' /\ HandlerInv'
              /\ UNCHANGED outbox => EngineInv'
  <2>1. UNCHANGED <<tmVars, inFlight, threads, leaseVars, reflexActive, timerVars, aborting,
                    handlerVars, retried>>
    BY <1>43 DEF outsideBot
  <2>2. UNCHANGED approved /\ approved \subseteq approved'
    BY <2>1 DEF leaseVars
  <2>3. UNCHANGED outbox => UNCHANGED enVars
    BY <2>1 DEF enVars
  <2>4. QED
    BY <1>5, <1>6, <2>1, <2>2, <2>3, OthersStay
<1>44. /\ Executor \in Bots(Cleared) /\ panicking \in BOOLEAN /\ alive \in BOOLEAN
       /\ seen \subseteq Cleared
       /\ finishing \subseteq Outcomes(Cleared)
  BY <1>1 DEF BotInv
<1>45. /\ Completed \in Causes /\ "TIMEOUT" \in Causes /\ "survival_panic" \in Causes
       /\ "unlock" \in Causes /\ "bot_died" \in Causes
  BY DEF Causes, Reason, HaltReasons
<1>46. ASSUME NEW reason \in Causes, NEW up \in BOOLEAN, NEW panic \in BOOLEAN
       PROVE  AbortActiveTask(Executor, reason, up, panic) \in Bots(Cleared)
  BY <1>2, <1>44, AbortGrows DEF Grows
<1>47. CASE Deliver
  <2> DEFINE m == Head(outbox)
  <2>1. /\ outbox # << >> /\ outbox' = Tail(outbox) /\ UNCHANGED outsideBot
        /\ UNCHANGED <<panicking, alive>>
    BY <1>47 DEF Deliver
  <2>2. outbox \in Seq(Messages(Cleared)) /\ UNCHANGED <<inFlight, threads>>
    BY <1>1, <1>43, <2>1 DEF EngineInv, EngineTypes
  <2>3. m \in Messages(Cleared)
    BY <2>1, <2>2
  <2>4. EngineInv'
    BY <1>4, <1>43, <2>1, <2>2 DEF EngineStep
  <2>5. /\ m.type \in {"dispatch", "preload"} => m.id \in Cleared
        /\ m.type = "abort" => m.reason \in Causes
    BY <2>3 DEF Messages, Causes
  <2>6. \/ UNCHANGED <<taskVars, seen>>
        \/ /\ m.type = "dispatch" /\ seen' = seen \union {m.id}
           /\ Becomes(ExecuteIntent(Executor, m.id)) /\ UNCHANGED finishing
        \/ /\ m.type = "preload" /\ Becomes([Executor EXCEPT !.preloaded = m.id])
           /\ UNCHANGED <<seen, finishing>>
        \/ /\ m.type = "abort"
           /\ Becomes(IF IgnoresAbort(m.reason) THEN Executor
                      ELSE AbortActiveTask(Executor, m.reason, alive, panicking))
           /\ UNCHANGED <<seen, finishing>>
    BY <1>47 DEF Deliver
  <2> HIDE DEF m
  <2>7. BotInv'
    <3>1. CASE UNCHANGED <<taskVars, seen>>
      <4>1. UNCHANGED botVars
        BY <2>1, <3>1 DEF botVars
      <4>2. QED
        BY <1>43, <2>1, <4>1, OthersStay
    <3>2. CASE m.type = "dispatch" /\ seen' = seen \union {m.id} /\ UNCHANGED finishing
               /\ Becomes(ExecuteIntent(Executor, m.id))
      <4>1. ExecuteIntent(Executor, m.id) \in Bots(Cleared)
        BY <1>2, <1>44, <2>5, <3>2, ExecuteGrows DEF Grows
      <4>2. QED
        BY <1>42, <1>43, <1>44, <2>1, <2>5, <3>2, <4>1
    <3>3. CASE m.type = "preload" /\ Becomes([Executor EXCEPT !.preloaded = m.id])
               /\ UNCHANGED <<seen, finishing>>
      <4>1. [Executor EXCEPT !.preloaded = m.id] \in Bots(Cleared)
        BY <1>44, <2>5, <3>3 DEF Bots
      <4>2. QED
        BY <1>42, <1>43, <1>44, <2>1, <3>3, <4>1
    <3>4. ASSUME NEW b, b \in {Executor, AbortActiveTask(Executor, m.reason, alive, panicking)},
                 Becomes(b), m.type = "abort", UNCHANGED <<seen, finishing>>
          PROVE  BotInv'
      <4>1. b \in Bots(Cleared)
        BY <1>44, <1>46, <2>5, <3>4
      <4>2. QED
        BY <1>42, <1>43, <1>44, <2>1, <3>4, <4>1
    <3>5. QED
      BY <2>6, <3>1, <3>2, <3>3, <3>4
  <2>8. QED
    BY <1>11, <1>43, <2>1, <2>4, <2>7
<1>48. ASSUME NEW cause \in {Completed, "TIMEOUT"}, BotFinishes(cause) PROVE ClearedInv'
  <2>1. UNCHANGED outsideBot /\ UNCHANGED outbox
    BY <1>48 DEF BotFinishes
  <2> DEFINE f == [call |-> [id |-> current, n |-> ran[current]], cause |-> cause]
  <2>2. current \in Cleared /\ ran[current] \in Nat
    BY <1>2, <1>44, <1>48 DEF BotFinishes, Executor, Bots
  <2>3. finishing' \subseteq Outcomes(Cleared)
    <3>1. finishing' = finishing \union {f}
      BY <1>48 DEF BotFinishes
    <3>2. f \in Outcomes(Cleared)
      BY <2>2 DEF Outcomes
    <3>3. QED
      BY <1>44, <3>1, <3>2
  <2>4. Becomes(Executor) /\ UNCHANGED <<seen, panicking, alive>>
    BY <1>48 DEF BotFinishes, Becomes, Executor
  <2>5. BotInv'
    BY <1>42, <1>43, <1>44, <2>1, <2>3, <2>4
  <2>6. QED
    BY <1>11, <1>43, <2>1, <2>5
<1>49. ASSUME NEW f \in finishing, BotReports(f) PROVE ClearedInv'
  <2>1. UNCHANGED outsideBot /\ UNCHANGED <<outbox, seen, panicking, alive>>
        /\ Becomes(CompleteTask(Executor, f.call.id, f.cause, alive, panicking))
        /\ finishing' \subseteq Outcomes(Cleared)
    BY <1>44, <1>49 DEF BotReports
  <2>2. f.call.id \in Cleared /\ f.cause \in Causes
    BY <1>44, <1>45 DEF Outcomes
  <2>3. CompleteTask(Executor, f.call.id, f.cause, alive, panicking) \in Bots(Cleared)
    BY <1>2, <1>44, <2>2, CompleteTaskGrows DEF Grows
  <2>4. BotInv'
    BY <1>42, <1>43, <1>44, <2>1, <2>3
  <2>5. QED
    BY <1>11, <1>43, <2>1, <2>4
<1>50. CASE BotPanics
  <2>1. UNCHANGED outsideBot /\ UNCHANGED <<outbox, finishing, seen, alive>> /\ panicking' = TRUE
        /\ Becomes(AbortActiveTask(Executor, "survival_panic", alive, TRUE))
    BY <1>50 DEF BotPanics
  <2>2. AbortActiveTask(Executor, "survival_panic", alive, TRUE) \in Bots(Cleared)
    BY <1>44, <1>45, <1>46
  <2>3. BotInv'
    BY <1>42, <1>43, <1>44, <2>1, <2>2
  <2>4. QED
    BY <1>11, <1>43, <2>1, <2>3
<1>51. CASE BotCalms
  <2>1. UNCHANGED outsideBot /\ UNCHANGED <<outbox, finishing, seen, alive>> /\ panicking' = FALSE
        /\ Becomes(IF current \in Retreat
                   THEN AbortActiveTask(Executor, "unlock", alive, FALSE) ELSE Executor)
    BY <1>51 DEF BotCalms
  <2>2. AbortActiveTask(Executor, "unlock", alive, FALSE) \in Bots(Cleared)
    BY <1>44, <1>45, <1>46
  <2>3. BotInv'
    BY <1>42, <1>43, <1>44, <2>1, <2>2
  <2>4. QED
    BY <1>11, <1>43, <2>1, <2>3
<1>52. CASE BotDies
  <2>1. /\ UNCHANGED outsideBot /\ UNCHANGED <<outbox, finishing, seen>>
        /\ panicking' = FALSE /\ alive' = FALSE
        /\ Becomes(AbortActiveTask(Executor, "bot_died", FALSE, FALSE))
    BY <1>52 DEF BotDies
  <2>2. AbortActiveTask(Executor, "bot_died", FALSE, FALSE) \in Bots(Cleared)
    BY <1>44, <1>45, <1>46
  <2>3. BotInv'
    BY <1>42, <1>43, <1>44, <2>1, <2>2
  <2>4. QED
    BY <1>11, <1>43, <2>1, <2>3
<1>53. CASE BotRespawns
  <2>1. UNCHANGED outsideBot /\ UNCHANGED <<outbox, taskVars, seen, panicking>> /\ alive' = TRUE
    BY <1>53 DEF BotRespawns
  <2>2. Becomes(Executor) /\ UNCHANGED finishing
    BY <2>1 DEF Becomes, Executor, taskVars
  <2>3. BotInv'
    BY <1>42, <1>43, <1>44, <2>1, <2>2
  <2>4. QED
    BY <1>11, <1>43, <2>1, <2>3
<1>54. CASE Connects
  <2>1. approved \subseteq approved' /\ UNCHANGED approved
    BY <1>54 DEF Connects, leaseVars
  <2>2. QueueInv'
    BY <1>3, <1>54, <2>1 DEF Connects, QueueStep
  <2>3. Becomes(Executor) /\ UNCHANGED <<finishing, panicking, alive>> /\ seen' = {}
    BY <1>54 DEF Connects, Becomes, Executor, taskVars
  <2>4. BotInv'
    BY <1>42, <1>44, <2>1, <2>3
  <2>5. QED
    BY <1>6, <1>11, <1>54, <2>1, <2>2, <2>4, OthersStay DEF Connects
<1>55. CASE Disconnects
  <2>1. approved \subseteq approved'
    BY <1>55 DEF Disconnects, leaseVars
  <2>2. QueueInv'
    BY <1>3, <1>55, <2>1 DEF Disconnects, QueueStep
  <2>3. QED
    BY <1>6, <1>11, <1>55, <2>1, <2>2, OthersStay DEF Disconnects
<1>56. CASE Bot
  BY <1>47, <1>48, <1>49, <1>50, <1>51, <1>52, <1>53, <1>54, <1>55, <1>56 DEF Bot
<1>57. CASE UNCHANGED vars
  <2>1. UNCHANGED <<tmVars, enVars, leaseVars, reflexActive, timerVars, aborting, handlerVars,
                    botVars, budget, retried>>
    BY <1>57 DEF vars
  <2>2. QED
    BY <1>5, <1>6, <1>7, <1>11, <2>1, OthersStay
<1>58. QED
  BY <1>26, <1>32, <1>33, <1>41, <1>56, <1>57 DEF Next

-----------------------------------------------------------------------------
LEMMA EmptyAtFirst ==
    ASSUME PipelineAssumption, Init
    PROVE  ClearedInv /\ RetriesCovered
<1>1. QueueInv
  <2>1. /\ queue = [i \in Item |-> 0] /\ scheduled = [i \in Item |-> 0]
        /\ active = NoItem /\ activeCtx = NoCtx /\ liveCtx = {} /\ recent = {}
        /\ pc = "select" /\ item = NoItem /\ itemCtx = NoCtx /\ idle = "zero"
    BY DEF Init, TM!EmptyInit, TM!EmptyQueue
  <2>2. signal \in BOOLEAN /\ backingOff \in BOOLEAN /\ ready \in BOOLEAN
    BY DEF Init, TM!EmptyInit
  <2>3. queue \in [Item -> Nat] /\ scheduled \in [Item -> Nat]
        /\ \A i \in Item : ~(queue[i] > 0 \/ scheduled[i] > 0)
    BY <2>1
  <2>4. TM!TypeOK
    BY <2>1, <2>2, <2>3 DEF TM!TypeOK
  <2>5. QED
    BY <2>1, <2>3, <2>4 DEF QueueInv
<1>2. EngineInv
  <2>1. inFlight = NoTask /\ threads = {} /\ outbox = << >>
    BY DEF Init, EN!Init
  <2>2. QED
    BY <2>1 DEF EngineInv, EngineTypes
<1>3. LeaseInv
  <2>1. /\ holder = NoTask /\ approved = {} /\ aborting = NoReason
        /\ retried = [id \in Id |-> 0]
    BY DEF Init, Lease!Init
  <2>2. reflexActive \in BOOLEAN
    BY DEF Init
  <2>3. QED
    BY <2>1, <2>2 DEF LeaseInv
<1>4. TimerInv
  BY DEF Init, TimerInv
<1>5. HandlerInv
  <2>1. planning = Resting /\ starting = Resting /\ ending = Resting /\ asking = {}
        /\ halting = [r \in HaltReasons |-> "rest"]
    BY DEF Init
  <2>2. planning.at # "enqueue"
    BY <2>1 DEF Resting
  <2>3. QED
    BY <2>1, <2>2 DEF HandlerInv
<1>6. BotInv
  <2>1. /\ seen = {} /\ current = NoTask /\ preloaded = NoTask /\ finishing = {}
        /\ starts = << >> /\ ends = << >> /\ ran = [id \in Id |-> 0]
    BY DEF Init
  <2>2. panicking \in BOOLEAN /\ alive \in BOOLEAN
    BY DEF Init
  <2>3. starts \in Seq(Cleared) /\ ends \in Seq(EndEvents(Cleared)) /\ ran \in [Id -> Nat]
    BY <2>1
  <2>4. Executor \in Bots(Cleared)
    BY <2>1, <2>3 DEF Executor, Bots
  <2>5. QED
    BY <2>1, <2>2, <2>4 DEF BotInv
<1>7. ASSUME NEW id \in Id PROVE Charge(id) <= Handled(Executor, id)
  <2>1. starts = << >> /\ ran[id] = 0
    BY DEF Init
  <2>2. Places(starts, id) = {}
    BY <2>1 DEF Places
  <2>3. Count(starts, id) = 0
    BY <2>2, FS_EmptySet DEF Count
  <2>4. Handled(Executor, id) = 0
    BY <2>1, <2>3 DEF Handled, Executor
  <2>5. retried[id] = 0 /\ id \notin registered /\ ~InStart(id) /\ ~Owed(id)
    BY DEF Init, InStart, Owed
  <2>6. QED
    BY <2>4, <2>5 DEF Charge, One
<1>8. QED
  BY <1>1, <1>2, <1>3, <1>4, <1>5, <1>6, <1>7 DEF ClearedInv, RetriesCovered

(* Every charge moves on with the start that covers it: from the event to   *)
(* handleTaskStart, to the watchdog, to handleTaskEnd, to the retry.        *)
LEMMA RetriesKept ==
    ASSUME PipelineAssumption, ClearedInv, ClearedInv', RetriesCovered, [Next]_vars
    PROVE  RetriesCovered'
<1>1. ASSUME NEW id \in Id
      PROVE  /\ Charge(id) = retried[id] + One(Owed(id)) + One(id \in registered)
                               + One(InStart(id))
             /\ Charge(id)' = retried'[id] + One(Owed(id)') + One(id \in registered')
                                + One(InStart(id)')
  BY DEF Charge, One
<1>2. \A id \in Id : retried[id] \in Nat /\ retried'[id] \in Nat
  BY DEF ClearedInv, LeaseInv
<1>3. Executor \in Bots(Cleared) /\ Executor' \in Bots(Cleared')
  <2>1. Executor \in Bots(Cleared)
    BY DEF ClearedInv, BotInv
  <2>2. Executor' \in Bots(Cleared)'
    BY DEF ClearedInv, BotInv
  <2>3. QED
    BY <2>1, <2>2 DEF Bots, EndEvents
<1>4. ASSUME NEW id \in Id
      PROVE  /\ Handled(Executor, id) \in Int /\ Handled(Executor', id) \in Int
             /\ Handled(Executor, id)' = Handled(Executor', id)
             /\ Handled(Executor, id) = ran[id] - Count(starts, id)
             /\ Handled(Executor', id) = ran'[id] - Count(starts', id)
             /\ Count(starts, id) \in Nat
  <2>1. starts \in Seq(Cleared) /\ starts' \in Seq(Cleared') /\ ran[id] \in Nat /\ ran'[id] \in Nat
    BY <1>3 DEF Executor, Bots
  <2>2. Count(starts, id) \in Nat /\ Count(starts', id) \in Nat
    BY <2>1, CountType
  <2>3. Handled(Executor, id)' = Handled(Executor', id)
    BY DEF Handled, Count, Places
  <2>4. /\ Handled(Executor, id) = ran[id] - Count(starts, id)
        /\ Handled(Executor', id) = ran'[id] - Count(starts', id)
    BY DEF Handled, Executor
  <2>5. QED
    BY <2>1, <2>2, <2>3, <2>4
<1>5. ASSUME NEW id \in Id
      PROVE  /\ Charge(id) \in Int /\ Charge(id)' \in Int
             /\ Charge(id) <= Handled(Executor, id)
  BY <1>1, <1>2 DEF One, RetriesCovered
<1>6. ASSUME \A id \in Id : /\ Charge(id)' <= Charge(id)
                           /\ Handled(Executor', id) >= Handled(Executor, id)
      PROVE  RetriesCovered'
  <2>1. ASSUME NEW id \in Id PROVE Charge(id)' <= Handled(Executor', id)
    BY <1>4, <1>5, <1>6
  <2>2. QED
    BY <1>4, <2>1 DEF RetriesCovered
<1>7. ASSUME UNCHANGED <<retried, ending, registered, starting>>, NEW id \in Id
      PROVE  Charge(id)' <= Charge(id)
  <2>1. (Owed(id)' <=> Owed(id)) /\ (InStart(id)' <=> InStart(id))
    BY <1>7 DEF Owed, InStart
  <2>2. QED
    BY <1>1, <1>2, <1>7, <2>1 DEF One
<1>8. ASSUME UNCHANGED <<ran, starts>>, NEW id \in Id
      PROVE  Handled(Executor', id) >= Handled(Executor, id)
  BY <1>4, <1>8
<1>9. ASSUME UNCHANGED <<retried, ending, registered, starting>>, UNCHANGED <<ran, starts>>
      PROVE  RetriesCovered'
  BY <1>6, <1>7, <1>8, <1>9
<1>10. ASSUME UNCHANGED <<retried, handlerVars, timerVars, botVars>> PROVE RetriesCovered'
  BY <1>9, <1>10 DEF handlerVars, timerVars, botVars, taskVars
<1>11. ASSUME UNCHANGED <<retried, ending, registered, starting>>,
              NEW b, Grows(Cleared, Executor, b), Becomes(b)
       PROVE  RetriesCovered'
  <2>1. Executor' = b
    BY <1>11, BecomesIt DEF Grows
  <2>2. \A id \in Id : Handled(Executor', id) >= Handled(Executor, id)
    BY <1>11, <2>1 DEF Grows
  <2>3. QED
    BY <1>6, <1>7, <1>11, <2>2
<1>12. Cleared \in SUBSET Id /\ panicking \in BOOLEAN /\ alive \in BOOLEAN /\ NoTask \notin Id
  BY PipelineAssumption DEF ClearedInv, LeaseInv, BotInv, Cleared, Id


<1>13. CASE StartHandled
  <2> DEFINE h == Head(starts)
  <2>1. /\ starting = Resting /\ starts # << >> /\ starts' = Tail(starts)
        /\ starting' = [at |-> "look", id |-> h]
        /\ UNCHANGED <<retried, ending, registered, ran>>
    BY <1>13 DEF StartHandled, timerVars
  <2>2. starts \in Seq(Cleared)
    BY <1>3 DEF Executor, Bots
  <2>3. \A id \in Id : Count(starts, id) = Count(starts', id) + One(h = id)
    BY <2>1, <2>2, CountTail DEF One
  <2> HIDE DEF h
  <2>4. ASSUME NEW id \in Id PROVE Charge(id)' <= Handled(Executor', id)
    <3>1. Owed(id)' <=> Owed(id)
      BY <2>1 DEF Owed
    <3>2. ~InStart(id) /\ (InStart(id)' => h = id)
      BY <2>1 DEF InStart
    <3>3. Charge(id)' <= Charge(id) + One(h = id)
      BY <1>1, <1>2, <2>1, <3>1, <3>2 DEF One
    <3>4. Count(starts', id) \in Int /\ Handled(Executor', id) = Handled(Executor, id) + One(h = id)
      <4>1. starts' \in Seq(Cleared)
        BY <2>1, <2>2
      <4>2. Count(starts', id) \in Nat /\ ran[id] \in Nat
        BY <1>3, <4>1, CountType DEF Executor, Bots
      <4>3. ran'[id] = ran[id] /\ Count(starts, id) = Count(starts', id) + One(h = id)
        BY <2>1, <2>3
      <4>4. QED
        BY <1>4, <4>2, <4>3 DEF One
    <3>5. QED
      BY <1>4, <1>5, <3>3, <3>4 DEF One
  <2>5. QED
    BY <1>4, <2>4 DEF RetriesCovered
<1>LOOKS. CASE StartLooks
  <2>1. /\ starting.at = "look"
        /\ starting' \in {Resting, [starting EXCEPT !.at = "register"]}
        /\ UNCHANGED <<retried, ending, registered>> /\ UNCHANGED <<ran, starts>>
    BY <1>LOOKS DEF StartLooks, timerVars, botVars, taskVars
  <2>2. starting # Resting
    BY <2>1 DEF Resting
  <2>3. starting \in [at : {"look", "register"}, id : Cleared]
    BY <2>2 DEF ClearedInv, HandlerInv
  <2>4. ASSUME NEW id \in Id PROVE Charge(id)' <= Charge(id)
    <3>1. (Owed(id)' <=> Owed(id)) /\ (InStart(id)' => InStart(id))
      BY <2>1, <2>2, <2>3 DEF Owed, InStart
    <3>2. QED
      BY <1>1, <1>2, <2>1, <3>1 DEF One
  <2>5. QED
    BY <1>6, <1>8, <2>1, <2>4
<1>14. CASE RegisterWatchdog
  <2>1. /\ starting # Resting /\ registered' = registered \union {starting.id}
        /\ starting' = Resting
        /\ UNCHANGED <<retried, ending>> /\ UNCHANGED <<ran, starts>>
    BY <1>14 DEF RegisterWatchdog, Resting, botVars, taskVars
  <2>2. ASSUME NEW id \in Id PROVE Charge(id)' <= Charge(id)
    <3>1. Owed(id)' <=> Owed(id)
      BY <2>1 DEF Owed
    <3>2. ~InStart(id)' /\ (id \in registered' => id \in registered \/ InStart(id))
      BY <2>1 DEF InStart
    <3>3. QED
      BY <1>1, <1>2, <2>1, <3>1, <3>2 DEF One
  <2>3. QED
    BY <1>6, <1>8, <2>1, <2>2
<1>15. CASE EndHandled
  <2> DEFINE e == Head(ends)
  <2>1. /\ ending = Resting
        /\ ending' = [at |-> "complete", event |-> e, tracked |-> e.id \in registered]
        /\ registered' = registered \ {e.id}
        /\ UNCHANGED <<retried, starting>> /\ UNCHANGED <<ran, starts>>
    BY <1>15 DEF EndHandled, StopWatchdogs
  <2> HIDE DEF e
  <2>2. ASSUME NEW id \in Id PROVE Charge(id)' <= Charge(id)
    <3>1. Owed(id)' => id \in registered /\ id \notin registered'
      BY <2>1 DEF Owed
    <3>2. (id \in registered' => id \in registered) /\ (InStart(id)' <=> InStart(id))
      BY <2>1 DEF InStart
    <3>3. QED
      BY <1>1, <1>2, <2>1, <3>1, <3>2 DEF One
  <2>3. QED
    BY <1>6, <1>8, <2>1, <2>2
<1>16. CASE EndCompletes
  <2>1. /\ UNCHANGED <<retried, registered, starting>> /\ UNCHANGED <<ran, starts>>
        /\ ending.at = "complete"
        /\ \/ ending' = Resting
           \/ ending.tracked /\ ending' = [ending EXCEPT !.at = "adapt"]
    BY <1>16 DEF EndCompletes, timerVars, botVars, taskVars
  <2>2. ending # Resting
    BY <2>1 DEF Resting
  <2>3. ending \in [at : {"complete", "adapt"}, event : EndEvents(Cleared), tracked : BOOLEAN]
    BY <2>2 DEF ClearedInv, HandlerInv
  <2>4. ASSUME NEW id \in Id PROVE Charge(id)' <= Charge(id)
    <3>1. (Owed(id)' => Owed(id)) /\ (InStart(id)' <=> InStart(id))
      BY <2>1, <2>2, <2>3 DEF Owed, InStart
    <3>2. QED
      BY <1>1, <1>2, <2>1, <3>1 DEF One
  <2>5. QED
    BY <1>6, <1>8, <2>1, <2>4
<1>17. CASE EndAdapts
  <2> DEFINE d == ending.event.id
  <2>1. /\ ending.at = "adapt" /\ ending' = Resting
        /\ UNCHANGED <<registered, starting>> /\ UNCHANGED <<ran, starts>>
        /\ UNCHANGED retried \/ retried' = [retried EXCEPT ![d] = @ + 1]
    BY <1>17 DEF EndAdapts, timerVars, botVars, taskVars
  <2>2. ending # Resting
    BY <2>1 DEF Resting
  <2>3. ASSUME NEW id \in Id PROVE Charge(id)' <= Charge(id)
    <3>1. ~Owed(id)' /\ (InStart(id)' <=> InStart(id))
      BY <2>1 DEF Owed, InStart
    <3>2. d = id => Owed(id)
      BY <2>1, <2>2 DEF Owed
    <3> HIDE DEF d
    <3>3. retried'[id] <= retried[id] + One(d = id)
      <4>1. retried \in [Id -> Nat]
        BY DEF ClearedInv, LeaseInv
      <4>2. QED
        BY <2>1, <4>1 DEF One
    <3>4. QED
      BY <1>1, <1>2, <2>1, <3>1, <3>2, <3>3 DEF One
  <2>4. QED
    BY <1>6, <1>8, <2>1, <2>3
<1>18. ASSUME NEW r \in HaltReasons, HaltClears(r) PROVE RetriesCovered'
  <2>1. /\ registered' \subseteq registered
        /\ UNCHANGED <<retried, ending, starting>> /\ UNCHANGED <<ran, starts>>
    BY <1>18 DEF HaltClears, StopWatchdogs, botVars, taskVars
  <2>2. ASSUME NEW id \in Id PROVE Charge(id)' <= Charge(id)
    <3>1. (Owed(id)' <=> Owed(id)) /\ (InStart(id)' <=> InStart(id))
      BY <2>1 DEF Owed, InStart
    <3>2. QED
      BY <1>1, <1>2, <2>1, <3>1 DEF One
  <2>3. QED
    BY <1>6, <1>8, <2>1, <2>2
<1>19. CASE Server
  <2>1. CASE SendAbort
    BY <1>10, <2>1 DEF SendAbort
  <2>2. CASE PlanRequests
    BY <1>9, <2>2 DEF PlanRequests, timerVars, botVars, taskVars
  <2>3. CASE PlanDrifts
    BY <1>10, <2>3 DEF PlanDrifts
  <2>4. CASE PlanEnqueues
    BY <1>9, <2>4 DEF PlanEnqueues, timerVars, botVars, taskVars
  <2>5. ASSUME NEW r \in HaltReasons, HaltHalts(r) PROVE RetriesCovered'
    BY <1>9, <2>5 DEF HaltHalts, timerVars, botVars, taskVars
  <2>6. CASE PanicRequests
    BY <1>9, <2>6 DEF PanicRequests, timerVars, botVars, taskVars
  <2>7. ASSUME NEW id, Answered(id) PROVE RetriesCovered'
    BY <1>9, <2>7 DEF Answered, timerVars, botVars, taskVars
  <2>8. QED
    BY <1>13, <1>14, <1>LOOKS, <1>15, <1>16, <1>17, <1>18, <1>19, <2>1, <2>2, <2>3, <2>4,
       <2>5, <2>6, <2>7 DEF Server
<1>20. ASSUME UNCHANGED outsideQueue PROVE RetriesCovered'
  BY <1>10, <1>20 DEF outsideQueue
<1>21. CASE Queue
  BY <1>20, <1>21 DEF Queue, QueueSchedules, QueueTakesSignal, QueueDispatches, QueueExecutes
<1>22. ASSUME NEW g \in threads, EngineRuns(g) PROVE RetriesCovered'
  BY <1>20, <1>22 DEF EngineRuns

<1>23. ASSUME UNCHANGED outsideBot
       PROVE  UNCHANGED <<retried, ending, registered, starting>>
  BY <1>23 DEF outsideBot, handlerVars, timerVars
<1>24. Executor \in Bots(Cleared) /\ Grows(Cleared, Executor, Executor)
  BY <1>3, <1>12, GrowsAnyway
<1>25. ASSUME NEW reason \in Causes, NEW up \in BOOLEAN, NEW panic \in BOOLEAN
       PROVE  Grows(Cleared, Executor, AbortActiveTask(Executor, reason, up, panic))
  BY <1>12, <1>24, PipelineAssumption, AbortGrows
<1>26. /\ Completed \in Causes /\ "TIMEOUT" \in Causes /\ "survival_panic" \in Causes
       /\ "unlock" \in Causes /\ "bot_died" \in Causes
  BY DEF Causes, Reason, HaltReasons
<1>27. CASE Deliver
  <2> DEFINE m == Head(outbox)
  <2>1. outbox # << >> /\ UNCHANGED outsideBot
    BY <1>27 DEF Deliver
  <2>2. outbox \in Seq(Messages(Cleared))
    BY DEF ClearedInv, EngineInv, EngineTypes
  <2>3. m \in Messages(Cleared)
    BY <2>1, <2>2
  <2>4. /\ m.type \in {"dispatch", "preload"} => m.id \in Cleared
        /\ m.type = "abort" => m.reason \in Causes
    BY <2>3 DEF Messages, Causes
  <2>5. \/ UNCHANGED <<taskVars, seen>>
        \/ m.type = "dispatch" /\ Becomes(ExecuteIntent(Executor, m.id))
        \/ m.type = "preload" /\ Becomes([Executor EXCEPT !.preloaded = m.id])
        \/ m.type = "abort" /\ \/ Becomes(Executor)
                               \/ Becomes(AbortActiveTask(Executor, m.reason, alive, panicking))
    BY <1>27 DEF Deliver
  <2> HIDE DEF m
  <2>6. CASE UNCHANGED <<taskVars, seen>>
    BY <1>9, <1>23, <2>1, <2>6 DEF taskVars
  <2>7. CASE m.type = "dispatch" /\ Becomes(ExecuteIntent(Executor, m.id))
    <3>1. Grows(Cleared, Executor, ExecuteIntent(Executor, m.id))
      BY <1>12, <1>24, <2>4, <2>7, PipelineAssumption, ExecuteGrows
    <3>2. QED
      BY <1>11, <1>23, <2>1, <2>7, <3>1
  <2>8. CASE m.type = "preload" /\ Becomes([Executor EXCEPT !.preloaded = m.id])
    <3> DEFINE b == [Executor EXCEPT !.preloaded = m.id]
    <3>1. b \in Bots(Cleared) /\ b.ran = Executor.ran /\ b.starts = Executor.starts
      BY <1>24, <2>4, <2>8 DEF Bots
    <3>2. Grows(Cleared, Executor, b)
      BY <1>12, <1>24, <3>1, GrowsAnyway
    <3>3. QED
      BY <1>11, <1>23, <2>1, <2>8, <3>2
  <2>9. ASSUME m.type = "abort",
               \/ Becomes(Executor)
               \/ Becomes(AbortActiveTask(Executor, m.reason, alive, panicking))
        PROVE  RetriesCovered'
    BY <1>11, <1>12, <1>23, <1>24, <1>25, <2>1, <2>4, <2>9
  <2>10. QED
    BY <2>5, <2>6, <2>7, <2>8, <2>9
<1>28. ASSUME NEW f \in finishing, BotReports(f) PROVE RetriesCovered'
  <2>1. UNCHANGED outsideBot
        /\ Becomes(CompleteTask(Executor, f.call.id, f.cause, alive, panicking))
    BY <1>28 DEF BotReports
  <2>2. f.call.id \in Cleared /\ f.cause \in Causes
    BY <1>26 DEF ClearedInv, BotInv, Outcomes
  <2>3. Grows(Cleared, Executor, CompleteTask(Executor, f.call.id, f.cause, alive, panicking))
    BY <1>12, <1>24, <2>2, PipelineAssumption, CompleteTaskGrows
  <2>4. QED
    BY <1>11, <1>23, <2>1, <2>3
<1>29. CASE BotPanics
  BY <1>11, <1>12, <1>23, <1>25, <1>26, <1>29 DEF BotPanics
<1>30. CASE BotCalms
  BY <1>11, <1>12, <1>23, <1>24, <1>25, <1>26, <1>30 DEF BotCalms
<1>31. CASE BotDies
  BY <1>11, <1>12, <1>23, <1>25, <1>26, <1>31 DEF BotDies
<1>32. CASE Bot
  <2>1. ASSUME NEW cause \in {Completed, "TIMEOUT"}, BotFinishes(cause) PROVE RetriesCovered'
    BY <1>9, <1>23, <2>1 DEF BotFinishes
  <2>2. CASE BotRespawns
    BY <1>9, <1>23, <2>2 DEF BotRespawns, taskVars
  <2>3. CASE Connects
    BY <1>9, <2>3 DEF Connects, taskVars, timerVars, handlerVars
  <2>4. CASE Disconnects
    BY <1>10, <2>4 DEF Disconnects
  <2>5. QED
    BY <1>27, <1>28, <1>29, <1>30, <1>31, <1>32, <2>1, <2>2, <2>3, <2>4 DEF Bot
<1>33. CASE Outside
  <2>1. ASSUME NEW id, PreEscape(id) \/ FilterForgets(id) \/ LooksAndAsks(id)
        PROVE  RetriesCovered'
    BY <1>9, <2>1
       DEF PreEscape, FilterForgets, LooksAndAsks, handlerVars, timerVars, botVars, taskVars
  <2>2. ASSUME NEW id, PlanArrives(id) PROVE RetriesCovered'
    BY <1>9, <2>2 DEF PlanArrives, timerVars, botVars, taskVars
  <2>3. ASSUME NEW r, HaltArrives(r) PROVE RetriesCovered'
    BY <1>9, <2>3 DEF HaltArrives, timerVars, botVars, taskVars
  <2>4. ASSUME NEW id, WatchdogFires(id) PROVE RetriesCovered'
    BY <1>9, <2>4 DEF WatchdogFires, handlerVars
  <2>5. CASE PanicResolved \/ EngineCleansUp \/ DedupWindowCloses
    BY <1>10, <2>5 DEF PanicResolved, EngineCleansUp, DedupWindowCloses
  <2>6. QED
    BY <1>33, <2>1, <2>2, <2>3, <2>4, <2>5
       DEF Outside, CheckProactiveFarming, IngestControlInput
<1>34. CASE UNCHANGED vars
  BY <1>10, <1>34 DEF vars
<1>35. QED
  BY <1>19, <1>21, <1>22, <1>32, <1>33, <1>34 DEF Next

-----------------------------------------------------------------------------
LEMMA AlwaysCleared == Spec => [](ClearedInv /\ RetriesCovered)
<1>1. Init => ClearedInv /\ RetriesCovered
  BY PipelineAssumption, EmptyAtFirst
<1>2. ClearedInv /\ RetriesCovered /\ [Next]_vars => (ClearedInv /\ RetriesCovered)'
  BY PipelineAssumption, ClearedKept, RetriesKept
<1>3. QED
  BY <1>1, <1>2, PTL DEF Spec

LEMMA ClearedIsTyped ==
    ASSUME PipelineAssumption, ClearedInv
    PROVE  TypeOK /\ Cleared \subseteq Id
<1>1. Cleared \subseteq Id
  BY DEF ClearedInv, LeaseInv, Cleared, Id
<1>2. TM!TypeOK
  BY DEF ClearedInv, QueueInv
<1>3. EN!TypeOK
  <2>1. EngineTypes(Id, inFlight, threads, outbox)
    BY <1>1, EngineWidens DEF ClearedInv, EngineInv
  <2>2. EN!Message = Messages(Id)
    BY DEF EN!Message, Messages
  <2>3. QED
    BY <2>1, <2>2 DEF EngineTypes, EN!TypeOK, EN!Goroutine
<1>4. /\ holder \in Id \union {NoTask} /\ approved \subseteq Id /\ reflexActive \in BOOLEAN
      /\ aborting \in Reason \union {NoReason}
  BY DEF ClearedInv, LeaseInv
<1>5. registered \subseteq Id /\ armed \in [Id -> Nat]
  BY <1>1 DEF ClearedInv, TimerInv
<1>6. /\ planning.at \in {"rest", "request", "enqueue"}
      /\ ending.at \in {"rest", "complete", "adapt"}
      /\ \A r \in HaltReasons : halting[r] \in {"rest", "halt", "clear", "request"}
      /\ starting.at \in {"rest", "look", "register"} /\ asking \subseteq Id
  BY <1>1 DEF ClearedInv, HandlerInv, Resting
<1>7. Executor \in Bots(Id) /\ seen \subseteq Id
  BY <1>1, BotsWiden DEF ClearedInv, BotInv
<1>8. /\ current \in Id \union {NoTask} /\ preloaded \in Id \union {NoTask}
      /\ starts \in Seq(Id) /\ ends \in Seq([id : Id, cause : Causes])
  BY <1>7 DEF Executor, Bots, EndEvents
<1>9. {current, preloaded} \subseteq Id \union {NoTask}
  BY <1>8
<1>10. QED
  BY <1>1, <1>2, <1>3, <1>4, <1>5, <1>6, <1>7, <1>8, <1>9 DEF TypeOK

(* The queue, the engine, the handlers and the bot keep what they are meant *)
(* to keep, in every interleaving of the handlers' steps.                   *)
THEOREM PipelineTypes == Spec => []TypeOK
<1>1. ClearedInv => TypeOK
  BY PipelineAssumption, ClearedIsTyped
<1>2. QED
  BY <1>1, AlwaysCleared, PTL

(* But for idle drifts, nothing reaches the queue or the bot that the       *)
(* arbiter has not let through at some time: no retry, preload, restarted   *)
(* connection or overtaken answer brings in an action of its own.           *)
THEOREM ApprovedOnly == Spec => []OnlyApproved
<1>1. ASSUME ClearedInv PROVE OnlyApproved
  <2>1. Cleared \subseteq Admitted \ {NoTask} /\ NoTask \in Admitted
    <3>1. NoTask \notin Cleared
      BY <1>1, PipelineAssumption, ClearedIsTyped
    <3>2. QED
      BY <3>1 DEF Cleared, Admitted
  <2>2. ASSUME NEW i \in Item, queue[i] + scheduled[i] > 0 PROVE i.id \in Cleared
    <3>1. queue[i] \in Nat /\ scheduled[i] \in Nat
      BY <1>1 DEF ClearedInv, QueueInv, TM!TypeOK
    <3>2. queue[i] > 0 \/ scheduled[i] > 0
      BY <2>2, <3>1
    <3>3. QED
      BY <1>1, <3>2 DEF ClearedInv, QueueInv
  <2>3. active # NoItem => active.id \in Cleared
    BY <1>1 DEF ClearedInv, QueueInv
  <2>4. current \in Cleared \union {NoTask} /\ preloaded \in Cleared \union {NoTask}
    <3>1. Executor \in Bots(Cleared)
      BY <1>1 DEF ClearedInv, BotInv
    <3>2. QED
      BY <3>1 DEF Executor, Bots
  <2>5. QED
    BY <2>1, <2>2, <2>3, <2>4 DEF OnlyApproved
<1>2. QED
  BY <1>1, AlwaysCleared, PTL

(* An action is charged as failed and put back on the schedule at most as   *)
(* often as the bot has started it, however the deadline of the watchdog,   *)
(* the reports of the bot, halts and new starts race in the control service.*)
THEOREM OneRetryPerStart == Spec => []RetryPerStart
<1>1. ASSUME ClearedInv, RetriesCovered PROVE RetryPerStart
  <2>1. ASSUME NEW id \in Id PROVE retried[id] <= ran[id]
    <3>1. Executor \in Bots(Cleared) /\ retried \in [Id -> Nat]
      BY <1>1 DEF ClearedInv, BotInv, LeaseInv
    <3>2. starts \in Seq(Cleared) /\ ran[id] \in Nat /\ retried[id] \in Nat
      BY <3>1 DEF Executor, Bots
    <3>3. Count(starts, id) \in Nat
      BY <3>2, CountType
    <3>4. Charge(id) <= ran[id] - Count(starts, id)
      BY <1>1 DEF RetriesCovered, Handled, Executor
    <3>5. retried[id] <= Charge(id) /\ Charge(id) \in Nat
      BY <3>2 DEF Charge, One
    <3>6. QED
      BY <3>2, <3>3, <3>4, <3>5
  <2>2. QED
    BY <2>1 DEF RetryPerStart
<1>2. QED
  BY <1>1, AlwaysCleared, PTL

(* While wsActor remembers that the dispatch of an action has reached the   *)
(* bot, the action starts once more at most, out of the preload slot, and   *)
(* that slot is not filled with it again: of the dispatch, the preload and  *)
(* the retry that the engine sends under one ID, what comes late is dropped.*)
THEOREM DispatchIsSpent == Spec => SpentOnceDispatched
<1> DEFINE Kept == \A id \in seen \intersect seen' : Spent(Executor, Executor', id)
<1>1. ASSUME ClearedInv, [Next]_vars PROVE Kept
  <2>1. /\ Executor \in Bots(Cleared) /\ Cleared \in SUBSET Id
        /\ panicking \in BOOLEAN /\ alive \in BOOLEAN /\ seen \subseteq Id
    BY <1>1, PipelineAssumption, ClearedIsTyped DEF ClearedInv, BotInv
  <2>2. ASSUME UNCHANGED <<preloaded, ran>> PROVE Kept
    BY <2>2 DEF Spent, Executor
  <2>3. ASSUME NEW b \in Bots(Cleared), Becomes(b), StartsPreloaded(Executor, b) PROVE Kept
    <3>1. Executor' = b
      BY <2>3, BecomesIt
    <3>2. \A id \in Id : Spent(Executor, b, id)
      BY <2>1, <2>3, PipelineAssumption, PreloadedIsSpent
    <3>3. QED
      BY <2>1, <3>1, <3>2
  <2>4. StartsPreloaded(Executor, Executor)
    BY DEF StartsPreloaded
  <2>5. ASSUME NEW reason \in Causes, NEW up \in BOOLEAN, NEW panic \in BOOLEAN
        PROVE  /\ AbortActiveTask(Executor, reason, up, panic) \in Bots(Cleared)
               /\ StartsPreloaded(Executor, AbortActiveTask(Executor, reason, up, panic))
    BY <2>1, PipelineAssumption, AbortGrows DEF Grows
  <2>6. /\ Completed \in Causes /\ "TIMEOUT" \in Causes /\ "survival_panic" \in Causes
        /\ "unlock" \in Causes /\ "bot_died" \in Causes
    BY DEF Causes, Reason, HaltReasons
  <2>7. CASE Deliver
    <3> DEFINE m == Head(outbox)
    <3>1. outbox # << >> /\ outbox \in Seq(Messages(Cleared))
      BY <1>1, <2>7 DEF Deliver, ClearedInv, EngineInv, EngineTypes
    <3>2. m \in Messages(Cleared)
      BY <3>1
    <3>3. /\ m.type \in {"dispatch", "preload"} => m.id \in Cleared
          /\ m.type = "abort" => m.reason \in Causes
      BY <3>2 DEF Messages, Causes
    <3>4. \/ UNCHANGED taskVars
          \/ m.type = "dispatch" /\ m.id \notin seen /\ Becomes(ExecuteIntent(Executor, m.id))
          \/ m.type = "preload" /\ m.id \notin seen /\ Becomes([Executor EXCEPT !.preloaded = m.id])
          \/ m.type = "abort" /\ \/ Becomes(Executor)
                                 \/ Becomes(AbortActiveTask(Executor, m.reason, alive, panicking))
      BY <2>7 DEF Deliver, Passes
    <3> HIDE DEF m
    <3>5. CASE UNCHANGED taskVars
      BY <2>2, <3>5 DEF taskVars
    <3>6. CASE m.type = "dispatch" /\ m.id \notin seen /\ Becomes(ExecuteIntent(Executor, m.id))
      <4> DEFINE b == ExecuteIntent(Executor, m.id)
      <4>1. b \in Bots(Cleared) /\ \A id \in Id \ {m.id} : Spent(Executor, b, id)
        BY <2>1, <3>3, <3>6, PipelineAssumption, ExecuteGrows DEF Grows
      <4> HIDE DEF b
      <4>2. Executor' = b
        BY <3>6, <4>1, BecomesIt DEF b
      <4>3. QED
        BY <2>1, <3>6, <4>1, <4>2
    <3>7. CASE m.type = "preload" /\ m.id \notin seen
               /\ Becomes([Executor EXCEPT !.preloaded = m.id])
      <4>1. preloaded' = m.id /\ ran' = ran
        BY <3>7 DEF Becomes, Executor
      <4>2. QED
        BY <3>7, <4>1 DEF Spent, Executor
    <3>8. ASSUME m.type = "abort",
                 \/ Becomes(Executor)
                 \/ Becomes(AbortActiveTask(Executor, m.reason, alive, panicking))
          PROVE  Kept
      <4>1. m.reason \in Causes
        BY <3>3, <3>8
      <4>2. QED
        BY <2>1, <2>3, <2>4, <2>5, <3>8, <4>1
    <3>9. QED
      BY <3>4, <3>5, <3>6, <3>7, <3>8
  <2>8. ASSUME NEW f \in finishing, BotReports(f) PROVE Kept
    <3>1. Becomes(CompleteTask(Executor, f.call.id, f.cause, alive, panicking))
      BY <2>8 DEF BotReports
    <3>2. f.call.id \in Cleared /\ f.cause \in Causes
      BY <1>1, <2>6 DEF ClearedInv, BotInv, Outcomes
    <3> DEFINE b == CompleteTask(Executor, f.call.id, f.cause, alive, panicking)
    <3>3. b \in Bots(Cleared) /\ StartsPreloaded(Executor, b)
      BY <2>1, <3>2, PipelineAssumption, CompleteTaskGrows DEF Grows
    <3> HIDE DEF b
    <3>4. QED
      BY <2>3, <3>1, <3>3 DEF b
  <2>9. CASE BotPanics
    BY <2>1, <2>3, <2>5, <2>6, <2>9 DEF BotPanics
  <2>10. CASE BotCalms
    BY <2>1, <2>3, <2>4, <2>5, <2>6, <2>10 DEF BotCalms
  <2>11. CASE BotDies
    BY <2>1, <2>3, <2>5, <2>6, <2>11 DEF BotDies
  <2>12. CASE Bot
    <3>1. ASSUME NEW cause, BotFinishes(cause) PROVE Kept
      BY <2>2, <3>1 DEF BotFinishes
    <3>2. CASE BotRespawns \/ Connects \/ Disconnects
      BY <2>2, <3>2 DEF BotRespawns, Connects, Disconnects, botVars, taskVars
    <3>3. QED
      BY <2>7, <2>8, <2>9, <2>10, <2>11, <2>12, <3>1, <3>2 DEF Bot
  <2> USE DEF botVars, taskVars
  <2>13. CASE Server
    BY <2>2, <2>13
       DEF Server, SendAbort, PlanRequests, PlanDrifts, PlanEnqueues, StartHandled,
           StartLooks, RegisterWatchdog, EndHandled, EndCompletes, EndAdapts, HaltHalts,
           HaltClears, PanicRequests, Answered
  <2>14. ASSUME UNCHANGED outsideQueue PROVE Kept
    BY <2>2, <2>14 DEF outsideQueue
  <2>15. CASE Queue \/ \E g \in threads : EngineRuns(g)
    BY <2>14, <2>15
       DEF Queue, QueueSchedules, QueueTakesSignal, QueueDispatches, QueueExecutes, EngineRuns
  <2>16. CASE Outside
    BY <2>2, <2>16
       DEF Outside, PlanArrives, HaltArrives, CheckProactiveFarming, PreEscape,
           IngestControlInput, LooksAndAsks, PanicResolved, WatchdogFires, EngineCleansUp,
           DedupWindowCloses, FilterForgets
  <2>17. CASE UNCHANGED vars
    BY <2>2, <2>17 DEF vars
  <2>18. QED
    BY <1>1, <2>12, <2>13, <2>15, <2>16, <2>17 DEF Next
<1>2. ASSUME ClearedInv, [Next]_vars
      PROVE  [ \A id \in seen \intersect seen' :
                 /\ ran'[id] # ran[id] => preloaded = id /\ ran'[id] = ran[id] + 1
                 /\ preloaded' = id => preloaded = id /\ ran'[id] = ran[id] ]_vars
  BY <1>1, <1>2 DEF Spent, Executor
<1>3. QED
  BY <1>2, AlwaysCleared, PTL DEF Spec, SpentOnceDispatched

-----------------------------------------------------------------------------
(* The parts inside the pipeline: its steps are steps of the dispatch queue *)
(* and calls of the engine.                                                 *)
QueueMoves == [TM!Next]_tmVars

LEMMA QueueMovesOn ==
    ASSUME PipelineAssumption, ClearedInv, [Next]_vars
    PROVE  QueueMoves
<1> USE PipelineAssumption
<1>1. ClearedInv /\ TypeOK /\ Cleared \subseteq Id
  BY ClearedIsTyped
<1>2. /\ \A id \in DriftId : DriftItem(id) \in Item \ {Curiosity}
      /\ \A id \in PlanId : PlanItem(id) \in Item \ {Curiosity}
      /\ \A id \in Id : RetryItem(id) \in Item \ {Curiosity}
  BY DEF Item, DriftItem, PlanItem, RetryItem, Curiosity, Id
<1>3. ASSUME UNCHANGED tmVars PROVE QueueMoves
  BY <1>3 DEF QueueMoves
<1>4. ASSUME TM!Next PROVE QueueMoves
  BY <1>4 DEF QueueMoves
<1>5. CASE PlanDrifts
  BY <1>2, <1>4, <1>5 DEF PlanDrifts, TM!Next
<1>6. CASE PlanEnqueues
  <2>1. planning.id \in PlanId
    BY <1>1, <1>6 DEF PlanEnqueues, ClearedInv, HandlerInv, Resting
  <2>2. QED
    BY <1>2, <1>4, <1>6, <2>1 DEF PlanEnqueues, Process, TM!Next
<1>7. CASE EndCompletes
  <2> DEFINE e == ending.event
             stop == e.cause \in ControlledStops
  <2>1. \/ UNCHANGED tmVars
        \/ TM!Completes(e.id) /\ (TM!CompleteSuccess(e.id) \/ TM!CompleteFailure(e.id, stop))
    BY <1>7 DEF EndCompletes, Complete
  <2>2. stop \in BOOLEAN
    OBVIOUS
  <2> HIDE DEF e, stop
  <2>3. TM!Completes(e.id) => e.id \in TM!IDs
    BY <1>1 DEF TypeOK, TM!TypeOK, TM!Completes, TM!IDs
  <2>4. QED
    BY <1>3, <1>4, <2>1, <2>2, <2>3 DEF TM!Next
<1>8. CASE EndAdapts
  <2>1. ending.event.id \in Id
    BY <1>1, <1>8 DEF EndAdapts, ClearedInv, HandlerInv, Resting, EndEvents
  <2>2. UNCHANGED tmVars \/ TM!EnqueueScheduled(RetryItem(ending.event.id))
    BY <1>8 DEF EndAdapts
  <2>3. QED
    BY <1>2, <1>3, <1>4, <2>1, <2>2 DEF TM!Next
<1>9. ASSUME NEW r, HaltHalts(r) PROVE QueueMoves
  BY <1>4, <1>9 DEF HaltHalts, TM!Next
<1>10. CASE Server
  <2>1. ASSUME NEW r, HaltClears(r) PROVE QueueMoves
    BY <1>3, <2>1 DEF HaltClears
  <2>2. CASE \/ SendAbort \/ PlanRequests \/ StartHandled \/ StartLooks \/ RegisterWatchdog
             \/ EndHandled \/ PanicRequests \/ \E id \in Id : Answered(id)
    BY <1>3, <2>2
       DEF SendAbort, PlanRequests, StartHandled, StartLooks, RegisterWatchdog, EndHandled,
           PanicRequests, Answered
  <2>3. QED
    BY <1>5, <1>6, <1>7, <1>8, <1>9, <1>10, <2>1, <2>2 DEF Server
<1>11. CASE QueueDispatches
  <2>1. CASE TM!DispatchDrop \/ TM!DispatchPushBack
    BY <1>4, <2>1 DEF TM!Next, TM!Dispatch
  <2>2. CASE FreshCtx # {} /\ TM!DispatchActivate(CHOOSE c \in FreshCtx : TRUE)
    <3>1. (CHOOSE c \in FreshCtx : TRUE) \in Ctx \ liveCtx
      BY <2>2 DEF FreshCtx
    <3>2. QED
      BY <1>4, <2>2, <3>1 DEF TM!Next, TM!Dispatch
  <2>3. QED
    BY <1>11, <2>1, <2>2 DEF QueueDispatches
<1>12. CASE Queue
  BY <1>4, <1>11, <1>12
     DEF Queue, QueueSchedules, QueueTakesSignal, QueueExecutes, TM!Next
<1>13. ASSUME NEW g, EngineRuns(g) PROVE QueueMoves
  BY <1>3, <1>13 DEF EngineRuns
<1>14. CASE Bot
  <2>1. CASE Connects \/ Disconnects
    BY <1>4, <2>1 DEF Connects, Disconnects, TM!Next
  <2>2. ASSUME UNCHANGED outsideBot PROVE QueueMoves
    BY <1>3, <2>2 DEF outsideBot
  <2>3. QED
    BY <1>14, <2>1, <2>2
       DEF Bot, Deliver, BotFinishes, BotReports, BotPanics, BotCalms, BotDies, BotRespawns
<1>15. CASE Outside
  <2>1. CASE DedupWindowCloses
    BY <1>4, <2>1 DEF DedupWindowCloses, TM!Next
  <2>2. ASSUME NEW id, PreEscape(id) \/ LooksAndAsks(id) \/ FilterForgets(id)
        PROVE  QueueMoves
    BY <1>3, <2>2 DEF PreEscape, LooksAndAsks, FilterForgets
  <2>3. ASSUME NEW id, PlanArrives(id) \/ WatchdogFires(id) PROVE QueueMoves
    BY <1>3, <2>3 DEF PlanArrives, WatchdogFires
  <2>4. ASSUME NEW r, HaltArrives(r) PROVE QueueMoves
    BY <1>3, <2>4 DEF HaltArrives
  <2>5. CASE PanicResolved \/ EngineCleansUp
    BY <1>3, <2>5 DEF PanicResolved, EngineCleansUp
  <2>6. QED
    BY <1>15, <2>1, <2>2, <2>3, <2>4, <2>5
       DEF Outside, CheckProactiveFarming, IngestControlInput
<1>16. CASE UNCHANGED vars
  BY <1>3, <1>16 DEF vars
<1>17. QED
  BY <1>10, <1>12, <1>13, <1>14, <1>15, <1>16 DEF Next

Q == INSTANCE TaskManager_proofs WITH DangerSafe <- FALSE

QueueSafe == TM!NoLostWakeup /\ TM!ContextsAccountedFor /\ TM!PoppedOutranksActive

GivesUp == pc = "dispatch" /\ pc' = "select"
PutBack == queue'[item] = queue[item] + 1 \/ (~ready /\ active # NoItem)

(* What TaskManager_proofs shows of a step of the queue holds of its steps  *)
(* inside the pipeline.                                                     *)
LEMMA QueueLemmas ==
    ASSUME TM!TypeOK, QueueMoves
    PROVE  /\ QueueSafe => QueueSafe'
           /\ QueueSafe /\ GivesUp => PutBack
<1>1. Q!ItemAssumption
  BY PipelineAssumption, QueueAssumption
     DEF Q!ItemAssumption, Item, PlanItem, RetryItem, DriftItem, Curiosity
<1>2. Q!CtxAssumption /\ Q!BoundAssumption
  BY QueueAssumption DEF Q!CtxAssumption, Q!BoundAssumption
<1>3. Q!TypeOK
  BY DEF TM!TypeOK, Q!TypeOK
<1>4. [Q!Next]_Q!vars
  <2>1. TM!Next => Q!Next
    BY DEF TM!Next, Q!Next, TM!IDs, Q!IDs, TM!Enqueue, Q!Enqueue, TM!EnqueueScheduled,
       Q!EnqueueScheduled, TM!CompleteSuccess, Q!CompleteSuccess, TM!CompleteFailure,
       Q!CompleteFailure, TM!Completes, Q!Completes, TM!Halt, Q!Halt,
       TM!ProcessScheduled, Q!ProcessScheduled, TM!IdleCheck, Q!IdleCheck,
       TM!ShouldRunCuriosity, Q!ShouldRunCuriosity, TM!TakeSignal, Q!TakeSignal,
       TM!Pops, Q!Pops, TM!NothingOutranksActive, Q!NothingOutranksActive, TM!IsRoot,
       Q!IsRoot, TM!Dispatch, Q!Dispatch, TM!DispatchDrop, Q!DispatchDrop,
       TM!DispatchPushBack, Q!DispatchPushBack, TM!DispatchActivate,
       Q!DispatchActivate, TM!Preempts, Q!Preempts, TM!Execute, Q!Execute,
       TM!DedupWindowCloses, Q!DedupWindowCloses, TM!IdleElapses, Q!IdleElapses,
       TM!BackoffEnds, Q!BackoffEnds, TM!ControllerChanges, Q!ControllerChanges,
       TM!Push, Q!Push, TM!Remove, Q!Remove, TM!IsEmpty, Q!IsEmpty, TM!EmptyQueue,
       Q!EmptyQueue, TM!CancelActive, Q!CancelActive, TM!ctxVars, Q!ctxVars,
       TM!runVars, Q!runVars, TM!idleVars, Q!idleVars
  <2>2. QED
    BY <2>1 DEF QueueMoves, tmVars, Q!vars, Q!ctxVars, Q!runVars, Q!idleVars
<1>5. /\ TM!NoLostWakeup = Q!NoLostWakeup
      /\ TM!ContextsAccountedFor = Q!ContextsAccountedFor
      /\ TM!PoppedOutranksActive = Q!PoppedOutranksActive
  BY DEF TM!NoLostWakeup, Q!NoLostWakeup, TM!IsEmpty, Q!IsEmpty, TM!ContextsAccountedFor,
         Q!ContextsAccountedFor, TM!PoppedOutranksActive, Q!PoppedOutranksActive
<1>6. /\ TM!NoLostWakeup' = Q!NoLostWakeup'
      /\ TM!ContextsAccountedFor' = Q!ContextsAccountedFor'
      /\ TM!PoppedOutranksActive' = Q!PoppedOutranksActive'
  BY DEF TM!NoLostWakeup, Q!NoLostWakeup, TM!IsEmpty, Q!IsEmpty, TM!ContextsAccountedFor,
         Q!ContextsAccountedFor, TM!PoppedOutranksActive, Q!PoppedOutranksActive
<1>7. QueueSafe => QueueSafe'
  <2>1. Q!NoLostWakeup => Q!NoLostWakeup'
    BY <1>1, <1>2, <1>3, <1>4, Q!WakeupKept
  <2>2. Q!ContextsAccountedFor => Q!ContextsAccountedFor'
    BY <1>1, <1>2, <1>3, <1>4, Q!ContextKept
  <2>3. Q!PoppedOutranksActive => Q!PoppedOutranksActive'
    BY <1>1, <1>2, <1>3, <1>4, Q!UrgencyKept
  <2>4. QED
    BY <1>5, <1>6, <2>1, <2>2, <2>3 DEF QueueSafe
<1>8. QueueSafe /\ GivesUp => PutBack
  BY <1>1, <1>2, <1>3, <1>4, <1>5, Q!PoppedKept DEF QueueSafe, GivesUp, PutBack
<1>9. QED
  BY <1>7, <1>8

(* The dispatch queue keeps its promises under the callers it really has:   *)
(* no wakeup of Run is lost, contexts are those of active tasks, and what   *)
(* Run has popped outranks the active task, for whatever the handlers, the  *)
(* drifts, the retries and the bot's connection do to it.                   *)
THEOREM QueueKeepsItsWord ==
    Spec => [](TM!NoLostWakeup /\ TM!ContextsAccountedFor /\ TM!PoppedOutranksActive)
<1>1. ASSUME Init PROVE QueueSafe
  <2>1. /\ queue = [i \in Item |-> 0] /\ active = NoItem /\ liveCtx = {} /\ pc = "select"
    BY <1>1 DEF Init, TM!EmptyInit, TM!EmptyQueue
  <2>2. QED
    BY <2>1 DEF QueueSafe, TM!NoLostWakeup, TM!IsEmpty, TM!ContextsAccountedFor,
                TM!PoppedOutranksActive
<1>2. ASSUME ClearedInv, QueueSafe, [Next]_vars PROVE QueueSafe'
  <2>1. TM!TypeOK /\ QueueMoves
    BY <1>2, PipelineAssumption, QueueMovesOn DEF ClearedInv, QueueInv
  <2>2. QED
    BY <1>2, <2>1, QueueLemmas
<1>3. QueueSafe => TM!NoLostWakeup /\ TM!ContextsAccountedFor /\ TM!PoppedOutranksActive
  BY DEF QueueSafe
<1>4. QED
  BY <1>1, <1>2, <1>3, AlwaysCleared, PTL DEF Spec

(* In the pipeline, too, Run forgets nothing it has popped, but in front of *)
(* an active task while no bot is connected.                                *)
THEOREM NothingPoppedIsLost == Spec => TM!PoppedNotForgotten
<1> DEFINE Kept == GivesUp => PutBack
<1>1. ASSUME ClearedInv, QueueSafe, [Next]_vars
      PROVE  [Kept]_TM!vars
  <2>1. TM!TypeOK /\ QueueMoves
    BY <1>1, PipelineAssumption, QueueMovesOn DEF ClearedInv, QueueInv
  <2>2. QED
    BY <1>1, <2>1, QueueLemmas
<1>2. QueueSafe <=> (TM!NoLostWakeup /\ TM!ContextsAccountedFor /\ TM!PoppedOutranksActive)
  BY DEF QueueSafe
<1>3. QED
  BY <1>1, <1>2, AlwaysCleared, QueueKeepsItsWord, PTL
     DEF Spec, TM!PoppedNotForgotten, GivesUp, PutBack

(* Every step of the pipeline calls the engine with one of its actions, lets *)
(* a goroutine go on, takes a message, or leaves the engine alone.           *)
LEMMA EngineCalled ==
    ASSUME PipelineAssumption, ClearedInv, [Next]_vars
    PROVE  EngineStep(Id)
<1> USE PipelineAssumption
<1>1. ClearedInv /\ ClearedInv' /\ Cleared \subseteq Id /\ Cleared' \subseteq Id
  <2>1. ClearedInv'
    BY ClearedKept
  <2>2. Cleared' \subseteq Id
    BY <2>1 DEF ClearedInv, LeaseInv, Cleared, Id
  <2>3. QED
    BY <2>1, <2>2, ClearedIsTyped
<1>2. ASSUME UNCHANGED enVars PROVE EngineStep(Id)
  BY <1>2 DEF EngineStep, enVars
<1>3. ASSUME NEW id \in Id, Approve(id) PROVE EngineStep(Id)
  BY <1>3 DEF Approve, EngineStep
<1>4. Deny => EngineStep(Id)
  BY <1>2 DEF Deny
<1>5. ASSUME NEW reason \in Reason, EN!Send(EN!Aborted(reason)), UNCHANGED <<inFlight, threads>>
      PROVE  EngineStep(Id)
  <2>1. EN!Aborted(reason) \in Messages(Id)
    BY DEF EN!Aborted, Messages
  <2>2. QED
    BY <1>5, <2>1 DEF EngineStep
<1>6. ASSUME NEW reason, AbortActive(reason), UNCHANGED <<threads, outbox>>
      PROVE  EngineStep(Id)
  BY <1>6 DEF AbortActive, EN!ForgetInFlight, EngineStep
<1>7. CASE SendAbort
  <2>1. aborting \in Reason
    BY <1>1, <1>7 DEF SendAbort, ClearedInv, LeaseInv
  <2>2. QED
    BY <1>5, <1>7, <2>1 DEF SendAbort
<1>8. CASE PlanRequests
  <2>1. planning.id \in Id
    BY <1>1, <1>8 DEF PlanRequests, ClearedInv, HandlerInv, Resting, Id
  <2>2. QED
    BY <1>3, <1>4, <1>8, <2>1 DEF PlanRequests
<1>9. CASE PanicRequests
  <2>1. \A id \in ReflexId : id \in Id
    BY DEF Id
  <2>2. QED
    BY <1>3, <1>4, <1>9, <2>1 DEF PanicRequests
<1>10. CASE StartHandled \/ EndHandled
  BY <1>10 DEF StartHandled, EndHandled, EngineStep
<1>11. CASE Server
  <2>1. ASSUME NEW r, HaltHalts(r) PROVE EngineStep(Id)
    BY <1>6, <2>1 DEF HaltHalts
  <2>2. ASSUME NEW r, HaltClears(r) PROVE EngineStep(Id)
    BY <1>2, <2>2 DEF HaltClears
  <2>3. CASE \/ PlanDrifts \/ PlanEnqueues \/ StartLooks \/ RegisterWatchdog
             \/ EndCompletes \/ EndAdapts
    BY <1>2, <2>3
       DEF PlanDrifts, PlanEnqueues, StartLooks, RegisterWatchdog, EndCompletes, EndAdapts
  <2>4. ASSUME NEW id \in Id, Answered(id) PROVE EngineStep(Id)
    BY <1>3, <1>4, <2>4 DEF Answered
  <2>5. QED
    BY <1>7, <1>8, <1>9, <1>10, <1>11, <2>1, <2>2, <2>3, <2>4 DEF Server
<1>12. CASE QueueTakesSignal
  <2>1. UNCHANGED enVars \/ \E i \in Item : queue'[i] > 0 /\ EN!Preload(i.id)
    BY <1>12 DEF QueueTakesSignal, TM!IsRoot
  <2>2. \A i \in Item : queue'[i] > 0 => i.id \in Id
    BY <1>1 DEF ClearedInv, QueueInv
  <2>3. QED
    BY <1>2, <2>1, <2>2 DEF EngineStep
<1>13. CASE QueueDispatches
  BY <1>6, <1>13 DEF QueueDispatches, EngineStep
<1>14. CASE QueueExecutes
  <2>1. item.id \in Id /\ itemCtx \in Ctx
    BY <1>1, <1>14 DEF QueueExecutes, TM!Execute, ClearedInv, QueueInv, TM!TypeOK
  <2>2. QED
    BY <1>14, <2>1 DEF QueueExecutes, EngineStep
<1>15. CASE Queue
  BY <1>2, <1>12, <1>13, <1>14, <1>15 DEF Queue, QueueSchedules
<1>16. ASSUME NEW g \in threads, EngineRuns(g) PROVE EngineStep(Id)
  BY <1>16 DEF EngineRuns, EngineStep
<1>17. CASE Bot
  <2>1. CASE Deliver
    BY <2>1 DEF Deliver, outsideBot, EngineStep
  <2>2. ASSUME UNCHANGED outsideBot, UNCHANGED outbox PROVE EngineStep(Id)
    BY <2>2 DEF outsideBot, EngineStep
  <2>3. CASE Connects \/ Disconnects
    BY <1>2, <2>3 DEF Connects, Disconnects
  <2>4. QED
    BY <1>17, <2>1, <2>2, <2>3
       DEF Bot, BotFinishes, BotReports, BotPanics, BotCalms, BotDies, BotRespawns
<1>18. CASE Outside
  <2>1. ASSUME NEW id \in EscapeId, PreEscape(id) PROVE EngineStep(Id)
    <3>1. id \in Id
      BY DEF Id
    <3>2. QED
      BY <1>3, <2>1, <3>1 DEF PreEscape
  <2>2. ASSUME NEW id, WatchdogFires(id) PROVE EngineStep(Id)
    <3>1. "DEADLINE_EXCEEDED" \in Reason
      BY DEF Reason
    <3>2. QED
      BY <1>5, <2>2, <3>1 DEF WatchdogFires
  <2>3. CASE EngineCleansUp
    BY <2>3 DEF EngineCleansUp, EN!CheckStuckTasks, EngineStep
  <2>4. ASSUME NEW id, PlanArrives(id) PROVE EngineStep(Id)
    BY <1>2, <2>4 DEF PlanArrives
  <2>5. ASSUME NEW r, HaltArrives(r) PROVE EngineStep(Id)
    BY <1>2, <2>5 DEF HaltArrives
  <2>6. ASSUME NEW id, LooksAndAsks(id) \/ FilterForgets(id) PROVE EngineStep(Id)
    BY <1>2, <2>6 DEF LooksAndAsks, FilterForgets
  <2>8. CASE PanicResolved \/ DedupWindowCloses
    BY <1>2, <2>8 DEF PanicResolved, DedupWindowCloses
  <2>7. QED
    BY <1>18, <2>1, <2>2, <2>3, <2>4, <2>5, <2>6, <2>8
       DEF Outside, CheckProactiveFarming, IngestControlInput
<1>19. CASE UNCHANGED vars
  BY <1>2, <1>19 DEF vars
<1>20. QED
  BY <1>11, <1>15, <1>16, <1>17, <1>18, <1>19 DEF Next

(* Such a step leaves no record without a goroutine.                        *)
LEMMA WatchKept ==
    ASSUME NEW A, EngineTypes(A, inFlight, threads, outbox), EngineStep(A), EN!InFlightWatched
    PROVE  EN!InFlightWatched'
<1> DEFINE Watches(g, id) == g.id = id /\ g.pc \in {"dispatch", "loop"}
<1>1. /\ inFlight \in [id : A, started : BOOLEAN] \union {NoTask}
      /\ threads \subseteq [id : A, ctx : Ctx \union {Background}, n : 1..MaxThreads,
                            pc : {"dispatch", "loop", "abort", "preload"}]
      /\ inFlight # NoTask => \E g \in threads : Watches(g, inFlight.id)
  BY DEF EngineTypes, EN!InFlightWatched
<1>2. ASSUME inFlight' # NoTask => \E g \in threads' : Watches(g, inFlight'.id)
      PROVE  EN!InFlightWatched'
  BY <1>2 DEF EN!InFlightWatched
<1>3. ASSUME inFlight' # NoTask => inFlight # NoTask /\ inFlight'.id = inFlight.id,
             \A g \in threads : Watches(g, inFlight.id) =>
                                  \E h \in threads' : Watches(h, inFlight.id)
      PROVE  EN!InFlightWatched'
  BY <1>1, <1>2, <1>3
<1>4. ASSUME NEW ctx, NEW id, NEW label, EN!Spawn(id, ctx, label)
      PROVE  threads \subseteq threads' /\ \E g \in threads' : g.id = id /\ g.pc = label
  <2> DEFINE n0 == CHOOSE n \in {n \in 1..MaxThreads :
                       \A g \in threads : (g.id = id /\ g.ctx = ctx) => g.n # n} : TRUE
             new == [id |-> id, ctx |-> ctx, n |-> n0, pc |-> label]
  <2>1. threads' = threads \union {new}
    BY <1>4 DEF EN!Spawn
  <2>2. new.id = id /\ new.pc = label
    OBVIOUS
  <2> HIDE DEF new
  <2>3. QED
    BY <2>1, <2>2
<1> HIDE DEF Watches
<1>5. ASSUME NEW ctx, NEW id, EN!ExecuteAsync(ctx, id) PROVE EN!InFlightWatched'
  <2>1. inFlight'.id = id
    BY <1>5 DEF EN!ExecuteAsync
  <2>2. QED
    BY <1>2, <1>4, <1>5, <2>1 DEF EN!ExecuteAsync, Watches
<1>6. ASSUME UNCHANGED inFlight, threads \subseteq threads' PROVE EN!InFlightWatched'
  BY <1>3, <1>6
<1>7. ASSUME NEW id, EN!Preload(id) PROVE EN!InFlightWatched'
  <2>1. threads \subseteq threads' /\ UNCHANGED inFlight
    BY <1>4, <1>7 DEF EN!Preload
  <2>2. QED
    BY <1>6, <2>1
<1>8. ASSUME NEW id, EN!OnTaskStart(id) \/ EN!OnTaskEnd(id) PROVE EN!InFlightWatched'
  <2>1. UNCHANGED threads
    BY <1>8 DEF EN!OnTaskStart, EN!OnTaskEnd
  <2>2. inFlight' # NoTask => inFlight # NoTask /\ inFlight'.id = inFlight.id
    BY <1>1, <1>8 DEF EN!OnTaskStart, EN!OnTaskEnd, EN!InFlight
  <2>3. QED
    BY <1>3, <2>1, <2>2
<1>9. ASSUME inFlight' = NoTask PROVE EN!InFlightWatched'
  BY <1>2, <1>9
<1>10. ASSUME NEW g \in threads, EN!ThreadStep(g) PROVE EN!InFlightWatched'
  <2>1. ASSUME UNCHANGED inFlight, NEW left \in SUBSET threads', left = threads \ {g},
               ~Watches(g, inFlight.id)
        PROVE  EN!InFlightWatched'
    BY <1>3, <2>1
  <2>2. CASE EN!ThreadDispatch(g)
    <3> DEFINE moved == [g EXCEPT !.pc = "loop"]
    <3>1. UNCHANGED inFlight /\ threads' = (threads \ {g}) \union {moved}
      BY <2>2 DEF EN!ThreadDispatch, EN!GoTo
    <3>2. moved.id = g.id /\ moved.pc = "loop"
      BY <1>1
    <3> HIDE DEF moved
    <3>3. QED
      BY <1>3, <3>1, <3>2 DEF Watches
  <2>3. CASE EN!ThreadPreload(g) \/ EN!ThreadAbort(g)
    BY <2>1, <2>3 DEF EN!ThreadPreload, EN!ThreadAbort, EN!At, EN!Exit, Watches
  <2>4. CASE EN!ThreadCancelled(g)
    BY <1>9, <2>4 DEF EN!ThreadCancelled, EN!ForgetInFlight
  <2>5. CASE EN!ThreadExit(g)
    <3>1. inFlight = NoTask \/ ~Watches(g, inFlight.id)
      BY <2>5 DEF EN!ThreadExit, EN!InFlight, Watches
    <3>2. UNCHANGED inFlight /\ threads' = threads \ {g}
      BY <2>5 DEF EN!ThreadExit, EN!Exit
    <3>3. QED
      BY <1>9, <2>1, <3>1, <3>2
  <2>6. QED
    BY <1>10, <2>2, <2>3, <2>4, <2>5 DEF EN!ThreadStep
<1>11. QED
  BY <1>5, <1>6, <1>7, <1>8, <1>9, <1>10 DEF EngineStep

(* Whatever the handlers, the queue, preemption and the cleanup do to it    *)
(* concurrently, a task in flight has a goroutine that dispatches or        *)
(* watches it.                                                              *)
THEOREM FlightIsWatched == Spec => []EN!InFlightWatched
<1>1. Init => EN!InFlightWatched
  BY DEF Init, EN!Init, EN!InFlightWatched
<1>2. ASSUME ClearedInv, EN!InFlightWatched, [Next]_vars PROVE EN!InFlightWatched'
  <2>1. EngineTypes(Id, inFlight, threads, outbox)
    BY <1>2, PipelineAssumption, ClearedIsTyped, EngineWidens DEF ClearedInv, EngineInv
  <2>2. EngineStep(Id)
    BY <1>2, PipelineAssumption, EngineCalled
  <2>3. QED
    BY <1>2, <2>1, <2>2, WatchKept
<1>3. QED
  BY <1>1, <1>2, AlwaysCleared, PTL DEF Spec

=============================================================================
