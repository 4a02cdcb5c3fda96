-------------------------- MODULE DecisionLoop_proofs --------------------------
(***************************************************************************)
(* The flag of the decision actor and the IDs of its plans, for any        *)
(* objectives, tags, items, plan lengths and mailbox bounds.  For the flag *)
(* what a message carries plays no part: the mailbox is any sequence, and  *)
(* only where its PlanReady messages stand is followed.                    *)
(***************************************************************************)
EXTENDS DecisionLoop, TLAPS, FiniteSetTheorems

AnswersIn(q) == {n \in DOMAIN q : q[n].type = "PlanReady"}

Stages == [at : {"rest", "lookup", "once", "ask"}, key : Key \union {"past"}]

(* A message that is appended is the only place where answers may change.   *)
LEMMA AppendedAnswers ==
    ASSUME NEW S, NEW q \in Seq(S), NEW m
    PROVE  /\ Append(q, m) \in Seq(S \union {m})
           /\ m.type # "PlanReady" => AnswersIn(Append(q, m)) = AnswersIn(q)
           /\ m.type = "PlanReady" =>
                AnswersIn(Append(q, m)) = AnswersIn(q) \union {Len(q) + 1}
<1>1. q \in Seq(S \union {m})
  OBVIOUS
<1>2. Append(q, m) \in Seq(S \union {m}) /\ Len(Append(q, m)) = Len(q) + 1
  BY <1>1
<1>3. Append(q, m)[Len(q) + 1] = m /\ \A n \in 1..Len(q) : Append(q, m)[n] = q[n]
  BY <1>1
<1>4. DOMAIN q = 1..Len(q) /\ DOMAIN Append(q, m) = 1..(Len(q) + 1) /\ Len(q) \in Nat
  BY <1>1, <1>2
<1>5. DOMAIN Append(q, m) = DOMAIN q \union {Len(q) + 1}
  BY <1>4
<1>6. QED
  BY <1>2, <1>3, <1>4, <1>5 DEF AnswersIn

(* Handling the head moves the answers behind it one place forward; what    *)
(* the handler sends adds none.                                             *)
LEMMA HandledAnswers ==
    ASSUME NEW S, NEW q \in Seq(S), q # << >>, NEW T, NEW ms \in Seq(T),
           \A n \in 1..Len(ms) : ms[n].type # "PlanReady"
    PROVE  /\ \E U : Tail(q) \o ms \in Seq(U)
           /\ AnswersIn(Tail(q) \o ms) = {n \in 1..(Len(q) - 1) : n + 1 \in AnswersIn(q)}
<1> DEFINE next == Tail(q) \o ms
<1>1. q \in Seq(S \union T) /\ ms \in Seq(S \union T) /\ Len(q) \in Nat \ {0}
      /\ Len(ms) \in Nat
  OBVIOUS
<1>2. Tail(q) \in Seq(S \union T) /\ Len(Tail(q)) = Len(q) - 1
      /\ \A n \in 1..(Len(q) - 1) : Tail(q)[n] = q[n + 1]
  BY <1>1
<1>3. next \in Seq(S \union T) /\ Len(next) = Len(q) - 1 + Len(ms)
  BY <1>1, <1>2
<1>4. ASSUME NEW n \in 1..Len(next)
      PROVE  next[n] = IF n <= Len(q) - 1 THEN q[n + 1] ELSE ms[n - (Len(q) - 1)]
  BY <1>1, <1>2, <1>3
<1>5. DOMAIN next = 1..Len(next) /\ DOMAIN q = 1..Len(q)
  BY <1>1, <1>3
<1>6. ASSUME NEW n \in 1..Len(next), n > Len(q) - 1
      PROVE  next[n].type # "PlanReady"
  <2>1. n - (Len(q) - 1) \in 1..Len(ms)
    BY <1>1, <1>3, <1>6
  <2>2. next[n] = ms[n - (Len(q) - 1)]
    BY <1>1, <1>4, <1>6
  <2>3. QED
    BY <2>1, <2>2
<1>7. ASSUME NEW n \in 1..(Len(q) - 1)
      PROVE  n \in 1..Len(next) /\ next[n] = q[n + 1] /\ n + 1 \in 1..Len(q)
  BY <1>1, <1>3, <1>4
<1>8. \A n : n \in AnswersIn(next) <=> n \in 1..(Len(q) - 1) /\ n + 1 \in AnswersIn(q)
  <2>1. ASSUME NEW n \in AnswersIn(next)
        PROVE  n \in 1..(Len(q) - 1) /\ n + 1 \in AnswersIn(q)
    <3>1. n \in 1..Len(next) /\ next[n].type = "PlanReady"
      BY <1>5 DEF AnswersIn
    <3>2. n \in 1..(Len(q) - 1)
      BY <3>1, <1>1, <1>3, <1>6
    <3>3. QED
      BY <3>1, <3>2, <1>5, <1>7 DEF AnswersIn
  <2>2. ASSUME NEW n \in 1..(Len(q) - 1), n + 1 \in AnswersIn(q)
        PROVE  n \in AnswersIn(next)
    BY <2>2, <1>5, <1>7 DEF AnswersIn
  <2>3. QED
    BY <2>1, <2>2
<1>9. QED
  BY <1>3, <1>8

-----------------------------------------------------------------------------
(* OneEvaluation with what an induction needs besides: the mailbox is a     *)
(* sequence, and the goroutine is at one of its stages.                     *)
EvaluationInv ==
    /\ \E S : mailbox \in Seq(S)
    /\ generating \in Stages /\ evaluating \in BOOLEAN
    /\ OneEvaluation

(* What arrives is no answer of the planner.                                *)
LEMMA ArrivalKeeps ==
    ASSUME EvaluationInv, NEW ev, Arrives(ev), ev.type # "PlanReady"
    PROVE  EvaluationInv'
<1>1. PICK S : mailbox \in Seq(S)
  BY DEF EvaluationInv
<1>2. mailbox' \in Seq(S \union {ev}) /\ Answers' = Answers
  BY <1>1, AppendedAnswers DEF Arrives, Answers, AnswersIn
<1>3. UNCHANGED <<generating, evaluating>>
  BY DEF Arrives, actorVars, plannerVars
<1>4. QED
  BY <1>2, <1>3 DEF EvaluationInv, OneEvaluation

(* A handler that sends no answer, handles none and leaves flag and         *)
(* goroutine alone keeps the invariant.                                     *)
LEMMA HandlingMoves ==
    ASSUME EvaluationInv, mailbox # << >>, NEW T, NEW ms \in Seq(T), Send(ms),
           \A n \in 1..Len(ms) : ms[n].type # "PlanReady"
    PROVE  /\ \E U : mailbox' \in Seq(U)
           /\ Head(mailbox).type # "PlanReady" => (Answers' = {}) <=> (Answers = {})
           /\ Head(mailbox).type = "PlanReady" => Answers' = {}
           /\ \A m, n \in Answers' : m = n
<1>1. PICK S : mailbox \in Seq(S)
  BY DEF EvaluationInv
<1>2. /\ \E U : mailbox' \in Seq(U)
      /\ Answers' = {n \in 1..(Len(mailbox) - 1) : n + 1 \in Answers}
  <2>1. /\ \E U : Tail(mailbox) \o ms \in Seq(U)
        /\ AnswersIn(Tail(mailbox) \o ms) =
             {n \in 1..(Len(mailbox) - 1) : n + 1 \in AnswersIn(mailbox)}
    BY <1>1, HandledAnswers
  <2>2. mailbox' = Tail(mailbox) \o ms
    BY DEF Send
  <2>3. Answers = AnswersIn(mailbox) /\ Answers' = AnswersIn(mailbox')
    BY DEF Answers, AnswersIn
  <2>4. QED
    BY <2>1, <2>2, <2>3
<1>3. Answers \subseteq 1..Len(mailbox) /\ Len(mailbox) \in Nat \ {0}
      /\ (1 \in Answers <=> Head(mailbox).type = "PlanReady")
  BY <1>1 DEF Answers
<1>4. \A m, n \in Answers : m = n
  BY DEF EvaluationInv, OneEvaluation
<1>5. \A m, n \in Answers' : m = n
  BY <1>2, <1>3, <1>4
<1>6. ASSUME Head(mailbox).type = "PlanReady" PROVE Answers' = {}
  BY <1>2, <1>3, <1>4, <1>6
<1>7. ASSUME Head(mailbox).type # "PlanReady" PROVE (Answers' = {}) <=> (Answers = {})
  <2>1. ASSUME NEW n \in Answers PROVE n - 1 \in Answers'
    BY <1>2, <1>3, <1>7
  <2>2. QED
    BY <2>1, <1>2
<1>8. QED
  BY <1>2, <1>5, <1>6, <1>7

(* A call of Generate that returns hands its evaluation over to the answer. *)
LEMMA FinishKeeps ==
    ASSUME EvaluationInv, generating.at # "rest", NEW p, Finish(p), UNCHANGED evaluating
    PROVE  EvaluationInv'
<1> DEFINE answer == [type |-> "PlanReady", plan |-> p]
<1>1. PICK S : mailbox \in Seq(S)
  BY DEF EvaluationInv
<1>2. mailbox' = Append(mailbox, answer) /\ generating' = Idle
  BY DEF Finish
<1>3. answer.type = "PlanReady"
  OBVIOUS
<1> HIDE DEF answer
<1>4. mailbox' \in Seq(S \union {answer}) /\ Answers' = Answers \union {Len(mailbox) + 1}
  BY <1>1, <1>2, <1>3, AppendedAnswers DEF Answers, AnswersIn
<1>5. Answers = {} /\ evaluating = TRUE
  BY DEF EvaluationInv, OneEvaluation
<1>6. Idle \in Stages /\ Idle.at = "rest"
  BY DEF Idle, Stages, Key
<1>7. QED
  BY <1>2, <1>4, <1>5, <1>6 DEF EvaluationInv, OneEvaluation

LEMMA EvaluationStarts == Init => EvaluationInv
<1> SUFFICES ASSUME Init PROVE EvaluationInv
  OBVIOUS
<1>1. mailbox \in Seq({EvalTrigger}) /\ Answers = {}
  BY DEF Init, Answers
<1>2. generating \in Stages /\ generating.at = "rest" /\ evaluating = FALSE
  BY DEF Init, Idle, Stages, Key
<1>3. QED
  BY <1>1, <1>2 DEF EvaluationInv, OneEvaluation

LEMMA EvaluationStays == EvaluationInv /\ [Next]_vars => EvaluationInv'
<1> SUFFICES ASSUME EvaluationInv, [Next]_vars PROVE EvaluationInv'
  OBVIOUS
<1>1. CASE StateUpdated
  <2>1. PICK s \in GameState :
           Arrives([type |-> "STATE_UPDATED", payload |-> [Version |-> 1, State |-> s]])
    BY <1>1 DEF StateUpdated
  <2>2. QED
    BY <2>1, ArrivalKeeps
<1>2. CASE TaskEnded
  <2>1. PICK id \in (running \X (1..MaxTasks)) \union {NoTask}, ok \in BOOLEAN :
           Arrives([type |-> "TASK_END", id |-> id, success |-> ok])
    BY <1>2 DEF TaskEnded
  <2>2. QED
    BY <2>1, ArrivalKeeps
<1>3. CASE BotDies
  BY <1>3, ArrivalKeeps DEF BotDies
<1>4. CASE RequestEvaluation
  BY <1>4, ArrivalKeeps DEF RequestEvaluation, EvalTrigger
<1>5. ASSUME mailbox # << >>, NEW T, NEW ms \in Seq(T), Send(ms),
             \A n \in 1..Len(ms) : ms[n].type # "PlanReady",
             Head(mailbox).type # "PlanReady", UNCHANGED <<generating, evaluating>>
      PROVE  EvaluationInv'
  BY <1>5, HandlingMoves DEF EvaluationInv, OneEvaluation
<1>6. ASSUME mailbox # << >>, NEW m, Send(<<m>>), m.type # "PlanReady",
             Head(mailbox).type # "PlanReady", UNCHANGED <<generating, evaluating>>
      PROVE  EvaluationInv'
  <2>1. <<m>> \in Seq({m}) /\ \A n \in 1..Len(<<m>>) : <<m>>[n].type # "PlanReady"
    BY <1>6
  <2>2. QED
    BY <1>5, <1>6, <2>1
<1>7. << >> \in Seq({EvalTrigger})
      /\ \A n \in 1..Len(<< >>) : << >>[n].type # "PlanReady"
  OBVIOUS
<1>8. CASE mailbox # << >>
           /\ (ReceiveEvent \/ ReceiveStateUpdate \/ ReceiveTaskEnd \/ ReceiveBotDeath)
  <2>1. UNCHANGED <<generating, evaluating>> /\ Head(mailbox).type # "PlanReady"
    BY <1>8 DEF ReceiveEvent, ReceiveStateUpdate, ReceiveTaskEnd, ReceiveBotDeath,
                actorVars, plannerVars
  <2>2. (\E m : m.type # "PlanReady" /\ Send(<<m>>)) \/ Send(<< >>)
    BY <1>8 DEF ReceiveEvent, ReceiveStateUpdate, ReceiveTaskEnd, ReceiveBotDeath,
                EvalTrigger
  <2>3. QED
    BY <1>5, <1>6, <1>7, <1>8, <2>1, <2>2
<1>9. CASE mailbox # << >> /\ ReceiveEvalTrigger
  <2>1. Send(<< >>) /\ Head(mailbox).type # "PlanReady"
    BY <1>9 DEF ReceiveEvalTrigger
  <2>2. /\ \E U : mailbox' \in Seq(U)
        /\ (Answers' = {}) <=> (Answers = {})
        /\ \A m, n \in Answers' : m = n
    BY <1>7, <1>9, <2>1, HandlingMoves
  <2>3. CASE ~evaluating
    <3>1. evaluating' = TRUE /\ generating' = [Idle EXCEPT !.at = "lookup"]
      BY <1>9, <2>3 DEF ReceiveEvalTrigger, MayEvaluate
    <3>2. generating' \in Stages /\ generating'.at = "lookup"
      BY <3>1 DEF Idle, Stages, Key
    <3>3. Answers = {}
      BY <2>3 DEF EvaluationInv, OneEvaluation
    <3>4. QED
      BY <2>2, <3>1, <3>2, <3>3 DEF EvaluationInv, OneEvaluation
  <2>4. CASE evaluating
    <3>1. UNCHANGED <<evaluating, generating>>
      BY <1>9, <2>4 DEF ReceiveEvalTrigger, MayEvaluate
    <3>2. QED
      BY <2>2, <3>1 DEF EvaluationInv, OneEvaluation
  <2>5. QED
    BY <2>3, <2>4
<1>10. CASE mailbox # << >> /\ ReceivePlanReady
  <2>1. Send(<< >>) /\ Head(mailbox).type = "PlanReady" /\ evaluating' = FALSE
        /\ UNCHANGED generating
    BY <1>10 DEF ReceivePlanReady, StillEvaluating, plannerVars
  <2>2. (\E U : mailbox' \in Seq(U)) /\ Answers' = {}
    BY <1>7, <1>10, <2>1, HandlingMoves
  <2>3. generating.at = "rest"
    <3>1. PICK S : mailbox \in Seq(S)
      BY DEF EvaluationInv
    <3>2. 1 \in Answers
      BY <1>10, <2>1, <3>1 DEF Answers
    <3>3. QED
      BY <3>2 DEF EvaluationInv, OneEvaluation
  <2>4. QED
    BY <2>1, <2>2, <2>3 DEF EvaluationInv, OneEvaluation
<1>11. ASSUME generating.at # "rest", UNCHANGED evaluating, \E p : Finish(p)
       PROVE  EvaluationInv'
  BY <1>11, FinishKeeps
<1>12. ASSUME generating.at # "rest", generating' \in Stages, generating'.at # "rest",
              UNCHANGED <<mailbox, evaluating>>
       PROVE  EvaluationInv'
  BY <1>12 DEF EvaluationInv, OneEvaluation, Answers
<1>13. CASE Generate
  <2>1. UNCHANGED evaluating /\ generating.at # "rest"
    BY <1>13 DEF Generate, LookUp, LookUpAgain, AnswerFails, AnswerHallucinated,
                 AnswerPlans, unchangedByPlanner, actorVars
  <2>2. \/ \E p : Finish(p)
        \/ \E k \in Key : generating' = [at |-> "once", key |-> k] /\ UNCHANGED mailbox
        \/ generating' = [generating EXCEPT !.at = "ask"] /\ UNCHANGED mailbox
    BY <1>13 DEF Generate, LookUp, LookUpAgain, AnswerFails, AnswerHallucinated,
                 AnswerPlans, Return
  <2>3. generating \in Stages
    BY DEF EvaluationInv
  <2>4. ASSUME NEW k \in Key, generating' = [at |-> "once", key |-> k]
        PROVE  generating' \in Stages /\ generating'.at # "rest"
    BY <2>4 DEF Stages
  <2>5. ASSUME generating' = [generating EXCEPT !.at = "ask"]
        PROVE  generating' \in Stages /\ generating'.at # "rest"
    BY <2>3, <2>5 DEF Stages
  <2>6. QED
    BY <1>11, <1>12, <2>1, <2>2, <2>4, <2>5
<1>14. ASSUME generating' \in Stages, generating'.at = generating.at,
              UNCHANGED <<mailbox, evaluating>>
       PROVE  EvaluationInv'
  BY <1>14 DEF EvaluationInv, OneEvaluation, Answers
<1>15. CASE EntryAges \/ UNCHANGED vars
  BY <1>14, <1>15 DEF EvaluationInv, EntryAges, unchangedByPlanner, actorVars, vars
<1>16. CASE KeyChanges
  <2>1. UNCHANGED <<mailbox, evaluating>> /\ generating \in Stages
    BY <1>16 DEF KeyChanges, unchangedByPlanner, actorVars, EvaluationInv
  <2>2. generating' \in Stages /\ generating'.at = generating.at
    BY <1>16, <2>1 DEF KeyChanges, Stages, Key
  <2>3. QED
    BY <1>14, <2>1, <2>2
<1>17. QED
  BY <1>1, <1>2, <1>3, <1>4, <1>8, <1>9, <1>10, <1>13, <1>15, <1>16
     DEF Next, Receive

(* One evaluation at a time, and none forgotten (service.go, the guard of   *)
(* the EvalTrigger handler and the reset of the PlanReady handler): while   *)
(* the flag is set, one goroutine plans or one answer is on its way.        *)
THEOREM EvaluationAccountedFor == Spec => []OneEvaluation
<1>1. EvaluationInv => OneEvaluation
  BY DEF EvaluationInv
<1>2. QED
  BY <1>1, EvaluationStarts, EvaluationStays, PTL DEF Spec

-----------------------------------------------------------------------------
(* The messages, as a set: what one of them carries, and what becomes of    *)
(* the mailbox when one arrives or is handled.                              *)
Messages(q) == {q[n] : n \in DOMAIN q}

LEMMA MessageFields ==
    /\ \A s \in GameState :
         /\ [type |-> "STATE_UPDATED", payload |-> [Version |-> 1, State |-> s]] \in Message
         /\ [type |-> "StateUpdate", state |-> s] \in Message
    /\ \A id \in Id \union {NoTask}, ok \in BOOLEAN :
         /\ [type |-> "TASK_END", id |-> id, success |-> ok] \in Message
         /\ [type |-> "TaskEnd", id |-> id, success |-> ok] \in Message
    /\ [type |-> "BOT_DEATH"] \in Message /\ [type |-> "BotDeath"] \in Message
    /\ EvalTrigger \in Message
    /\ \A p \in Plan \union {NoPlan} : [type |-> "PlanReady", plan |-> p] \in Message
    /\ \A m \in Message :
         /\ m.type = "STATE_UPDATED" => m.payload \in [Version : {1}, State : GameState]
         /\ m.type = "StateUpdate" => m.state \in GameState
         /\ m.type \in {"TASK_END", "TaskEnd"} =>
              m.id \in Id \union {NoTask} /\ m.success \in BOOLEAN
         /\ m.type = "PlanReady" => m.plan \in Plan \union {NoPlan}
  BY DEF Message, EvalTrigger

LEMMA MessageArrives ==
    ASSUME NEW S, NEW q \in Seq(S), NEW m \in S
    PROVE  /\ Append(q, m) \in Seq(S) /\ Len(Append(q, m)) = Len(q) + 1
           /\ Messages(Append(q, m)) \subseteq Messages(q) \union {m}
<1>0. \A u \in Seq(S) : \A e : e \in Messages(u) <=> \E i \in 1..Len(u) : u[i] = e
  BY DEF Messages
<1> DEFINE t == Append(q, m)
<1>1. /\ t \in Seq(S) /\ Len(t) = Len(q) + 1 /\ Len(q) \in Nat
      /\ \A i \in 1..Len(q) : t[i] = q[i]
      /\ t[Len(q) + 1] = m
  OBVIOUS
<1> HIDE DEF t
<1>2. ASSUME NEW d \in Messages(t) PROVE d \in Messages(q) \/ d = m
  <2>1. PICK i \in 1..Len(t) : t[i] = d
    BY <1>0, <1>1, <1>2
  <2>2. i \in 1..Len(q) \/ i = Len(q) + 1
    BY <1>1
  <2>3. QED
    BY <1>0, <1>1, <2>1, <2>2
<1>3. QED
  BY <1>1, <1>2 DEF t

LEMMA MessageHandled ==
    ASSUME NEW S, NEW q \in Seq(S), q # << >>, NEW m \in S
    PROVE  /\ Head(q) \in Messages(q) /\ Head(q) \in S
           /\ Tail(q) \o << >> \in Seq(S) /\ Len(Tail(q) \o << >>) = Len(q) - 1
           /\ Messages(Tail(q) \o << >>) \subseteq Messages(q)
           /\ Tail(q) \o <<m>> \in Seq(S) /\ Len(Tail(q) \o <<m>>) = Len(q)
           /\ Messages(Tail(q) \o <<m>>) \subseteq Messages(q) \union {m}
<1>0. \A u \in Seq(S) : \A e : e \in Messages(u) <=> \E i \in 1..Len(u) : u[i] = e
  BY DEF Messages
<1>1. ASSUME NEW ms \in Seq(S)
      PROVE  /\ Tail(q) \o ms \in Seq(S) /\ Len(Tail(q) \o ms) = Len(q) - 1 + Len(ms)
             /\ Messages(Tail(q) \o ms) \subseteq Messages(q) \union Messages(ms)
  <2> DEFINE t == Tail(q)  u == Tail(q) \o ms
  <2>1. /\ t \in Seq(S) /\ Len(t) = Len(q) - 1 /\ Len(q) \in Nat \ {0}
        /\ \A i \in 1..(Len(q) - 1) : t[i] = q[i + 1]
    OBVIOUS
  <2>2. /\ u \in Seq(S) /\ Len(u) = Len(t) + Len(ms) /\ Len(ms) \in Nat
        /\ \A i \in 1..Len(t) : u[i] = t[i]
        /\ \A i \in 1..Len(u) : i \notin 1..Len(t) =>
              i - Len(t) \in 1..Len(ms) /\ u[i] = ms[i - Len(t)]
    BY <2>1
  <2> HIDE DEF t, u
  <2>3. ASSUME NEW d \in Messages(u), d \notin Messages(ms) PROVE d \in Messages(q)
    <3>1. PICK i \in 1..Len(u) : u[i] = d
      BY <1>0, <2>2, <2>3
    <3>2. i \in 1..Len(t)
      BY <1>0, <2>2, <2>3, <3>1
    <3>3. i + 1 \in 1..Len(q) /\ q[i + 1] = d
      BY <2>1, <2>2, <3>1, <3>2
    <3>4. QED
      BY <1>0, <3>3
  <2>4. QED
    BY <2>1, <2>2, <2>3 DEF u
<1>2. << >> \in Seq(S) /\ Messages(<< >>) = {} /\ Len(<< >>) = 0
      /\ <<m>> \in Seq(S) /\ Messages(<<m>>) = {m} /\ Len(<<m>>) = 1
  BY DEF Messages
<1>3. /\ Tail(q) \o << >> \in Seq(S) /\ Len(Tail(q) \o << >>) = Len(q) - 1 + Len(<< >>)
      /\ Messages(Tail(q) \o << >>) \subseteq Messages(q) \union Messages(<< >>)
  BY <1>1, <1>2
<1>4. /\ Tail(q) \o <<m>> \in Seq(S) /\ Len(Tail(q) \o <<m>>) = Len(q) - 1 + Len(<<m>>)
      /\ Messages(Tail(q) \o <<m>>) \subseteq Messages(q) \union Messages(<<m>>)
  BY <1>1, <1>2
<1>5. Head(q) \in Messages(q) /\ Head(q) \in S /\ Len(q) \in Nat
  BY DEF Messages
<1>6. Len(Tail(q) \o << >>) = Len(q) - 1 /\ Len(Tail(q) \o <<m>>) = Len(q)
  BY <1>2, <1>3, <1>4, <1>5
<1>7. QED
  BY <1>2, <1>3, <1>4, <1>5, <1>6

MentionedIn(q) == UNION {Mentioned(q[n]) : n \in DOMAIN q}

LEMMA MentionedByMessages ==
    \A q, t : t \in MentionedIn(q) <=> \E m \in Messages(q) : t \in Mentioned(m)
  BY DEF MentionedIn, Messages

-----------------------------------------------------------------------------
(* What keeps the IDs apart: only two plans are still heard of, the active  *)
(* one among them; an answer on its way has one tag, which nothing has that *)
(* is still heard of; and the mailbox is short, so that there is always a   *)
(* tag left.                                                                *)
TwoPlans ==
    \E s, t \in Tag : running \subseteq {s, t} /\ Tags(activePlan) \subseteq running \intersect {t}

AnswersApart ==
    \A m \in Messages(mailbox) : m.type = "PlanReady" =>
        /\ \E t \in Tag : Tags(m.plan) \subseteq {t}
        /\ Tags(m.plan) \intersect Reported = {}

ShortMailbox == Len(mailbox) <= MaxMail + (IF Answers = {} THEN 0 ELSE 1)

PlanInv == TypeOK /\ EvaluationInv /\ TwoPlans /\ AnswersApart /\ ShortMailbox

LEMMA Plans ==
    /\ \A p \in Plan, t \in Tag :
         /\ ClonePlanWithNewIDs(p, t) \in Plan
         /\ Tags(ClonePlanWithNewIDs(p, t)) \subseteq {t}
    /\ \A p \in Plan \ {NoPlan} : p.tasks # << >> =>
         /\ [p EXCEPT !.tasks = Tail(p.tasks)] \in Plan
         /\ Tags([p EXCEPT !.tasks = Tail(p.tasks)]) \subseteq Tags(p)
    /\ \A o \in Objective : [objective |-> o, tasks |-> <<<<ModelTag, 1>>>>] \in Plan
    /\ Candidates \subseteq Plan
    /\ Tags(NoPlan) = {}
<1> DEFINE Lists == UNION {[1..n -> Id] : n \in 0..MaxTasks}
<1>0. MaxTasks \in Nat \ {0}
  BY DecisionAssumption
<1>1. \A l \in Lists : l \in Seq(Id) /\ Len(l) \in 0..MaxTasks
  <2>1. ASSUME NEW n \in 0..MaxTasks, NEW l \in [1..n -> Id]
        PROVE  l \in Seq(Id) /\ Len(l) = n
    BY <1>0
  <2>2. QED
    BY <2>1
<1>2. \A l \in Seq(Id) : Len(l) <= MaxTasks => l \in Lists
  <2>1. ASSUME NEW l \in Seq(Id), Len(l) <= MaxTasks
        PROVE  Len(l) \in 0..MaxTasks /\ l \in [1..Len(l) -> Id]
    BY <1>0, <2>1
  <2>2. QED
    BY <2>1
<1>3. Plan = [objective : Objective, tasks : Lists]
  BY DEF Plan
<1> HIDE DEF Lists
<1>4. ASSUME NEW p \in Plan, NEW t \in Tag
      PROVE  /\ ClonePlanWithNewIDs(p, t) \in Plan
             /\ Tags(ClonePlanWithNewIDs(p, t)) \subseteq {t}
  <2> DEFINE l == [n \in DOMAIN p.tasks |-> <<t, n>>]
  <2>1. p.tasks \in Seq(Id) /\ Len(p.tasks) \in 0..MaxTasks
    BY <1>1, <1>3
  <2>2. DOMAIN p.tasks = 1..Len(p.tasks) /\ Len(p.tasks) \in Nat
    BY <2>1
  <2>3. \A n \in 1..Len(p.tasks) : n \in 1..MaxTasks /\ <<t, n>> \in Id
    BY <1>0, <2>1 DEF Id
  <2>4. l \in Seq(Id) /\ Len(l) = Len(p.tasks)
    BY <2>2, <2>3
  <2>5. l \in Lists
    BY <1>0, <1>2, <2>1, <2>4
  <2>6. ClonePlanWithNewIDs(p, t) = [objective |-> p.objective, tasks |-> l]
    BY <1>3 DEF ClonePlanWithNewIDs
  <2>7. \A n \in DOMAIN l : l[n][1] = t
    OBVIOUS
  <2> HIDE DEF l
  <2>8. Ids([objective |-> p.objective, tasks |-> l]) \subseteq {l[n] : n \in DOMAIN l}
    BY DEF Ids
  <2>9. QED
    BY <1>3, <2>5, <2>6, <2>7, <2>8 DEF Tags
<1>5. ASSUME NEW p \in Plan \ {NoPlan}, p.tasks # << >>
      PROVE  /\ [p EXCEPT !.tasks = Tail(p.tasks)] \in Plan
             /\ Tags([p EXCEPT !.tasks = Tail(p.tasks)]) \subseteq Tags(p)
  <2> DEFINE l == p.tasks
  <2>1. l \in Seq(Id) /\ Len(l) \in 0..MaxTasks
    BY <1>1, <1>3
  <2>2. /\ Tail(l) \in Seq(Id) /\ Len(Tail(l)) = Len(l) - 1
        /\ \A n \in 1..(Len(l) - 1) : Tail(l)[n] = l[n + 1] /\ n + 1 \in 1..Len(l)
        /\ DOMAIN Tail(l) = 1..(Len(l) - 1) /\ DOMAIN l = 1..Len(l)
    BY <1>5, <2>1
  <2>3. Tail(l) \in Lists
    <3>1. Len(Tail(l)) <= MaxTasks
      BY <1>0, <2>1, <2>2
    <3>2. QED
      BY <1>2, <2>2, <3>1
  <2>4. p \in [objective : Objective, tasks : Lists]
    BY <1>3
  <2> HIDE DEF l
  <2>5. [p EXCEPT !.tasks = Tail(l)] = [objective |-> p.objective, tasks |-> Tail(l)]
    <3>1. \A q \in [objective : Objective, tasks : Lists] :
             \A u : [q EXCEPT !.tasks = u] = [objective |-> q.objective, tasks |-> u]
      OBVIOUS
    <3>2. QED
      BY <2>4, <3>1
  <2>6. Ids([objective |-> p.objective, tasks |-> Tail(l)]) \subseteq
          {Tail(l)[n] : n \in DOMAIN Tail(l)}
    BY DEF Ids
  <2>7. Ids(p) = {l[n] : n \in DOMAIN l}
    BY <1>5 DEF Ids, l
  <2>8. Ids([objective |-> p.objective, tasks |-> Tail(l)]) \subseteq Ids(p)
    BY <2>2, <2>6, <2>7
  <2>9. [p EXCEPT !.tasks = Tail(l)] \in Plan
        /\ Tags([p EXCEPT !.tasks = Tail(l)]) \subseteq Tags(p)
    BY <1>3, <2>3, <2>4, <2>5, <2>8 DEF Tags
  <2>10. QED
    BY <2>9 DEF l
<1>6. ASSUME NEW o \in Objective
      PROVE  [objective |-> o, tasks |-> <<<<ModelTag, 1>>>>] \in Plan
  <2>1. 1 \in 1..MaxTasks /\ <<ModelTag, 1>> \in Id
    BY <1>0 DEF Id
  <2>2. <<<<ModelTag, 1>>>> \in Seq(Id) /\ Len(<<<<ModelTag, 1>>>>) = 1
    BY <2>1
  <2>3. <<<<ModelTag, 1>>>> \in Lists
    BY <1>0, <1>2, <2>2
  <2>4. QED
    BY <1>3, <2>3
<1>7. Candidates \subseteq Plan
  <2>1. ASSUME NEW o \in Objective, NEW n \in 0..MaxTasks
        PROVE  [objective |-> o, tasks |-> [i \in 1..n |-> <<ModelTag, i>>]] \in Plan
    <3>1. \A i \in 1..n : i \in 1..MaxTasks /\ <<ModelTag, i>> \in Id
      BY <1>0 DEF Id
    <3>2. [i \in 1..n |-> <<ModelTag, i>>] \in [1..n -> Id]
      BY <3>1
    <3>3. [i \in 1..n |-> <<ModelTag, i>>] \in Lists
      BY <3>2 DEF Lists
    <3>4. QED
      BY <1>3, <3>3
  <2>2. QED
    BY <2>1 DEF Candidates
<1>8. Tags(NoPlan) = {}
  BY DEF Tags, Ids
<1>9. QED
  BY <1>4, <1>5, <1>6, <1>7, <1>8

(* Two plans and one mention for every message leave a tag over.            *)
LEMMA FreshTagIsFree ==
    ASSUME TypeOK, TwoPlans, Len(mailbox) <= MaxMail
    PROVE  FreshTag \in Tag /\ FreshTag \notin Reported
<1> DEFINE used == Reported \union Tags(activePlan)
<1>1. PICK s \in Tag, t \in Tag : running \subseteq {s, t} /\ Tags(activePlan) \subseteq {t}
  BY DEF TwoPlans
<1> DEFINE Of(n) == IF Mentioned(mailbox[n]) = {} THEN s
                    ELSE CHOOSE x \in Mentioned(mailbox[n]) : TRUE
           heard == {Of(n) : n \in 1..Len(mailbox)}
<1>2. Len(mailbox) \in Nat /\ DOMAIN mailbox = 1..Len(mailbox) /\ MaxMail \in Nat
  BY DecisionAssumption DEF TypeOK
<1>3. IsFiniteSet(heard) /\ Cardinality(heard) <= MaxMail /\ Cardinality(heard) \in Nat
  <2>1. IsFiniteSet(1..Len(mailbox)) /\ Cardinality(1..Len(mailbox)) = Len(mailbox)
    <3>1. 1 \in Int /\ Len(mailbox) \in Int
      BY <1>2
    <3>2. IsFiniteSet(1..Len(mailbox))
          /\ Cardinality(1..Len(mailbox)) =
               IF 1 > Len(mailbox) THEN 0 ELSE Len(mailbox) - 1 + 1
      BY <3>1, FS_Interval
    <3>3. QED
      BY <1>2, <3>2
  <2>2. IsFiniteSet(heard) /\ Cardinality(heard) <= Cardinality(1..Len(mailbox))
    <3> HIDE DEF Of
    <3>1. [n \in 1..Len(mailbox) |-> Of(n)] \in Surjection(1..Len(mailbox), heard)
      BY DEF Surjection
    <3>2. QED
      BY <2>1, <3>1, FS_Surjection
  <2>3. Cardinality(heard) \in Nat
    BY <2>2, FS_CardinalityType
  <2>4. QED
    BY <1>2, <2>1, <2>2, <2>3
<1>4. used \subseteq {s, t} \union heard
  <2>1. ASSUME NEW x \in Reported, x \notin running PROVE x \in heard
    <3>1. PICK n \in 1..Len(mailbox) : x \in Mentioned(mailbox[n])
      BY <1>2, <2>1 DEF Reported
    <3>2. Mentioned(mailbox[n]) = {x}
      BY <3>1 DEF Mentioned
    <3>3. Of(n) = x
      BY <3>2
    <3>4. QED
      BY <3>3
  <2>2. QED
    BY <1>1, <2>1
<1> HIDE DEF heard
<1>5. IsFiniteSet({s, t} \union heard) /\ Cardinality({s, t} \union heard) <= MaxMail + 2
  <2>1. ASSUME NEW S, IsFiniteSet(S), NEW x
        PROVE  IsFiniteSet(S \union {x}) /\ Cardinality(S \union {x}) <= Cardinality(S) + 1
    <3>1. IsFiniteSet(S \union {x})
          /\ Cardinality(S \union {x}) = IF x \in S THEN Cardinality(S) ELSE Cardinality(S) + 1
      BY <2>1, FS_AddElement
    <3>2. Cardinality(S) \in Nat
      BY <2>1, FS_CardinalityType
    <3>3. QED
      BY <3>1, <3>2
  <2> DEFINE one == heard \union {s}  two == one \union {t}
  <2>2. IsFiniteSet(one) /\ Cardinality(one) <= Cardinality(heard) + 1
    BY <1>3, <2>1
  <2> HIDE DEF one
  <2>3. IsFiniteSet(two) /\ Cardinality(two) <= Cardinality(one) + 1
    BY <2>1, <2>2
  <2> HIDE DEF two
  <2>4. Cardinality(one) \in Nat /\ Cardinality(two) \in Nat
    BY <2>2, <2>3, FS_CardinalityType
  <2>5. IsFiniteSet(two) /\ Cardinality(two) <= MaxMail + 2
    BY <1>2, <1>3, <2>2, <2>3, <2>4
  <2>6. two = {s, t} \union heard
    BY DEF one, two
  <2>7. QED
    BY <2>5, <2>6
<1>6. \E x \in Tag : x \notin used
  <2> SUFFICES ASSUME Tag \subseteq used PROVE FALSE
    OBVIOUS
  <2>1. Tag \in SUBSET ({s, t} \union heard)
    BY <1>4
  <2>2. IsFiniteSet(Tag) /\ Cardinality(Tag) <= Cardinality({s, t} \union heard)
    BY <1>5, <2>1, FS_Subset
  <2>3. Cardinality(Tag) \in Nat /\ Cardinality({s, t} \union heard) \in Nat
    BY <1>5, <2>2, FS_CardinalityType
  <2>4. QED
    BY <1>2, <1>5, <2>2, <2>3, DecisionAssumption
<1>7. QED
  BY <1>6 DEF FreshTag

-----------------------------------------------------------------------------
(* A step that puts no answer into the mailbox, mentions nothing that could *)
(* not be reported before, and takes up no plan keeps the IDs apart.        *)
LEMMA MovingKeepsApart ==
    ASSUME TwoPlans, AnswersApart, NEW m,
           Messages(mailbox') \subseteq Messages(mailbox) \union {m},
           m.type # "PlanReady", Mentioned(m) \subseteq Reported,
           UNCHANGED running, Tags(activePlan') \subseteq Tags(activePlan)
    PROVE  TwoPlans' /\ AnswersApart'
<1>1. Reported = running \union MentionedIn(mailbox)
      /\ Reported' = running' \union MentionedIn(mailbox')
  BY DEF Reported, MentionedIn
<1>2. Reported' \subseteq Reported
  BY <1>1, MentionedByMessages
<1>3. TwoPlans'
  BY DEF TwoPlans
<1>4. AnswersApart'
  BY <1>2 DEF AnswersApart
<1>5. QED
  BY <1>3, <1>4

(* An answer of the planner has a tag of its own, or none.                  *)
LEMMA FinishKeepsApart ==
    ASSUME PlanInv, EvaluationInv', generating.at # "rest",
           NEW p \in Plan \union {NoPlan}, NEW t \in Tag, t \notin Reported,
           Tags(p) \subseteq {t}, Finish(p), UNCHANGED <<evaluating, activePlan, running>>
    PROVE  mailbox' \in Seq(Message) /\ TwoPlans' /\ AnswersApart' /\ ShortMailbox'
<1> DEFINE answer == [type |-> "PlanReady", plan |-> p]
<1>1. answer \in Message /\ answer.type = "PlanReady" /\ answer.plan = p
      /\ Mentioned(answer) = {}
  BY MessageFields DEF Mentioned
<1>2. mailbox' = Append(mailbox, answer) /\ generating' = Idle /\ mailbox \in Seq(Message)
  BY DEF Finish, PlanInv, TypeOK
<1> HIDE DEF answer
<1>3. /\ mailbox' \in Seq(Message) /\ Len(mailbox') = Len(mailbox) + 1
      /\ Messages(mailbox') \subseteq Messages(mailbox) \union {answer}
  <2>1. /\ Append(mailbox, answer) \in Seq(Message)
        /\ Len(Append(mailbox, answer)) = Len(mailbox) + 1
        /\ Messages(Append(mailbox, answer)) \subseteq Messages(mailbox) \union {answer}
    BY <1>1, <1>2, MessageArrives
  <2>2. QED
    BY <1>2, <2>1
<1>4. Answers = {} /\ Answers' # {}
  <2>1. evaluating /\ Answers = {}
    BY DEF PlanInv, EvaluationInv, OneEvaluation
  <2>2. generating'.at = "rest" /\ evaluating'
    BY <1>2, <2>1 DEF Idle
  <2>3. QED
    BY <2>1, <2>2 DEF EvaluationInv, OneEvaluation
<1>5. \A m \in Messages(mailbox) : m.type # "PlanReady"
  BY <1>4 DEF Answers, Messages
<1>6. Reported' \subseteq Reported
  <2>1. Reported = running \union MentionedIn(mailbox)
        /\ Reported' = running' \union MentionedIn(mailbox')
    BY DEF Reported, MentionedIn
  <2>2. QED
    BY <1>1, <1>3, <2>1, MentionedByMessages
<1>7. TwoPlans'
  BY DEF PlanInv, TwoPlans
<1>8. AnswersApart'
  BY <1>1, <1>3, <1>5, <1>6 DEF AnswersApart
<1>9. ShortMailbox'
  <2>1. Len(mailbox) <= MaxMail /\ Len(mailbox) \in Nat /\ MaxMail \in Nat
    BY <1>2, <1>4, DecisionAssumption DEF PlanInv, ShortMailbox
  <2>2. QED
    BY <1>3, <1>4, <2>1 DEF ShortMailbox
<1>10. QED
  BY <1>3, <1>7, <1>8, <1>9

-----------------------------------------------------------------------------
(* The actions, one lemma for each part of the system.                      *)

IDsApart == TypeOK /\ TwoPlans /\ AnswersApart /\ ShortMailbox

LEMMA StartKeepsApart == Init => IDsApart
<1> SUFFICES ASSUME Init PROVE IDsApart
  OBVIOUS
<1>1. Tag # {}
  BY FS_EmptySet, DecisionAssumption
<1>2. mailbox = << >> /\ activePlan = NoPlan /\ running = {} /\ Tags(NoPlan) = {}
  BY Plans DEF Init
<1>3. TypeOK
  <2>1. mailbox \in Seq(Message)
    BY <1>2
  <2>2. state \in GameState /\ evaluating \in BOOLEAN /\ milestones \subseteq Item
    BY DEF Init, GameState, ZeroState
  <2>3. generating \in [at : {"rest", "lookup", "once", "ask"}, key : Key \union {"past"}]
    BY DEF Init, Idle
  <2>4. cache \in [Key -> [plan : Plan, fresh : BOOLEAN] \union {NoEntry}]
        /\ failing \subseteq Objective
    BY DEF Init
  <2>5. QED
    BY <1>2, <2>1, <2>2, <2>3, <2>4 DEF TypeOK
<1>4. TwoPlans
  BY <1>1, <1>2 DEF TwoPlans
<1>5. AnswersApart
  BY <1>2 DEF AnswersApart, Messages
<1>6. ShortMailbox
  <2>1. Answers = {} /\ Len(mailbox) = 0
    BY <1>2 DEF Answers
  <2>2. QED
    BY <2>1, DecisionAssumption DEF ShortMailbox
<1>7. QED
  BY <1>3, <1>4, <1>5, <1>6 DEF IDsApart

(* Events from outside: what they report belongs to a plan still heard of.  *)
LEMMA ArrivalKeepsApart ==
    ASSUME PlanInv, EvaluationInv', NEW ev \in Message, Arrives(ev),
           ev.type # "PlanReady", Mentioned(ev) \subseteq Reported
    PROVE  IDsApart'
<1>1. mailbox \in Seq(Message) /\ mailbox' = Append(mailbox, ev) /\ Len(mailbox) < MaxMail
      /\ UNCHANGED <<state, activePlan, evaluating, milestones, generating, cache, failing,
                     running>>
  BY DEF PlanInv, TypeOK, Arrives, actorVars, plannerVars
<1>2. /\ mailbox' \in Seq(Message) /\ Len(mailbox') = Len(mailbox) + 1
      /\ Messages(mailbox') \subseteq Messages(mailbox) \union {ev}
  <2>1. /\ Append(mailbox, ev) \in Seq(Message) /\ Len(Append(mailbox, ev)) = Len(mailbox) + 1
        /\ Messages(Append(mailbox, ev)) \subseteq Messages(mailbox) \union {ev}
    BY <1>1, MessageArrives
  <2>2. QED
    BY <1>1, <2>1
<1>3. TypeOK'
  BY <1>1, <1>2 DEF PlanInv, TypeOK
<1>4. TwoPlans' /\ AnswersApart'
  BY <1>1, <1>2, MovingKeepsApart DEF PlanInv
<1>5. ShortMailbox'
  BY <1>1, <1>2, DecisionAssumption DEF ShortMailbox
<1>6. QED
  BY <1>3, <1>4, <1>5 DEF IDsApart

(* Handlers that take up no plan, and what they send themselves             *)
LEMMA HandlingKeepsApart ==
    ASSUME PlanInv, EvaluationInv', mailbox # << >>, NEW m \in Message,
           m.type # "PlanReady", Mentioned(m) \subseteq Reported,
           Send(<< >>) \/ (Send(<<m>>) /\ UNCHANGED <<evaluating, generating>>),
           UNCHANGED running, Tags(activePlan') \subseteq Tags(activePlan)
    PROVE  mailbox' \in Seq(Message) /\ TwoPlans' /\ AnswersApart' /\ ShortMailbox'
<1>1. mailbox \in Seq(Message) /\ Len(mailbox) \in Nat /\ MaxMail \in Nat
  BY DecisionAssumption DEF PlanInv, TypeOK
<1>2. /\ mailbox' \in Seq(Message)
      /\ Messages(mailbox') \subseteq Messages(mailbox) \union {m}
      /\ \/ Len(mailbox') = Len(mailbox) - 1
         \/ Len(mailbox') = Len(mailbox) /\ UNCHANGED <<evaluating, generating>>
  <2> DEFINE silent == Tail(mailbox) \o << >>  reply == Tail(mailbox) \o <<m>>
  <2>1. /\ silent \in Seq(Message) /\ Len(silent) = Len(mailbox) - 1
        /\ Messages(silent) \subseteq Messages(mailbox)
        /\ reply \in Seq(Message) /\ Len(reply) = Len(mailbox)
        /\ Messages(reply) \subseteq Messages(mailbox) \union {m}
    BY <1>1, MessageHandled
  <2>2. mailbox' = silent \/ (mailbox' = reply /\ UNCHANGED <<evaluating, generating>>)
    BY DEF Send
  <2> HIDE DEF silent, reply
  <2>3. QED
    BY <2>1, <2>2
<1>3. TwoPlans' /\ AnswersApart'
  BY <1>2, MovingKeepsApart DEF PlanInv
<1>4. Len(mailbox) <= MaxMail + (IF Answers = {} THEN 0 ELSE 1)
  BY DEF PlanInv, ShortMailbox
<1>5. ASSUME Len(mailbox') = Len(mailbox) - 1 PROVE ShortMailbox'
  <2>1. Len(mailbox') <= MaxMail
    BY <1>1, <1>4, <1>5
  <2>2. QED
    BY <1>1, <1>5, <2>1 DEF ShortMailbox
<1>6. ASSUME Len(mailbox') = Len(mailbox), UNCHANGED <<evaluating, generating>>
      PROVE  ShortMailbox'
  <2>1. (Answers' = {}) <=> (Answers = {})
    BY <1>6 DEF PlanInv, EvaluationInv, OneEvaluation
  <2>2. QED
    BY <1>4, <1>6, <2>1 DEF ShortMailbox
<1>7. QED
  BY <1>2, <1>3, <1>5, <1>6

LEMMA ReceiveKeepsApart ==
    ASSUME PlanInv, EvaluationInv', Receive
    PROVE  IDsApart'
<1> DEFINE head == Head(mailbox)
<1>1. /\ mailbox # << >> /\ mailbox \in Seq(Message)
      /\ head \in Message /\ head \in Messages(mailbox)
  <2>1. mailbox # << >> /\ mailbox \in Seq(Message) /\ EvalTrigger \in Message
    BY MessageFields DEF Receive, PlanInv, TypeOK
  <2>2. QED
    BY <2>1, MessageHandled
<1>2. TypeOK /\ IDsApart
  BY DEF PlanInv, IDsApart
<1>3. Mentioned(head) \subseteq Reported
  BY <1>1, MentionedByMessages DEF Reported, MentionedIn
<1>4. ASSUME UNCHANGED <<state, activePlan, evaluating, milestones, generating, cache, failing,
                        running>>,
             NEW m \in Message, Send(<<m>>), m.type # "PlanReady",
             Mentioned(m) \subseteq Reported
      PROVE  IDsApart'
  <2>1. mailbox' \in Seq(Message) /\ TwoPlans' /\ AnswersApart' /\ ShortMailbox'
    BY <1>1, <1>4, HandlingKeepsApart
  <2>2. TypeOK'
    BY <1>2, <1>4, <2>1 DEF TypeOK
  <2>3. QED
    BY <2>1, <2>2 DEF IDsApart
<1>5. CASE ReceiveEvent
  <2>1. UNCHANGED <<state, activePlan, evaluating, milestones, generating, cache, failing,
                    running>>
    BY <1>5 DEF ReceiveEvent, actorVars, plannerVars
  <2>2. CASE head.type = "STATE_UPDATED"
    <3> DEFINE m == [type |-> "StateUpdate", state |-> Decoded(head.payload)]
    <3>1. head.payload \in [Version : {1}, State : GameState]
      BY <1>1, <2>2, MessageFields
    <3>2. Decoded(head.payload) \in GameState
      <4>1. DOMAIN head.payload = {"Version", "State"}
        BY <3>1
      <4>2. Decoded(head.payload) = ZeroState
        BY <4>1 DEF Decoded, ZeroState
      <4>3. ZeroState \in GameState
        BY DEF ZeroState, GameState
      <4>4. QED
        BY <4>2, <4>3
    <3>3. m \in Message
      BY <3>2, MessageFields
    <3>4. Send(<<m>>)
      BY <1>5, <2>2 DEF ReceiveEvent
    <3>5. m.type # "PlanReady" /\ Mentioned(m) = {}
      BY DEF Mentioned
    <3> HIDE DEF m
    <3>6. QED
      BY <1>4, <2>1, <3>3, <3>4, <3>5
  <2>3. CASE head.type = "TASK_END"
    <3> DEFINE m == [type |-> "TaskEnd", id |-> head.id, success |-> head.success]
    <3>1. m \in Message
      BY <1>1, <2>3, MessageFields
    <3>2. Send(<<m>>)
      BY <1>5, <2>3 DEF ReceiveEvent
    <3>3. m.type # "PlanReady" /\ Mentioned(m) = Mentioned(head)
      BY <2>3 DEF Mentioned
    <3> HIDE DEF m
    <3>4. QED
      BY <1>3, <1>4, <2>1, <3>1, <3>2, <3>3
  <2>4. CASE head.type = "BOT_DEATH"
    <3> DEFINE m == [type |-> "BotDeath"]
    <3>1. m \in Message /\ m.type # "PlanReady" /\ Mentioned(m) = {}
      BY MessageFields DEF Mentioned
    <3>2. Send(<<m>>)
      BY <1>5, <2>4 DEF ReceiveEvent
    <3> HIDE DEF m
    <3>3. QED
      BY <1>4, <2>1, <3>1, <3>2
  <2>5. QED
    BY <1>5, <2>2, <2>3, <2>4 DEF ReceiveEvent
<1>6. EvalTrigger \in Message /\ EvalTrigger.type # "PlanReady" /\ Mentioned(EvalTrigger) = {}
  BY MessageFields DEF EvalTrigger, Mentioned
<1>7. CASE ReceiveStateUpdate
  <2>1. /\ head.type = "StateUpdate"
        /\ milestones' = milestones \union Unlocked(state, head.state)
        /\ state' = head.state
        /\ UNCHANGED <<activePlan, evaluating, generating, cache, failing, running>>
    BY <1>7 DEF ReceiveStateUpdate, plannerVars
  <2>2. Send(<<EvalTrigger>>) \/ Send(<< >>)
    BY <1>7 DEF ReceiveStateUpdate
  <2>3. mailbox' \in Seq(Message) /\ TwoPlans' /\ AnswersApart' /\ ShortMailbox'
    BY <1>1, <1>6, <2>1, <2>2, HandlingKeepsApart
  <2>4. state' \in GameState
    BY <1>1, <2>1, MessageFields
  <2>5. milestones' \subseteq Item
    <3>1. state'.Inventory \subseteq Item /\ milestones \subseteq Item
      BY <1>2, <2>4 DEF TypeOK, GameState
    <3>2. QED
      BY <2>1, <3>1 DEF Unlocked
  <2>6. TypeOK'
    BY <1>2, <2>1, <2>3, <2>4, <2>5 DEF TypeOK
  <2>7. QED
    BY <2>3, <2>6 DEF IDsApart
<1>8. ASSUME UNCHANGED <<state, evaluating, milestones, generating, cache, running>>,
             activePlan' \in Plan \union {NoPlan}, Tags(activePlan') \subseteq Tags(activePlan),
             failing' \subseteq Objective, Send(<<EvalTrigger>>)
      PROVE  IDsApart'
  <2>1. mailbox' \in Seq(Message) /\ TwoPlans' /\ AnswersApart' /\ ShortMailbox'
    BY <1>1, <1>6, <1>8, HandlingKeepsApart
  <2>2. TypeOK'
    BY <1>2, <1>8, <2>1 DEF TypeOK
  <2>3. QED
    BY <2>1, <2>2 DEF IDsApart
<1>9. /\ Objective \in SUBSET Objective
      /\ activePlan # NoPlan => activePlan.objective \in Objective
      /\ failing \subseteq Objective /\ activePlan \in Plan \union {NoPlan}
  BY <1>2 DEF TypeOK, Plan
<1>10. CASE ReceiveTaskEnd
  <2>1. UNCHANGED <<state, evaluating, milestones, generating, cache, running>>
        /\ Send(<<EvalTrigger>>)
    BY <1>10 DEF ReceiveTaskEnd, plannerVars
  <2>2. CASE UNCHANGED <<activePlan, failing>>
    BY <1>8, <1>9, <2>1, <2>2
  <2>3. CASE activePlan # NoPlan /\ activePlan.tasks # << >> /\ Ended(head)
    <3>1. activePlan \in Plan \ {NoPlan}
      BY <1>9, <2>3
    <3>2. failing' \subseteq Objective
      BY <1>9, <2>3 DEF Ended
    <3>3. \/ activePlan' = NoPlan
          \/ activePlan' = [activePlan EXCEPT !.tasks = Tail(activePlan.tasks)]
      BY <2>3 DEF Ended
    <3>4. activePlan' \in Plan \union {NoPlan} /\ Tags(activePlan') \subseteq Tags(activePlan)
      BY <2>3, <3>1, <3>3, Plans
    <3>5. QED
      BY <1>8, <2>1, <3>2, <3>4
  <2>4. QED
    BY <1>10, <2>2, <2>3 DEF ReceiveTaskEnd
<1>11. CASE ReceiveBotDeath
  <2>1. /\ UNCHANGED <<state, evaluating, milestones, generating, cache, running>>
        /\ Send(<<EvalTrigger>>)
        /\ activePlan' = NoPlan
    BY <1>11 DEF ReceiveBotDeath, plannerVars
  <2>2. failing' \subseteq Objective
    BY <1>9, <1>11 DEF ReceiveBotDeath
  <2>3. Tags(activePlan') \subseteq Tags(activePlan)
    BY <2>1, Plans
  <2>4. QED
    BY <1>8, <2>1, <2>2, <2>3
<1>12. CASE ReceiveEvalTrigger
  <2>1. Send(<< >>) /\ UNCHANGED <<state, activePlan, milestones, cache, failing, running>>
    BY <1>12 DEF ReceiveEvalTrigger
  <2>2. mailbox' \in Seq(Message) /\ TwoPlans' /\ AnswersApart' /\ ShortMailbox'
    BY <1>1, <1>6, <2>1, HandlingKeepsApart
  <2>3. evaluating' \in BOOLEAN /\ generating' \in Stages
    BY DEF EvaluationInv
  <2>4. TypeOK'
    BY <1>2, <2>1, <2>2, <2>3 DEF TypeOK, Stages
  <2>5. QED
    BY <2>2, <2>4 DEF IDsApart
<1>13. CASE ReceivePlanReady
  <2>1. /\ Send(<< >>) /\ head.type = "PlanReady"
        /\ activePlan' = IF head.plan = NoPlan THEN activePlan ELSE head.plan
        /\ running' = IF head.plan = NoPlan THEN running
                      ELSE Tags(head.plan) \union (running \intersect Tags(activePlan))
        /\ UNCHANGED <<state, milestones, generating, cache, failing>>
        /\ evaluating' = FALSE
    BY <1>13 DEF ReceivePlanReady, plannerVars, StillEvaluating
  <2>2. mailbox' \in Seq(Message) /\ Len(mailbox') = Len(mailbox) - 1
    <3>1. Tail(mailbox) \o << >> \in Seq(Message)
          /\ Len(Tail(mailbox) \o << >>) = Len(mailbox) - 1
      BY <1>1, MessageHandled
    <3>2. QED
      BY <2>1, <3>1 DEF Send
  <2>3. Answers' = {}
    BY <2>1 DEF EvaluationInv, OneEvaluation
  <2>4. AnswersApart'
    <3>1. \A m \in Messages(mailbox') : m.type # "PlanReady"
      BY <2>3 DEF Answers, Messages
    <3>2. QED
      BY <3>1 DEF AnswersApart
  <2>5. ShortMailbox'
    <3>1. Len(mailbox) <= MaxMail + 1 /\ Len(mailbox) \in Nat /\ MaxMail \in Nat
      BY <1>1, DecisionAssumption DEF PlanInv, ShortMailbox
    <3>2. QED
      BY <2>2, <2>3, <3>1 DEF ShortMailbox
  <2>6. PICK s \in Tag, t \in Tag :
           running \subseteq {s, t} /\ Tags(activePlan) \subseteq running \intersect {t}
    BY DEF PlanInv, TwoPlans
  <2>7. PICK u \in Tag : Tags(head.plan) \subseteq {u}
    BY <1>1, <2>1 DEF PlanInv, AnswersApart
  <2>8. TwoPlans'
    <3>1. CASE head.plan = NoPlan
      BY <2>1, <2>6, <3>1 DEF TwoPlans
    <3>2. CASE head.plan # NoPlan
      <4>1. running' \subseteq {t, u} /\ Tags(activePlan') \subseteq running' \intersect {u}
        BY <2>1, <2>6, <2>7, <3>2
      <4>2. QED
        BY <4>1 DEF TwoPlans
    <3>3. QED
      BY <3>1, <3>2
  <2>9. head.plan \in Plan \union {NoPlan}
    BY <1>1, <2>1, MessageFields
  <2>10. activePlan' \in Plan \union {NoPlan}
    BY <1>9, <2>1, <2>9
  <2>11. running' \subseteq Tag \union {ModelTag}
    BY <2>1, <2>6, <2>7
  <2>12. TypeOK'
    BY <1>2, <2>1, <2>2, <2>10, <2>11 DEF TypeOK
  <2>13. QED
    BY <2>4, <2>5, <2>8, <2>12 DEF IDsApart
<1>14. QED
  BY <1>5, <1>7, <1>10, <1>11, <1>12, <1>13 DEF Receive

(* Steps that touch neither the mailbox nor the plans                       *)
LEMMA NothingMoves ==
    ASSUME PlanInv, UNCHANGED <<mailbox, activePlan, running>>
    PROVE  TwoPlans' /\ AnswersApart' /\ ShortMailbox'
<1>1. mailbox' = mailbox /\ activePlan' = activePlan /\ running' = running
  OBVIOUS
<1>2. Reported' = Reported
  BY <1>1 DEF Reported
<1>3. Answers' = Answers
  BY <1>1 DEF Answers
<1>4. TwoPlans'
  BY <1>1 DEF PlanInv, TwoPlans
<1>5. AnswersApart'
  BY <1>1, <1>2 DEF PlanInv, AnswersApart
<1>6. ShortMailbox'
  BY <1>1, <1>3 DEF PlanInv, ShortMailbox
<1>7. QED
  BY <1>4, <1>5, <1>6

(* A call of Generate that returns a plan gives it a tag that is free.      *)
LEMMA ReturnKeepsApart ==
    ASSUME PlanInv, EvaluationInv', generating.at # "rest", NEW p \in Plan, Return(p),
           UNCHANGED <<evaluating, activePlan, running>>
    PROVE  mailbox' \in Seq(Message) /\ TwoPlans' /\ AnswersApart' /\ ShortMailbox'
<1> DEFINE q == ClonePlanWithNewIDs(p, FreshTag)
<1>1. Len(mailbox) <= MaxMail
  <2>1. Answers = {} /\ Len(mailbox) \in Nat /\ MaxMail \in Nat
    BY DecisionAssumption DEF PlanInv, EvaluationInv, OneEvaluation, TypeOK
  <2>2. QED
    BY <2>1 DEF PlanInv, ShortMailbox
<1>2. FreshTag \in Tag /\ FreshTag \notin Reported
  BY <1>1, FreshTagIsFree DEF PlanInv
<1>3. q \in Plan /\ Tags(q) \subseteq {FreshTag}
  BY <1>2, Plans
<1>4. Finish(q)
  BY DEF Return
<1> HIDE DEF q
<1>5. QED
  BY <1>2, <1>3, <1>4, FinishKeepsApart

LEMMA GenerateKeepsApart ==
    ASSUME PlanInv, EvaluationInv', Generate
    PROVE  IDsApart'
<1>1. TypeOK
  BY DEF PlanInv
<1>2. UNCHANGED <<state, activePlan, evaluating, milestones, failing, running>>
      /\ generating.at # "rest"
  BY DEF Generate, LookUp, LookUpAgain, AnswerFails, AnswerHallucinated, AnswerPlans,
         unchangedByPlanner, actorVars
<1>3. generating' \in Stages
  BY DEF EvaluationInv
<1>4. ASSUME mailbox' \in Seq(Message), TwoPlans', AnswersApart', ShortMailbox',
             cache' \in [Key -> [plan : Plan, fresh : BOOLEAN] \union {NoEntry}]
      PROVE  IDsApart'
  BY <1>1, <1>2, <1>3, <1>4 DEF IDsApart, TypeOK, Stages
<1>5. cache \in [Key -> [plan : Plan, fresh : BOOLEAN] \union {NoEntry}]
  BY <1>1 DEF TypeOK
<1>6. ASSUME UNCHANGED mailbox,
             cache' \in [Key -> [plan : Plan, fresh : BOOLEAN] \union {NoEntry}]
      PROVE  IDsApart'
  <2>1. mailbox' \in Seq(Message)
    BY <1>1, <1>6 DEF TypeOK
  <2>2. TwoPlans' /\ AnswersApart' /\ ShortMailbox'
    BY <1>2, <1>6, NothingMoves
  <2>3. QED
    BY <1>4, <1>6, <2>1, <2>2
<1>7. ASSUME NEW p \in Plan, Return(p),
             cache' \in [Key -> [plan : Plan, fresh : BOOLEAN] \union {NoEntry}]
      PROVE  IDsApart'
  BY <1>2, <1>4, <1>7, ReturnKeepsApart
<1>8. CASE LookUp
  <2>1. PICK k \in Key :
           IF cache[k] # NoEntry /\ cache[k].fresh /\ cache[k].plan.objective \notin failing
           THEN Return(cache[k].plan) /\ UNCHANGED cache
           ELSE /\ cache' = [cache EXCEPT ![k] =
                               IF cache[k] # NoEntry /\ ~cache[k].fresh THEN NoEntry
                               ELSE cache[k]]
                /\ UNCHANGED mailbox
    BY <1>8 DEF LookUp
  <2>2. CASE cache[k] # NoEntry /\ cache[k].fresh /\ cache[k].plan.objective \notin failing
    <3>1. cache[k].plan \in Plan
      BY <1>5, <2>2
    <3>2. QED
      BY <1>5, <1>7, <2>1, <2>2, <3>1
  <2>3. CASE ~(cache[k] # NoEntry /\ cache[k].fresh /\ cache[k].plan.objective \notin failing)
    <3>1. cache' \in [Key -> [plan : Plan, fresh : BOOLEAN] \union {NoEntry}]
      BY <1>5, <2>1, <2>3
    <3>2. QED
      BY <1>6, <2>1, <2>3, <3>1
  <2>4. QED
    BY <2>2, <2>3
<1>9. CASE LookUpAgain
  <2>1. UNCHANGED cache
    BY <1>9 DEF LookUpAgain
  <2>2. CASE generating.key \in Key /\ cache[generating.key] # NoEntry
    <3>1. cache[generating.key].plan \in Plan
      BY <1>5, <2>2
    <3>2. Return(cache[generating.key].plan)
      BY <1>9, <2>2 DEF LookUpAgain
    <3>3. QED
      BY <1>5, <1>7, <2>1, <3>1, <3>2
  <2>3. CASE ~(generating.key \in Key /\ cache[generating.key] # NoEntry)
    <3>1. UNCHANGED mailbox
      BY <1>9, <2>3 DEF LookUpAgain
    <3>2. QED
      BY <1>5, <1>6, <2>1, <3>1
  <2>4. QED
    BY <2>2, <2>3
<1>10. CASE AnswerFails
  <2>1. UNCHANGED cache /\ Finish(NoPlan)
    BY <1>10 DEF AnswerFails
  <2>2. PICK t \in Tag : t \notin Reported
    <3>1. Len(mailbox) <= MaxMail
      <4>1. Answers = {} /\ Len(mailbox) \in Nat /\ MaxMail \in Nat
        BY <1>2, DecisionAssumption DEF PlanInv, EvaluationInv, OneEvaluation, TypeOK
      <4>2. QED
        BY <4>1 DEF PlanInv, ShortMailbox
    <3>2. QED
      BY <3>1, FreshTagIsFree DEF PlanInv
  <2>3. Tags(NoPlan) \subseteq {t}
    BY Plans
  <2>4. mailbox' \in Seq(Message) /\ TwoPlans' /\ AnswersApart' /\ ShortMailbox'
    BY <1>2, <2>1, <2>2, <2>3, FinishKeepsApart
  <2>5. QED
    BY <1>4, <1>5, <2>1, <2>4
<1>11. CASE AnswerHallucinated
  <2>1. PICK o \in Objective : Return([objective |-> o, tasks |-> <<<<ModelTag, 1>>>>])
    BY <1>11 DEF AnswerHallucinated
  <2>2. UNCHANGED cache /\ [objective |-> o, tasks |-> <<<<ModelTag, 1>>>>] \in Plan
    BY <1>11, Plans DEF AnswerHallucinated
  <2>3. QED
    BY <1>5, <1>7, <2>1, <2>2
<1>12. CASE AnswerPlans
  <2>1. PICK p \in Candidates :
           /\ Return(p)
           /\ cache' = [k \in Key |-> IF k = generating.key THEN [plan |-> p, fresh |-> TRUE]
                                      ELSE cache[k]]
    BY <1>12 DEF AnswerPlans
  <2>2. p \in Plan
    BY Plans
  <2>3. cache' \in [Key -> [plan : Plan, fresh : BOOLEAN] \union {NoEntry}]
    BY <1>5, <2>1, <2>2
  <2>4. QED
    BY <1>7, <2>1, <2>2, <2>3
<1>13. QED
  BY <1>8, <1>9, <1>10, <1>11, <1>12 DEF Generate

LEMMA PlanInvStays == PlanInv /\ [Next]_vars => PlanInv'
<1> SUFFICES ASSUME PlanInv, [Next]_vars PROVE PlanInv'
  OBVIOUS
<1>1. EvaluationInv'
  BY EvaluationStays DEF PlanInv
<1> SUFFICES IDsApart'
  BY <1>1 DEF PlanInv, IDsApart
<1>2. ASSUME NEW ev \in Message, ev.type # "PlanReady", Mentioned(ev) \subseteq Reported,
             Arrives(ev)
      PROVE  IDsApart'
  BY <1>1, <1>2, ArrivalKeepsApart
<1>3. CASE StateUpdated
  <2>1. PICK s \in GameState :
           Arrives([type |-> "STATE_UPDATED", payload |-> [Version |-> 1, State |-> s]])
    BY <1>3 DEF StateUpdated
  <2> DEFINE ev == [type |-> "STATE_UPDATED", payload |-> [Version |-> 1, State |-> s]]
  <2>2. ev \in Message /\ ev.type # "PlanReady" /\ Mentioned(ev) = {}
    BY MessageFields DEF Mentioned
  <2>3. Arrives(ev)
    BY <2>1
  <2> HIDE DEF ev
  <2>4. QED
    BY <1>2, <2>2, <2>3
<1>4. CASE TaskEnded
  <2>1. PICK id \in (running \X (1..MaxTasks)) \union {NoTask}, ok \in BOOLEAN :
           Arrives([type |-> "TASK_END", id |-> id, success |-> ok])
    BY <1>4 DEF TaskEnded
  <2> DEFINE ev == [type |-> "TASK_END", id |-> id, success |-> ok]
  <2>2. id \in Id \union {NoTask}
    BY DEF PlanInv, TypeOK, Id
  <2>3. ev \in Message /\ ev.type # "PlanReady"
    BY <2>2, MessageFields
  <2>4. Mentioned(ev) \subseteq Reported
    BY DEF Mentioned, Reported
  <2>5. Arrives(ev)
    BY <2>1
  <2> HIDE DEF ev
  <2>6. QED
    BY <1>2, <2>3, <2>4, <2>5
<1>5. CASE BotDies
  <2> DEFINE ev == [type |-> "BOT_DEATH"]
  <2>1. ev \in Message /\ ev.type # "PlanReady" /\ Mentioned(ev) = {}
    BY MessageFields DEF Mentioned
  <2>2. Arrives(ev)
    BY <1>5 DEF BotDies
  <2> HIDE DEF ev
  <2>3. QED
    BY <1>2, <2>1, <2>2
<1>6. CASE RequestEvaluation
  <2>1. EvalTrigger \in Message /\ EvalTrigger.type # "PlanReady" /\ Mentioned(EvalTrigger) = {}
    BY MessageFields DEF EvalTrigger, Mentioned
  <2>2. QED
    BY <1>2, <1>6, <2>1 DEF RequestEvaluation
<1>7. CASE Receive
  BY <1>1, <1>7, ReceiveKeepsApart
<1>8. CASE Generate
  BY <1>1, <1>8, GenerateKeepsApart
<1>9. ASSUME UNCHANGED <<mailbox, state, activePlan, evaluating, milestones, failing, running>>,
             cache' \in [Key -> [plan : Plan, fresh : BOOLEAN] \union {NoEntry}]
      PROVE  IDsApart'
  <2>1. generating' \in Stages
    BY <1>1 DEF EvaluationInv
  <2>2. TypeOK'
    BY <1>9, <2>1 DEF PlanInv, TypeOK, Stages
  <2>3. TwoPlans' /\ AnswersApart' /\ ShortMailbox'
    BY <1>9, NothingMoves
  <2>4. QED
    BY <2>2, <2>3 DEF IDsApart
<1>10. cache \in [Key -> [plan : Plan, fresh : BOOLEAN] \union {NoEntry}]
  BY DEF PlanInv, TypeOK
<1>11. CASE EntryAges
  <2>1. PICK k \in Key : /\ cache[k] # NoEntry /\ cache[k].fresh
                         /\ cache' = [cache EXCEPT ![k].fresh = FALSE]
    BY <1>11 DEF EntryAges
  <2>2. cache[k] \in [plan : Plan, fresh : BOOLEAN]
    BY <1>10, <2>1
  <2>3. [cache[k] EXCEPT !.fresh = FALSE] \in [plan : Plan, fresh : BOOLEAN]
    BY <2>2
  <2>4. cache' \in [Key -> [plan : Plan, fresh : BOOLEAN] \union {NoEntry}]
    BY <1>10, <2>1, <2>3
  <2>5. QED
    BY <1>9, <1>11, <2>4 DEF EntryAges, unchangedByPlanner, actorVars
<1>12. CASE KeyChanges
  <2>1. cache' \in [Key -> [plan : Plan, fresh : BOOLEAN] \union {NoEntry}]
    BY <1>10, <1>12 DEF KeyChanges
  <2>2. QED
    BY <1>9, <1>12, <2>1 DEF KeyChanges, unchangedByPlanner, actorVars
<1>13. CASE UNCHANGED vars
  BY <1>9, <1>10, <1>13 DEF vars
<1>14. QED
  BY <1>3, <1>4, <1>5, <1>6, <1>7, <1>8, <1>11, <1>12, <1>13 DEF Next

LEMMA PlanInvAlways == Spec => []PlanInv
<1>1. Init => PlanInv
  BY StartKeepsApart, EvaluationStarts DEF PlanInv, IDsApart
<1>2. QED
  BY <1>1, PlanInvStays, PTL DEF Spec

(* The actor, the planner and the messages between them keep their types:   *)
(* in particular a payload that is decoded is a state, whatever it was.     *)
THEOREM DecisionTypes == Spec => []TypeOK
<1>1. PlanInv => TypeOK
  BY DEF PlanInv
<1>2. QED
  BY <1>1, PlanInvAlways, PTL

(* A plan that is taken up shares no task ID with anything that may still   *)
(* be reported, whether it comes from the cache (twice even) or from the    *)
(* language model (planner.go, clonePlanWithNewIDs).                        *)
THEOREM PlansStayApart == Spec => NewPlanNewIDs
<1> DEFINE A == (activePlan' # activePlan /\ activePlan' # NoPlan
                   /\ Head(mailbox).type = "PlanReady")
                  => Tags(activePlan') \intersect Reported = {}
<1>1. PlanInv /\ [Next]_vars => [A]_vars
  <2> SUFFICES ASSUME PlanInv, [Next]_vars, activePlan' # activePlan, activePlan' # NoPlan,
                      Head(mailbox).type = "PlanReady"
               PROVE  Tags(activePlan') \intersect Reported = {}
    OBVIOUS
  <2>1. Receive
    BY DEF Next, vars, StateUpdated, TaskEnded, BotDies, RequestEvaluation, Arrives, Generate,
           LookUp, LookUpAgain, AnswerFails, AnswerHallucinated, AnswerPlans, EntryAges,
           KeyChanges, unchangedByPlanner, actorVars
  <2>2. mailbox # << >> /\ activePlan' = Head(mailbox).plan
    BY <2>1 DEF Receive, ReceiveEvent, ReceiveStateUpdate, ReceiveTaskEnd, ReceiveBotDeath,
                ReceiveEvalTrigger, ReceivePlanReady, actorVars
  <2>3. Head(mailbox) \in Messages(mailbox)
    <3>1. mailbox \in Seq(Message) /\ EvalTrigger \in Message
      BY MessageFields DEF PlanInv, TypeOK
    <3>2. QED
      BY <2>2, <3>1, MessageHandled
  <2>4. QED
    BY <2>2, <2>3 DEF PlanInv, AnswersApart
<1>2. QED
  BY <1>1, PlanInvAlways, PTL DEF Spec, NewPlanNewIDs

=============================================================================
