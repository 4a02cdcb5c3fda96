----------------------------- MODULE DecisionLoop -----------------------------
(***************************************************************************)
(* The decision actor (internal/decision/service.go) and the planner it    *)
(* runs in a goroutine (internal/decision/planner.go, Generate).  The      *)
(* actor takes one message at a time; events of the bus are decoded and    *)
(* sent to itself again.  Outside are the bot and the control service:     *)
(* they report the tasks of the plans that were published in any order,    *)
(* more than once (a retry keeps its ID) or never.                         *)
(*                                                                         *)
(* A plan is its objective and the IDs of its tasks; the prompt and the    *)
(* scores of the candidates are abstracted to which of them comes first.   *)
(* FastPlan, SlowReplanLoop and WarmNextPlan have no trigger as wired, so  *)
(* that one call of Generate runs at a time and singleflight never joins   *)
(* two.                                                                    *)
(***************************************************************************)
EXTENDS Naturals, Sequences, FiniteSets

CONSTANTS
    Objective,  \* the objectives the language model names
    Tag,        \* what tells the IDs of one plan from those of another (UnixNano)
    ModelTag,   \* the IDs the language model writes itself
    Item,       \* the items of techTree
    MaxTasks,   \* bound: tasks of a plan
    MaxMail,    \* bound: messages waiting when something from outside arrives.
                \* What is reported belongs to the last two plans
    NoPlan, NoEntry, NoTask

(* UnixNano never repeats: a clone always finds a tag that no task which    *)
(* may still be heard of has, two plans' and one for every message waiting. *)
ASSUME DecisionAssumption ==
    /\ MaxTasks \in Nat \ {0} /\ MaxMail \in Nat
    /\ IsFiniteSet(Tag) => Cardinality(Tag) > MaxMail + 2

VARIABLES
    mailbox,    \* of the actor
    state,      \* decisionActor.state
    activePlan, \* decisionActor.activePlan
    evaluating, \* decisionActor.evaluating
    milestones, \* decisionActor.milestones
    generating, \* the goroutine: where it is, and its cache key
    failing,    \* the objectives planner.failures counts
    cache,      \* planner.planCache, by key
    running     \* the tags of published plans whose tasks may still be reported

vars == <<mailbox, state, activePlan, evaluating, milestones,
          generating, failing, cache, running>>

actorVars == <<state, activePlan, evaluating, milestones>>
plannerVars == <<generating, cache>>
-----------------------------------------------------------------------------
Id == (Tag \union {ModelTag}) \X (1..MaxTasks)
Plan == [objective : Objective, tasks : UNION {[1..n -> Id] : n \in 0..MaxTasks}]
GameState == [Threats : BOOLEAN, Inventory : SUBSET Item]
ZeroState == [Threats |-> FALSE, Inventory |-> {}]

(* Keys end in the last event's ID over ten: "current" for that of now,     *)
(* "zero" when the store cannot be read; entries of the past are not found. *)
Key == {"current", "zero"}
Idle == [at |-> "rest", key |-> "past"]

Ids(p) == IF p = NoPlan THEN {} ELSE {p.tasks[n] : n \in DOMAIN p.tasks}
Tags(p) == {id[1] : id \in Ids(p)}
Send(msgs) == mailbox' = Tail(mailbox) \o msgs   \* while the head is handled
EvalTrigger == [type |-> "EvalTrigger"]

Init ==
    /\ mailbox = << >> /\ state = ZeroState /\ activePlan = NoPlan /\ evaluating = FALSE
    /\ milestones \in {{}, Item}   \* as GetMilestones finds them
    /\ generating = Idle /\ failing = {}
    /\ cache = [k \in Key |-> NoEntry] /\ running = {}

-----------------------------------------------------------------------------
(* The outside: events arrive on the bus.                                   *)
Arrives(ev) ==
    /\ Len(mailbox) < MaxMail
    /\ mailbox' = Append(mailbox, ev)
    /\ UNCHANGED <<actorVars, plannerVars, failing, running>>

(* The state service publishes what it stored: a VersionedState, whose      *)
(* fields are called Version and State.                                     *)
StateUpdated ==
    \E s \in GameState :
        Arrives([type |-> "STATE_UPDATED", payload |-> [Version |-> 1, State |-> s]])

TaskEnded ==
    \E id \in (running \X (1..MaxTasks)) \union {NoTask}, ok \in BOOLEAN :
        Arrives([type |-> "TASK_END", id |-> id, success |-> ok])

BotDies == Arrives([type |-> "BOT_DEATH"])

(* onPlanReady and TaskManager.OnDrain call RequestEvaluation               *)
RequestEvaluation == Arrives(EvalTrigger)

-----------------------------------------------------------------------------
(* The actor.  json.Unmarshal fills the fields it finds and leaves the rest *)
(* zero.                                                                    *)
DecodedAsIs(payload) == payload   \* bug: the message keeps what was published
Decoded(payload) ==
    [f \in DOMAIN ZeroState |->
        IF f \in DOMAIN payload THEN payload[f] ELSE ZeroState[f]]

ReceiveEvent ==
    LET msg == Head(mailbox) IN
    /\ \/ /\ msg.type = "STATE_UPDATED"
          /\ Send(<<[type |-> "StateUpdate", state |-> Decoded(msg.payload)]>>)
       \/ /\ msg.type = "TASK_END"
          /\ Send(<<[type |-> "TaskEnd", id |-> msg.id, success |-> msg.success]>>)
       \/ /\ msg.type = "BOT_DEATH"
          /\ Send(<<[type |-> "BotDeath"]>>)
    /\ UNCHANGED <<actorVars, plannerVars, failing, running>>

(* detectMilestones *)
Unlocked(before, after) == (after.Inventory \ before.Inventory) \ milestones

ReceiveStateUpdate ==
    LET msg == Head(mailbox) IN
    /\ msg.type = "StateUpdate"
    /\ milestones' = milestones \union Unlocked(state, msg.state)
    /\ state' = msg.state
    /\ Send(IF activePlan = NoPlan \/ msg.state.Threats THEN <<EvalTrigger>> ELSE << >>)
    /\ UNCHANGED <<activePlan, evaluating, plannerVars, failing, running>>

(* The head of the plan has ended: its last task makes the plan a success,  *)
(* even if it failed itself.                                                *)
Ended(msg) ==
    LET rest == Tail(activePlan.tasks)
        o == activePlan.objective
    IN  IF rest = << >>
        THEN activePlan' = NoPlan /\ failing' = failing \ {o}
        ELSE /\ activePlan' = [activePlan EXCEPT !.tasks = rest]
             /\ failing' = IF msg.success THEN failing ELSE failing \union {o}

ReceiveTaskEnd ==
    LET msg == Head(mailbox) IN
    /\ msg.type = "TaskEnd"
    /\ IF activePlan # NoPlan /\ activePlan.tasks # << >> /\ activePlan.tasks[1] = msg.id
       THEN Ended(msg)
       ELSE UNCHANGED <<activePlan, failing>>
    /\ Send(<<EvalTrigger>>)   \* whichever task it was
    /\ UNCHANGED <<state, evaluating, milestones, plannerVars, running>>

ReceiveBotDeath ==
    /\ Head(mailbox).type = "BotDeath"
    /\ failing' = failing \union (IF activePlan = NoPlan THEN {} ELSE {activePlan.objective})
    /\ activePlan' = NoPlan
    /\ Send(<<EvalTrigger>>)
    /\ UNCHANGED <<state, evaluating, milestones, plannerVars, running>>

MayEvaluateAgain == TRUE   \* bug: the flag is not looked at
MayEvaluate == ~evaluating

ReceiveEvalTrigger ==
    /\ Head(mailbox).type = "EvalTrigger"
    /\ Send(<< >>)
    /\ IF MayEvaluate
       THEN /\ evaluating' = TRUE
            /\ generating' = [Idle EXCEPT !.at = "lookup"]
       ELSE UNCHANGED <<evaluating, generating>>
    /\ UNCHANGED <<state, activePlan, milestones, cache, failing, running>>

(* Bug: an error returns before the flag is cleared                         *)
StaysOnError(msg) == msg.plan = NoPlan
StillEvaluating(msg) == FALSE

ReceivePlanReady ==
    LET msg == Head(mailbox) IN
    /\ msg.type = "PlanReady"
    /\ Send(<< >>)
    /\ evaluating' = StillEvaluating(msg)
    /\ activePlan' = IF msg.plan = NoPlan THEN activePlan ELSE msg.plan
    /\ running' = IF msg.plan = NoPlan THEN running   \* else PLAN_CREATED
                  ELSE Tags(msg.plan) \union (running \intersect Tags(activePlan))
    /\ UNCHANGED <<state, milestones, plannerVars, failing>>

Receive ==
    /\ mailbox # << >>
    /\ \/ ReceiveEvent \/ ReceiveStateUpdate \/ ReceiveTaskEnd \/ ReceiveBotDeath
       \/ ReceiveEvalTrigger \/ ReceivePlanReady

-----------------------------------------------------------------------------
(* The planner.  A clone gets IDs of its own (UnixNano): no task that may   *)
(* still be heard of has them.                                              *)
Mentioned(msg) ==
    IF msg.type \in {"TASK_END", "TaskEnd"} /\ msg.id # NoTask THEN {msg.id[1]} ELSE {}

Reported == running \union UNION {Mentioned(mailbox[n]) : n \in DOMAIN mailbox}
FreshTag == CHOOSE t \in Tag : t \notin Reported \union Tags(activePlan)
CloneKeepsIDs(p, t) == p   \* bug: a plan of the cache is handed out as it is
ClonePlanWithNewIDs(p, t) == [p EXCEPT !.tasks = [n \in DOMAIN p.tasks |-> <<t, n>>]]

Finish(p) ==
    /\ generating' = Idle
    /\ mailbox' = Append(mailbox, [type |-> "PlanReady", plan |-> p])

Return(p) == Finish(ClonePlanWithNewIDs(p, FreshTag))

unchangedByPlanner == <<actorVars, failing, running>>

(* generateLLMPlan looks into the cache: an entry of more than 30 seconds   *)
(* is removed, one whose objective fails is passed over.                    *)
LookUp ==
    /\ generating.at = "lookup"
    /\ \E k \in Key :
          LET entry == cache[k] IN
          IF entry # NoEntry /\ entry.fresh /\ entry.plan.objective \notin failing
          THEN Return(entry.plan) /\ UNCHANGED cache
          ELSE /\ generating' = [at |-> "once", key |-> k]
               /\ cache' = [cache EXCEPT ![k] =
                              IF entry # NoEntry /\ ~entry.fresh THEN NoEntry ELSE entry]
               /\ UNCHANGED mailbox
    /\ UNCHANGED unchangedByPlanner

(* Inside sf.Do the cache is asked once more, for neither age nor failures. *)
LookUpAgain ==
    /\ generating.at = "once"
    /\ IF generating.key \in Key /\ cache[generating.key] # NoEntry
       THEN Return(cache[generating.key].plan)
       ELSE /\ generating' = [generating EXCEPT !.at = "ask"]
            /\ UNCHANGED mailbox
    /\ UNCHANGED <<cache, unchangedByPlanner>>

(* No answer, or one without candidates *)
AnswerFails ==
    /\ generating.at = "ask"
    /\ Finish(NoPlan)
    /\ UNCHANGED <<cache, unchangedByPlanner>>

(* An answer that is no JSON makes a plan of one retreat, not to be cached. *)
AnswerHallucinated ==
    /\ generating.at = "ask"
    /\ \E o \in Objective : Return([objective |-> o, tasks |-> <<<<ModelTag, 1>>>>])
    /\ UNCHANGED <<cache, unchangedByPlanner>>

(* Which of the candidates scores best is left open; nothing keeps one      *)
(* without tasks from it.                                                   *)
Candidates ==
    {[objective |-> o, tasks |-> [i \in 1..n |-> <<ModelTag, i>>]] :
        o \in Objective, n \in 0..MaxTasks}

(* The best candidate is cached.                                            *)
AnswerPlans ==
    /\ generating.at = "ask"
    /\ \E p \in Candidates :
          /\ Return(p)
          /\ cache' = [k \in Key |-> IF k = generating.key THEN [plan |-> p, fresh |-> TRUE]
                                     ELSE cache[k]]
    /\ UNCHANGED unchangedByPlanner

Generate == LookUp \/ LookUpAgain \/ AnswerFails \/ AnswerHallucinated \/ AnswerPlans

(* Thirty seconds pass for an entry; ten events are stored.                 *)
EntryAges ==
    /\ \E k \in Key : /\ cache[k] # NoEntry /\ cache[k].fresh
                      /\ cache' = [cache EXCEPT ![k].fresh = FALSE]
    /\ UNCHANGED <<mailbox, generating, unchangedByPlanner>>

KeyChanges ==
    /\ cache' = [cache EXCEPT !["current"] = NoEntry]
    /\ generating' = [generating EXCEPT !.key = IF @ = "current" THEN "past" ELSE @]
    /\ cache' # cache \/ generating' # generating
    /\ UNCHANGED <<mailbox, unchangedByPlanner>>

-----------------------------------------------------------------------------
Next ==
    \/ StateUpdated \/ TaskEnded \/ BotDies \/ RequestEvaluation
    \/ Receive \/ Generate \/ EntryAges \/ KeyChanges

Spec == Init /\ [][Next]_vars

(* The actor takes its messages, a call of Generate returns (its request    *)
(* has a timeout), and the bot keeps sending its state every second.        *)
FairSpec == Spec /\ WF_vars(Receive) /\ WF_vars(Generate) /\ SF_vars(StateUpdated)

-----------------------------------------------------------------------------
Message ==
    [type : {"STATE_UPDATED"}, payload : [Version : {1}, State : GameState]]
      \union [type : {"StateUpdate"}, state : GameState]
      \union [type : {"TASK_END", "TaskEnd"}, id : Id \union {NoTask}, success : BOOLEAN]
      \union [type : {"BOT_DEATH", "BotDeath", "EvalTrigger"}]
      \union [type : {"PlanReady"}, plan : Plan \union {NoPlan}]

TypeOK ==
    /\ mailbox \in Seq(Message)
    /\ state \in GameState
    /\ activePlan \in Plan \union {NoPlan}
    /\ evaluating \in BOOLEAN /\ milestones \subseteq Item
    /\ generating \in [at : {"rest", "lookup", "once", "ask"}, key : Key \union {"past"}]
    /\ failing \subseteq Objective /\ running \subseteq Tag \union {ModelTag}
    /\ cache \in [Key -> [plan : Plan, fresh : BOOLEAN] \union {NoEntry}]

(* The flag `evaluating` stands for one evaluation, neither more nor less:  *)
(* while it is set a goroutine is planning or its answer is on the way, and *)
(* never both.  Were it set without, the actor would never plan again.      *)
Answers == {n \in DOMAIN mailbox : mailbox[n].type = "PlanReady"}

OneEvaluation ==
    /\ evaluating <=> (generating.at # "rest" \/ Answers # {})
    /\ generating.at # "rest" => Answers = {}
    /\ \A m, n \in Answers : m = n

(* No end of a task of an earlier plan can be taken for one of a new plan:  *)
(* whatever plan is taken up, from the cache or from the language model,    *)
(* shares no task ID with what may still be reported.                       *)
NewPlanNewIDs ==
    [][ (activePlan' # activePlan /\ activePlan' # NoPlan
            /\ Head(mailbox).type = "PlanReady")
           => Tags(activePlan') \intersect Reported = {} ]_vars

(* The actor keeps trying: no evaluation lasts for ever, and as long as the *)
(* bot reports its state there is a plan or another evaluation, whatever    *)
(* fails.                                                                   *)
PlannerKeepsTrying ==
    /\ []<>(~evaluating)
    /\ []<>(evaluating \/ activePlan # NoPlan)

-----------------------------------------------------------------------------
(* What comments of the code say, and the code does not do                  *)

(* service.go:126, "Trigger re-evaluation if there are threats": a state    *)
(* with threats that arrives while a plan is active leads to an evaluation. *)
ThreatsArrive ==
    \E n \in DOMAIN mailbox :
        mailbox[n].type = "STATE_UPDATED" /\ mailbox[n].payload.State.Threats

ThreatsReevaluated ==
    (activePlan # NoPlan /\ ThreatsArrive) ~> (evaluating \/ activePlan = NoPlan)

=============================================================================
