------------------------------- MODULE DangerFSM -------------------------------
(***************************************************************************)
(* The danger analyzer (internal/state/danger_fsm.go).  The execution      *)
(* supervisor is to feed it with every state (DangerUpdateMsg); as the     *)
(* server is wired nothing sends it any.                                   *)
(*                                                                         *)
(* A danger is a class: 0 up to 0.2, 1 up to 0.4, 2 below 0.6, 3 below     *)
(* 0.8, 4 below 0.9, 5 from there on.  Time is counted in seconds.         *)
(***************************************************************************)
EXTENDS Naturals, FiniteSetsExt

VARIABLES
    currentState,
    sinceChange,    \* the age of lastStateChange
    sinceEscape     \* the age of lastEscapeTime

vars == <<currentState, sinceChange, sinceEscape>>

Class == 0..5
AgeCap == 6   \* bound: nothing asks for more than "over 5 seconds"
GameState == [Threats : SUBSET {1, 4}, Health : Class, hazard : BOOLEAN]

Init == currentState = "SAFE" /\ sinceChange = 0 /\ sinceEscape = AgeCap

Older(age) == IF age = AgeCap THEN age ELSE age + 1

Tick ==
    /\ sinceChange' = Older(sinceChange) /\ sinceEscape' = Older(sinceEscape)
    /\ <<sinceChange', sinceEscape'>> # <<sinceChange, sinceEscape>>
    /\ UNCHANGED currentState

(* The nearest threat or the lost health, whichever is worse; a hazard is   *)
(* the worst.                                                               *)
CalculateDanger(s) == IF s.hazard THEN 5 ELSE Max(s.Threats \union {s.Health})

(* Bug: the cooldown window holds for lethal danger too                     *)
RetriggersLate(danger) == danger >= 3 /\ sinceEscape > 3
Retriggers(danger) == danger = 5 \/ (danger >= 3 /\ sinceEscape > 3)

NextState(danger) ==
    CASE currentState \in {"SAFE", "ALERT"} ->
            IF danger >= 4 THEN "ESCAPE"
            ELSE IF currentState = "SAFE" /\ danger = 3 THEN "ALERT"
            ELSE IF danger <= 1 THEN "SAFE" ELSE currentState
      [] currentState = "ESCAPE" ->
            IF danger <= 1 /\ sinceChange > 3 THEN "RECOVERING" ELSE "ESCAPE"
      [] currentState = "RECOVERING" ->
            IF Retriggers(danger) THEN "ESCAPE"
            ELSE IF danger = 0 /\ sinceChange > 5 THEN "SAFE" ELSE "RECOVERING"

Transition(new) ==
    /\ currentState' = new
    /\ sinceChange' = IF new = currentState THEN sinceChange ELSE 0
    /\ sinceEscape' = IF currentState = "ESCAPE" /\ new # "ESCAPE" THEN 0 ELSE sinceEscape

Update(s) == Transition(NextState(CalculateDanger(s)))

Next == Tick \/ \E s \in GameState : Update(s)

-----------------------------------------------------------------------------
TypeOK ==
    /\ currentState \in {"SAFE", "ALERT", "ESCAPE", "RECOVERING"}
    /\ sinceChange \in 0..AgeCap /\ sinceEscape \in 0..AgeCap

(* Hysteresis never hides danger, nor ends it early: whatever the analyzer  *)
(* has been through, a lethal state leads to the escape at once, and calm   *)
(* is only reached more than 5 seconds after the last escape has ended.     *)
DangerFollowed ==
    /\ \A s \in GameState : CalculateDanger(s) = 5 => NextState(CalculateDanger(s)) = "ESCAPE"
    /\ currentState \in {"SAFE", "ALERT"} => sinceEscape > 5

=============================================================================
