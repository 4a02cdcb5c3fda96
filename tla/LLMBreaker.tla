------------------------------ MODULE LLMBreaker ------------------------------
(***************************************************************************)
(* The circuit breaker of the language model client                        *)
(* (internal/llm/client.go).  The planner calls it in two goroutines, that *)
(* of an evaluation and SlowReplanLoop (nothing triggers the latter yet); a *)
(* call looks at the circuit once, and its request, which it starts some   *)
(* time after, may take two minutes, in which the circuit opens and        *)
(* closes.  A call is counted from the look to the report, so that it      *)
(* makes no difference when between the two the request starts.  Time is   *)
(* counted in ticks of 10 seconds.                                         *)
(***************************************************************************)
EXTENDS Naturals

CONSTANTS Caller, Limit   \* errors in a row that open the circuit (3)

VARIABLES
    errorCount,
    circuitOpen,
    sinceError, \* the age of lastError, up to Window + 1
    openLeft,   \* the time until openUntil
    calls       \* [Caller -> whether it has passed the circuit and not reported]

vars == <<errorCount, circuitOpen, sinceError, openLeft, calls>>

Window == 3     \* errors more than 30 seconds apart are not in a row
Opening == 6    \* 60 seconds

Init ==
    /\ errorCount = 0 /\ circuitOpen = FALSE
    /\ sinceError = Window + 1 /\ openLeft = 0
    /\ calls = [w \in Caller |-> FALSE]

Tick ==
    /\ sinceError' = IF sinceError > Window THEN sinceError ELSE sinceError + 1
    /\ openLeft' = IF openLeft = 0 THEN 0 ELSE openLeft - 1
    /\ <<sinceError', openLeft'>> # <<sinceError, openLeft>>
    /\ UNCHANGED <<errorCount, circuitOpen, calls>>

(* IsCircuitOpen forgets an opening that is over, and the errors with it.   *)
Expired == circuitOpen /\ openLeft = 0

Call(w) ==
    /\ ~calls[w]
    /\ circuitOpen' = (circuitOpen /\ ~Expired)
    /\ errorCount' = IF Expired THEN 0 ELSE errorCount
    /\ calls' = [calls EXCEPT ![w] = ~circuitOpen']   \* else ErrCircuitOpen
    /\ UNCHANGED <<sinceError, openLeft>>

(* Plans are asked of the one, the skills to put into a prompt of the other. *)
GenerateWithFormat(w) == Call(w)
CreateEmbedding(w) == Call(w)

(* The request cannot be made (http.NewRequestWithContext): nothing is      *)
(* recorded.                                                                *)
GivesUp(w) ==
    /\ calls[w]
    /\ calls' = [calls EXCEPT ![w] = FALSE]
    /\ UNCHANGED <<errorCount, circuitOpen, sinceError, openLeft>>

(* recordSuccess, before the answer is decoded *)
Succeeds(w) ==
    /\ calls[w]
    /\ errorCount' = 0 /\ circuitOpen' = FALSE
    /\ calls' = [calls EXCEPT ![w] = FALSE]
    /\ UNCHANGED <<sinceError, openLeft>>

(* recordError: no answer, or another status than 200.  The count stops     *)
(* mattering at the limit (bound).                                          *)
InARow ==
    IF sinceError > Window THEN 1 ELSE IF errorCount < Limit THEN errorCount + 1 ELSE Limit

OpenWhileCounting(n) == n >= Limit   \* bug: a late error on its own closes the circuit
OpenAfter(n) == circuitOpen \/ n >= Limit

Fails(w) ==
    /\ calls[w]
    /\ errorCount' = InARow
    /\ sinceError' = 0
    /\ circuitOpen' = OpenAfter(InARow)
    /\ openLeft' = IF InARow >= Limit THEN Opening ELSE openLeft
    /\ calls' = [calls EXCEPT ![w] = FALSE]

Next ==
    \/ Tick
    \/ \E w \in Caller :
          GenerateWithFormat(w) \/ CreateEmbedding(w) \/ GivesUp(w) \/ Succeeds(w) \/ Fails(w)

-----------------------------------------------------------------------------
TypeOK ==
    /\ errorCount \in 0..Limit /\ circuitOpen \in BOOLEAN
    /\ sinceError \in 0..(Window + 1) /\ openLeft \in 0..Opening
    /\ calls \in [Caller -> BOOLEAN]

(* Once errors in a row have opened the circuit no call passes it for a     *)
(* minute, whatever the calls that have passed before report and whenever   *)
(* they do, unless one of them succeeds; and nothing shortens the minute.   *)
Silent == circuitOpen /\ openLeft > 0

OpenSilent ==
    [][ Silent => /\ circuitOpen' \/ \E w \in Caller : Succeeds(w)
                  /\ openLeft' >= openLeft - 1
                  /\ \A w \in Caller : calls'[w] => calls[w] ]_vars

=============================================================================
