----------------------------- MODULE AmadeusCircuit -----------------------------
(***************************************************************************)
(* The circuit breaker all calls to Amadeus share in a process.  A call is   *)
(* retried up to three times inside the breaker, which hears of its last     *)
(* attempt only.  Every attempt sends the token of the process's cache, or    *)
(* fetches one.  Time is reduced to whether the cooldown is over.              *)
(***************************************************************************)
EXTENDS Integers

CONSTANTS
    Callers,          \* who may have a call under way
    FailureThreshold,
    Revocations       \* bound

ASSUME CircuitConstantsOK == FailureThreshold \in Nat \ {0} /\ Revocations \in Nat

VARIABLES
    circuit, \* the CircuitBreaker: state, failure_count, and whether reset_timeout is over
    calling, \* the callers whose call is under way
    refused, \* those of them that have only a revoked token to send
    revoked, \* the token of the cache is good no more, though it has not expired
    revocations

token == <<revoked, revocations>>

circuitVars == <<circuit, calling, refused, token>>

Circuit == [state : {"closed", "open", "half_open"}, failures : 0..FailureThreshold, cooled : BOOLEAN]

CircuitInit ==
    /\ circuit = [state |-> "closed", failures |-> 0, cooled |-> FALSE]
    /\ calling = {} /\ refused = {} /\ revoked = FALSE /\ revocations = 0

TripOpen(failures) == [state |-> "open", failures |-> failures, cooled |-> FALSE]

OnSuccess == [state |-> "closed", failures |-> 0, cooled |-> FALSE]

\* (The count stops at the threshold, past which the code compares it with nothing.)
OnFailure ==
    LET failures == IF circuit.failures = FailureThreshold THEN FailureThreshold
                    ELSE circuit.failures + 1
    IN IF circuit.state = "half_open" THEN TripOpen(circuit.failures)
       ELSE IF failures = FailureThreshold THEN TripOpen(failures)
       ELSE [circuit EXCEPT !.failures = failures]

\* Mutant of Admits: one probe, and none after it while the circuit is half open.
AdmitsOneProbe == circuit.state = "closed" \/ (circuit.state = "open" /\ circuit.cooled)

\* _before_call lets the call go on.
Admits == circuit.state # "open" \/ circuit.cooled

BeginCall(k) ==
    /\ Admits /\ k \notin calling
    /\ circuit' = IF circuit.state = "open" THEN [circuit EXCEPT !.state = "half_open"] ELSE circuit
    /\ calling' = calling \cup {k}
    /\ refused' = IF revoked THEN refused \cup {k} ELSE refused

CallEnds(gone) == calling' = calling \ gone /\ refused' = refused \ gone

\* An answer, or a refusal that is the caller's fault (400, 404).
CallAnswered(k) ==
    /\ k \in calling \ refused /\ CallEnds({k})
    /\ circuit' = OnSuccess

\* Any other exception counts, at any time: the third attempt has timed out or been answered
\* 429 or 5xx; any other status, a 401 among them, has been made a 502; no token was to
\* be had; or what a 200 brought does not parse.
CallFails(k) ==
    /\ k \in calling /\ CallEnds({k})
    /\ circuit' = OnFailure

CoolsDown ==
    /\ circuit.state = "open" /\ ~circuit.cooled
    /\ circuit' = [circuit EXCEPT !.cooled = TRUE]
    /\ UNCHANGED <<calling, refused, token>>

RevokesToken ==
    /\ ~revoked /\ revocations < Revocations
    /\ revoked' = TRUE /\ revocations' = revocations + 1
    /\ UNCHANGED <<circuit, calling, refused>>

\* Only its age makes fetch_token ask for another token: a 401 leaves it in the cache.
TokenExpires ==
    /\ revoked /\ revoked' = FALSE /\ refused' = {}
    /\ UNCHANGED <<circuit, calling, revocations>>

=============================================================================
