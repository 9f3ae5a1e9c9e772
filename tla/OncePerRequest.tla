--------------------------- MODULE OncePerRequest ---------------------------
(***************************************************************************)
(* What idempotency promises: a request is carried out at most once, and   *)
(* whoever repeats it is told the result of that one time, or an error.    *)
(***************************************************************************)
CONSTANTS Keys, Results, None

VARIABLES
    result,  \* result[k]: what carrying out request k gave, None before that
    answers  \* the answers given so far, as pairs of a request and a result

onceVars == <<result, answers>>

OnceInit ==
    /\ result = [k \in Keys |-> None]
    /\ answers = {}

\* The request is carried out; the caller may not hear of it.
Perform(k, r) ==
    /\ result[k] = None
    /\ result' = [result EXCEPT ![k] = r]
    /\ answers' \in {answers, answers \cup {<<k, r>>}}

Answer(k) ==
    /\ result[k] # None
    /\ answers' = answers \cup {<<k, result[k]>>}
    /\ UNCHANGED result

OnceNext == \E k \in Keys : Answer(k) \/ \E r \in Results : Perform(k, r)

OnceSpec == OnceInit /\ [][OnceNext]_onceVars

=============================================================================
