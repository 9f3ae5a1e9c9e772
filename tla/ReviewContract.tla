--------------------------- MODULE ReviewContract ---------------------------
(***************************************************************************)
(* What the method promises of one project, without stages, transactions   *)
(* or approval rows: phases are climbed one at a time, each phase above    *)
(* the first makes its artifact from a version the user signed, and only a *)
(* signed, favourable verification of the latest design closes a project.  *)
(* The operations of the service may interleave in any way that keeps to   *)
(* this; Workflow (one operation at a time) and PgWorkflow (concurrent     *)
(* transactions) are both shown to.  A project may be started over only    *)
(* where a create request can be repeated with another project type.       *)
(***************************************************************************)
EXTENDS Naturals

CONSTANT MayStartOver  \* whether a project may go back to its draft

VARIABLES
    phase,    \* 0: no project, 1: draft, 2..7: the phase reached, 8: final
    versions, \* versions[k]: how many versions of kind k exist
    signed,   \* signed[k]: the versions of kind k the user approved
    passing,  \* the verifications that passed without critical errors
    final     \* the final design, 0 while there is none

contractVars == <<phase, versions, signed, passing, final>>

\* The phases in which a kind is made, and the kinds that need a signature
\* before the next phase begins; a design is signed through its verification.
MadeIn ==
    [ANALYSIS |-> 2, STRUCTURE |-> 3, RESOURCES |-> 4, ART_DIRECTION |-> 5,
     DESIGN |-> 6, VERIFICATION |-> 7]

Kinds == DOMAIN MadeIn

SignedOff(k) == versions[k] # 0 /\ versions[k] \in signed[k]

ContractInit ==
    /\ phase = 0
    /\ versions = [k \in Kinds |-> 0]
    /\ signed = [k \in Kinds |-> {}]
    /\ passing = {}
    /\ final = 0

Open ==
    /\ phase = 0 /\ phase' = 1
    /\ UNCHANGED <<versions, signed, passing, final>>

\* Back to the draft; what was made and signed is kept.
StartOver ==
    /\ MayStartOver
    /\ phase # 0 /\ phase' = 1
    /\ final' = 0
    /\ UNCHANGED <<versions, signed, passing>>

\* A new version of kind k, made in the next phase or again in one already
\* reached; later phases have to be climbed anew.
Make(k) ==
    /\ phase \in (MadeIn[k] - 1)..7
    /\ \A j \in Kinds \ {"DESIGN"} : MadeIn[j] = MadeIn[k] - 1 => SignedOff(j)
    /\ phase' = MadeIn[k]
    /\ versions' = [versions EXCEPT ![k] = @ + 1]
    /\ \/ UNCHANGED passing
       \/ k = "VERIFICATION" /\ passing' = passing \cup {versions'[k]}
    /\ UNCHANGED <<signed, final>>

\* A signature, of any version: one given for a superseded version is harmless.
Sign(k) ==
    /\ \E v \in 1..versions[k] : signed' = [signed EXCEPT ![k] = @ \cup {v}]
    /\ UNCHANGED <<phase, versions, passing, final>>

Close ==
    /\ phase = 7
    /\ SignedOff("VERIFICATION") /\ versions["VERIFICATION"] \in passing
    /\ phase' = 8
    /\ final' = versions["DESIGN"]
    /\ UNCHANGED <<versions, signed, passing>>

ContractNext ==
    Open \/ StartOver \/ Close \/ \E k \in Kinds : Make(k) \/ Sign(k)

ContractSpec == ContractInit /\ [][ContractNext]_contractVars

-----------------------------------------------------------------------------

\* What a step-by-step reading does not show: whatever was sent back, made again
\* or signed late on the way, a phase that has been reached has an artifact,
\* the latest version of every kind behind it is signed, and a closed project
\* has the latest design, under a favourable verification.
PhasesAreEarned ==
    /\ \A k \in Kinds :
          /\ phase >= MadeIn[k] => versions[k] # 0
          /\ phase > MadeIn[k] /\ k # "DESIGN" => SignedOff(k)
    /\ phase = 8 => final = versions["DESIGN"] /\ versions["VERIFICATION"] \in passing

=============================================================================
