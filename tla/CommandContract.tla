-------------------------- MODULE CommandContract --------------------------
(***************************************************************************)
(* What a command promises to those who look at the coordinator's data:    *)
(* while none runs, they see what is known of the device as soon as it is  *)
(* known; while one runs, they see nothing; and when it ends, they see     *)
(* what is known then, or nothing new.                                     *)
(***************************************************************************)
VARIABLES known,   \* what the device said last
          shown,   \* what is published
          busy     \* a command runs

contract == <<known, shown, busy>>

ContractInit == known = shown /\ busy = FALSE

\* The device says something.
Tell == ~busy /\ ~busy' /\ shown' = known'

Learn == busy /\ busy' /\ UNCHANGED shown

BeginCommand == ~busy /\ busy' /\ UNCHANGED <<known, shown>>

EndCommand == busy /\ ~busy' /\ shown' \in {shown, known'}

ContractNext == Tell \/ Learn \/ BeginCommand \/ EndCommand

ContractSpec == ContractInit /\ [][ContractNext]_contract
=============================================================================
