------------------------------ MODULE SharedGpu ------------------------------
(***************************************************************************)
(* What the hand-off promises about the GPU that the language model and    *)
(* ComfyUI share, without the broker's operations, its threads, the pauses *)
(* and their timeouts: the two never claim it together, interactive jobs   *)
(* are let in only when ComfyUI is out, and until they are through the GPU *)
(* does not change hands.  Only the upload of a source image breaks in.    *)
(***************************************************************************)
EXTENDS Naturals

VARIABLES
    tenants,  \* who claims the GPU
    leases,   \* hand-offs granted and not yet given back
    edit      \* the batch uploads a source image

gpuVars == <<tenants, leases, edit>>

Init == tenants = {"model"} /\ leases = 0 /\ edit \in BOOLEAN

\* ComfyUI comes, goes, or fails to come; the model goes and comes back, or does not.
ChangesHands ==
    /\ leases = 0 \/ edit
    /\ tenants' \in {{}, {"model"}, {"comfy"}}
    /\ UNCHANGED <<leases, edit>>

\* ComfyUI was out already, or has been sent away for it.
Grant ==
    /\ tenants' \in {tenants, {"model"}}
    /\ "comfy" \notin tenants' \/ edit
    /\ leases' = leases + 1
    /\ UNCHANGED edit

GiveBack == leases > 0 /\ leases' = leases - 1 /\ UNCHANGED <<tenants, edit>>

Next == ChangesHands \/ Grant \/ GiveBack

Spec == Init /\ [][Next]_gpuVars
=============================================================================
