---------------------------- MODULE CertReports -----------------------------
(***************************************************************************)
(* What the notification feed promises about delegation certificates: a    *)
(* report names certificates that have landed, later ones than any         *)
(* reported before, so each is shown to the operator at most once.  Some   *)
(* may never be: the watermark is stored before the report is made.        *)
(***************************************************************************)
EXTENDS Naturals

CONSTANT MaxCerts       \* bound: certificates that land

VARIABLES
    landed,             \* how many certificates have landed
    shown               \* how often each was shown

Init ==
    /\ landed = 0
    /\ shown = [id \in 1..MaxCerts |-> 0]

Land ==
    /\ landed < MaxCerts
    /\ landed' = landed + 1
    /\ UNCHANGED shown

Report(S) ==
    /\ \A i \in S : \A j \in 1..MaxCerts : shown[j] > 0 => j < i
    /\ shown' = [id \in 1..MaxCerts |-> IF id \in S THEN shown[id] + 1 ELSE shown[id]]
    /\ UNCHANGED landed

Next == Land \/ \E S \in SUBSET (1..landed) : Report(S)

Spec == Init /\ [][Next]_<<landed, shown>>
=============================================================================
