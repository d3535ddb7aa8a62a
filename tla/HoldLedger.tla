----------------------------- MODULE HoldLedger -----------------------------
(***************************************************************************)
(* What the billing of one batch image job promises its user: the estimate *)
(* is set aside once, and what was set aside is then either charged, up to *)
(* its amount and with the rest given back, or given back whole; neither   *)
(* twice, and nothing that is not set aside is ever moved.                 *)
(*                                                                         *)
(* Both happen only to a job whose outcome is in doubt: its settlement was *)
(* given up after as many failures as it may have, or a worker failed it   *)
(* while another settled it.  The second of the two then moves what other  *)
(* jobs of the user have set aside.                                        *)
(***************************************************************************)
EXTENDS Integers

CONSTANTS
    Balance,    \* the user's balance before the job
    OtherHold,  \* what the user's other jobs have set aside
    Hold        \* the estimate of this job

VARIABLES
    balance,    \* what the user can spend
    frozen,     \* what is set aside
    hold,       \* this job's part of it
    doubtful    \* the outcome of the job is in doubt

vars == <<balance, frozen, hold, doubtful>>

Init ==
    /\ balance = Balance
    /\ frozen = OtherHold
    /\ hold = "none"
    /\ doubtful = FALSE

Reserve ==
    /\ hold = "none"
    /\ balance >= Hold
    /\ hold' = "held"
    /\ balance' = balance - Hold
    /\ frozen' = frozen + Hold

\* The hold ends in one way, or, in doubt, in the other as well.
Ends(way, other) ==
    /\ frozen >= Hold
    /\ frozen' = frozen - Hold
    /\ \/ hold = "held" /\ hold' = way
       \/ hold = other /\ doubtful /\ hold' = "both"

Capture(cost) ==
    /\ Ends("captured", "released")
    /\ balance' = balance + (Hold - cost)

Release ==
    /\ Ends("released", "captured")
    /\ balance' = balance + Hold

Elsewhere == UNCHANGED <<balance, frozen, hold>>

Next ==
    /\ Reserve \/ (\E cost \in 0..Hold : Capture(cost)) \/ Release \/ Elsewhere
    /\ doubtful => doubtful'

Spec == Init /\ [][Next]_vars
=============================================================================
