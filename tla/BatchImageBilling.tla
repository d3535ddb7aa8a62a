------------------------- MODULE BatchImageBilling -------------------------
(***************************************************************************)
(* The billing store as batch image jobs use it: the user's row, the       *)
(* deduplication table and the transactions of usageBillingRepository.  A  *)
(* wallet is the part of the store one job can touch: the user's balance   *)
(* and frozen balance, and the request IDs that were claimed for the job.  *)
(* Each transaction claims its request ID and applies its effect together; *)
(* one whose ID was claimed before succeeds without effect.                *)
(***************************************************************************)
EXTENDS Integers

CONSTANTS
    Balance,    \* the user's balance before the job
    OtherHold,  \* what the user's other jobs have frozen
    Hold,       \* job.HoldAmount
    Cost        \* cost of the images of an output that stays within the hold

ASSUME AmountsAssumption ==
    /\ Balance \in Nat /\ OtherHold \in Nat
    /\ Hold \in Nat \ {0}
    /\ Cost \in 0..Hold

\* Request IDs of the job: BatchImageHoldRequestID and its like.
RequestIDs == {"hold", "capture", "release"}

\* given: whether the release moved money (only the claim is stored).
\* used: how often the job's cost was added to the usage counters.
Wallets == [balance : Int, frozen : Int, claims : SUBSET RequestIDs,
            given : BOOLEAN, used : Nat]

NewWallet == [balance |-> Balance, frozen |-> OtherHold, claims |-> {},
              given |-> FALSE, used |-> 0]

\* claimUsageBillingRequest: the ID is new.
Unclaimed(v, id) == id \notin v.claims
Claim(v, id) == [v EXCEPT !.claims = @ \cup {id}]

\* ReserveBatchImageBalance.
ReserveOK(v) == Unclaimed(v, "hold") => v.balance >= Hold
Reserve(v) ==
    IF Unclaimed(v, "hold")
      THEN [Claim(v, "hold") EXCEPT !.balance = @ - Hold, !.frozen = @ + Hold]
      ELSE v

\* CaptureBatchImageBalance: what was frozen and not used goes back.
CaptureOK(v) == Unclaimed(v, "capture") => v.frozen >= Hold
Capture(v) ==
    IF Unclaimed(v, "capture")
      THEN [Claim(v, "capture") EXCEPT !.balance = @ + (Hold - Cost), !.frozen = @ - Hold]
      ELSE v

\* Mutant: the release does not ask whether the hold was ever reserved.
ReleasePhantom(v) ==
    IF Unclaimed(v, "release")
      THEN [Claim(v, "release") EXCEPT !.balance = @ + Hold, !.frozen = @ - Hold, !.given = TRUE]
      ELSE v

\* ReleaseBatchImageBalance: a release of a hold that was never reserved
\* claims the request ID and moves no money.
ReleaseOK(v) ==
    Unclaimed(v, "release") /\ ~Unclaimed(v, "hold") => v.frozen >= Hold
Release(v) ==
    IF ~Unclaimed(v, "release") THEN v
    ELSE IF Unclaimed(v, "hold") THEN Claim(v, "release")
    ELSE [Claim(v, "release") EXCEPT !.balance = @ + Hold, !.frozen = @ - Hold, !.given = TRUE]

\* Apply: the usage of an operator's job is added to the counters of the key
\* and the account, under the same request ID as the capture.
Apply(v) ==
    IF Unclaimed(v, "capture") THEN [Claim(v, "capture") EXCEPT !.used = @ + 1] ELSE v

\* The hold is reserved and neither charged nor given back.
Outstanding(v) == "hold" \in v.claims /\ "capture" \notin v.claims /\ ~v.given
=============================================================================
