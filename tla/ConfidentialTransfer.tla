------------------------- MODULE ConfidentialTransfer -------------------------
(***************************************************************************)
(* What a transfer with fee promises (spec.md sections 1, 4.2 and 8),    *)
(* with no cryptography: a request to move an amount out of a spendable  *)
(* balance is either refused or turned into a transfer that moves exactly *)
(* the amount, leaves balance - amount, and withholds the rounded-up fee *)
(* clamped to the maximum fee; the transfer is accepted exactly when its *)
(* receiving keys are valid.                                               *)
(***************************************************************************)
EXTENDS Integers

CONSTANTS
    AMOUNT_LIMIT,         \* amounts from here on cannot be split into limbs
    ONE_IN_BASIS_POINTS,  \* 10_000
    Amounts, Balances, Rates, MaxFees,
    None

VARIABLES
    phase,      \* "idle", "error", "built", "accepted" or "refused"
    request,    \* the request, or None
    transfer    \* what the built transfer moves, or None

vars == <<phase, request, transfer>>

\* min(ceil(amount * rate / 10_000), max_fee)
AppliedFee(amount, rate, max_fee) ==
    LET fee == (amount * rate + ONE_IN_BASIS_POINTS - 1) \div ONE_IN_BASIS_POINTS
    IN  IF fee < max_fee THEN fee ELSE max_fee

Init ==
    /\ phase = "idle"
    /\ request = None
    /\ transfer = None

\* A transfer is requested; it can be built exactly when the amount is
\* representable and covered by the balance.
Request(amount, balance, rate, max_fee, receivers_valid) ==
    /\ phase = "idle"
    /\ request' = [amount |-> amount, balance |-> balance, rate |-> rate,
                   max_fee |-> max_fee, receivers_valid |-> receivers_valid]
    /\ IF amount < AMOUNT_LIMIT /\ amount <= balance
       THEN /\ phase' = "built"
            /\ transfer' = [amount |-> amount, fee |-> AppliedFee(amount, rate, max_fee),
                            new_balance |-> balance - amount]
       ELSE /\ phase' = "error"
            /\ transfer' = None

\* The built transfer is checked: accepted exactly for valid receivers.
Check ==
    /\ phase = "built"
    /\ phase' = IF request.receivers_valid THEN "accepted" ELSE "refused"
    /\ UNCHANGED <<request, transfer>>

Next ==
    \/ \E amount \in Amounts, balance \in Balances, rate \in Rates, max_fee \in MaxFees,
          receivers_valid \in BOOLEAN :
           Request(amount, balance, rate, max_fee, receivers_valid)
    \/ Check

Spec == Init /\ [][Next]_vars
=============================================================================
