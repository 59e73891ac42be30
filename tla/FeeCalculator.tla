---------------------------- MODULE FeeCalculator ----------------------------
(***************************************************************************)
(* calculate_fee of zk-token-sdk/src/instruction/transfer_with_fee.rs:    *)
(* the transfer fee in basis points, rounded up, and the rounding delta   *)
(* delta_fee = fee * 10_000 - amount * rate that the fee sigma proof and  *)
(* the range proof are built on.  The u128 and u64 integer types keep     *)
(* their (scaled) widths: every checked_* step returns None on overflow   *)
(* and the final u64::try_from fails when the fee does not fit in a u64.  *)
(*                                                                         *)
(* The module also gives the caller of calculate_fee as a state machine:  *)
(* each step is one call with a u64 amount and a u16 rate.                *)
(***************************************************************************)
EXTENDS Integers

CONSTANTS
    U16_BITS,             \* width of u16 (fee_rate_basis_points)
    U64_BITS,             \* width of u64 (transfer_amount, the returned fee)
    U128_BITS,            \* width of u128 (the widened intermediate values)
    ONE_IN_BASIS_POINTS,  \* MAX_FEE_BASIS_POINTS as u128, 10_000 in the code
    None                  \* Option::None

ASSUME /\ U16_BITS \in Nat /\ U64_BITS \in Nat /\ U128_BITS \in Nat
       /\ ONE_IN_BASIS_POINTS \in Nat \ {0}

Fits(x, w) == 0 <= x /\ x < 2^w

\* checked_mul / checked_add / checked_sub on u128: None when the exact
\* result leaves 0 .. 2^128 - 1.
CheckedU128(x) == IF Fits(x, U128_BITS) THEN x ELSE None

\* Mutation: the fee is not rounded up (`fee += 1` dropped).
calculate_fee_floor(transfer_amount, fee_rate_basis_points) ==
    LET numerator  == CheckedU128(transfer_amount * fee_rate_basis_points)
        quotient   == numerator \div ONE_IN_BASIS_POINTS
        remainder  == numerator % ONE_IN_BASIS_POINTS
        scaled_fee == CheckedU128(quotient * ONE_IN_BASIS_POINTS)
        delta_fee  == IF remainder > 0 THEN CheckedU128(scaled_fee - numerator) ELSE 0
    IN  IF \/ numerator = None
           \/ remainder > 0 /\ (scaled_fee = None \/ delta_fee = None)
           \/ ~Fits(quotient, U64_BITS)
        THEN None
        ELSE [fee |-> quotient, delta_fee |-> delta_fee % 2^U64_BITS]

\* fn calculate_fee(transfer_amount: u64, fee_rate_basis_points: u16)
\*     -> Option<(u64, u64)>
\* checked_div and checked_rem only fail for a zero divisor, which
\* ONE_IN_BASIS_POINTS is not.  `delta_fee as u64` truncates to 64 bits.
calculate_fee(transfer_amount, fee_rate_basis_points) ==
    LET numerator  == CheckedU128(transfer_amount * fee_rate_basis_points)
        quotient   == numerator \div ONE_IN_BASIS_POINTS
        remainder  == numerator % ONE_IN_BASIS_POINTS
        fee        == IF remainder > 0 THEN CheckedU128(quotient + 1) ELSE quotient
        scaled_fee == CheckedU128(fee * ONE_IN_BASIS_POINTS)
        delta_fee  == IF remainder > 0 THEN CheckedU128(scaled_fee - numerator) ELSE 0
    IN  IF \/ numerator = None
           \/ fee = None
           \/ remainder > 0 /\ (scaled_fee = None \/ delta_fee = None)
           \/ ~Fits(fee, U64_BITS)
        THEN None
        ELSE [fee |-> fee, delta_fee |-> delta_fee % 2^U64_BITS]

\* Reference definition: the fee is amount * rate / 10_000 rounded up.
CeilFee(amount, rate) ==
    (amount * rate + ONE_IN_BASIS_POINTS - 1) \div ONE_IN_BASIS_POINTS

-----------------------------------------------------------------------------
(* The caller: one call of calculate_fee per step.                         *)

VARIABLES input, output
vars == <<input, output>>

U64 == 0 .. 2^U64_BITS - 1
U16 == 0 .. 2^U16_BITS - 1

Init == input = None /\ output = None

Calculate(amount, rate) ==
    /\ input' = [transfer_amount |-> amount, fee_rate_basis_points |-> rate]
    /\ output' = calculate_fee(amount, rate)

Next == \E amount \in U64, rate \in U16 : Calculate(amount, rate)

Spec == Init /\ [][Next]_vars

-----------------------------------------------------------------------------
\* calculate_fee returns exactly the rounded-up fee with
\* fee * 10_000 - amount * rate = delta_fee and 0 <= delta_fee < 10_000,
\* for every u16 rate (also rates above 10_000, which nothing rejects),
\* and it returns None only when the rounded-up fee does not fit in a u64.
CalculateFeeIsCeiling ==
    input # None =>
        LET a == input.transfer_amount
            r == input.fee_rate_basis_points
            f == CeilFee(a, r)
        IN  IF f >= 2^U64_BITS
            THEN output = None
            ELSE /\ output # None
                 /\ output.fee = f
                 /\ output.delta_fee = f * ONE_IN_BASIS_POINTS - a * r
                 /\ 0 <= output.delta_fee
                 /\ output.delta_fee < ONE_IN_BASIS_POINTS
=============================================================================
