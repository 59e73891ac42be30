------------------------- MODULE MC_TransferWithFee -------------------------
(***************************************************************************)
(* TransferWithFee for TLC.  Bit widths are the code's divided by 16:     *)
(* u64 -> 4 bits, the 16/32-bit limbs -> 1/2 bits, RangeProof256 -> 16   *)
(* bits, decrypt_u32 -> 2 bits.  10_000 basis points become 4, and the    *)
(* scalar field has order 67 > 2^4 * 4, so that, as for the real group    *)
(* order, no honest value or fee product wraps, while forged values and   *)
(* negated openings do.                                                    *)
(***************************************************************************)
EXTENDS TransferWithFee

MC_BIT_SCALE == 16
MC_LO_BITS_NARROW == 16
MC_LO_BITS_WIDE == 32
MC_MAX_FEE_BASIS_POINTS == 4
MC_P == 67

\* Amounts around the 3-bit limit of the narrow split (8 does not fit) and
\* around the balance 5; rates 0, below and above 100% (4); a maximum fee
\* below and above the fees of these amounts.
MC_Amounts == {0, 5, 7, 8}
MC_Balances == {5, 15}
MC_Rates == {0, 3, 5}
MC_MaxFees == {1, 3}
MC_Openings == {1, 2}
MC_TamperAmounts == {0, 7}
MC_TamperRates == {3}

\* The old source ciphertext holds the balance read, or the other balance.
MC_NoStaleBalances == {}
MC_StaleBalances == MC_Balances

\* Forged limbs: in range, just out of range (4 = 2^2, 5) and negative (66);
\* as claimed deltas 4 and 5 are 10_000 and just above it.
MC_ForgedValues == {0, 1, 4, 5, 66}
MC_ForgedFees == {0, 1, 3, 17}
\* Fees at the edge of u64 (15 = u64::MAX scaled, 16 the first above it),
\* 17 = 1/4 mod 67 (10_000 is 4) and 66 = -1.
MC_ForgedFeesEdge == {0, 1, 15, 16, 17, 66}
MC_ForgedFeesU64 == 0 .. 2^(64 \div MC_BIT_SCALE) - 1

\* The client alone: new, verify, decrypt_amount.
ClientSpec == Init /\ [][ClientNext]_vars

\* A built artifact changed in transit, then verified.
TamperSpec == Init /\ [][NewStep \/ (\E f \in TamperFields : Tamper(f)) \/ Verify]_vars

\* A forging prover's artifact, verified and decrypted by the receiving
\* roles (the source's decryption is the client's).
ForgeSpec == Init /\ [][ForgeStep \/ Verify \/ \E role \in {"Dest", "Auditor"} : DecryptAmount(role)]_vars
=============================================================================
