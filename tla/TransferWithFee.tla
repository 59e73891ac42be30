--------------------------- MODULE TransferWithFee ---------------------------
(***************************************************************************)
(* The transfer-with-fee proof of zk-token-sdk/src/instruction/           *)
(* transfer_with_fee.rs: TransferWithFeeData::new (the prover),           *)
(* TransferWithFeeData::verify and TransferWithFeeProof::verify (the      *)
(* verifier) and decrypt_amount (the source, destination and auditor).    *)
(*                                                                         *)
(* Abstraction of the primitives (not under src/, modelled from the      *)
(* spec's contracts):                                                      *)
(*  - a Pedersen commitment x*G + r*H is the pair [m |-> x, r |-> r] of   *)
(*    scalars mod P: it is additively homomorphic and binding;            *)
(*  - a decrypt handle r*PK is [pk |-> PK, r |-> r]; for the identity key *)
(*    (ZeroKey) every handle is the identity, so its r is 0;              *)
(*  - a transcript is the sequence of its labelled appends; a challenge  *)
(*    is a function of that sequence;                                     *)
(*  - a sub-proof is [t, stmt, ok]: the transcript it drew its challenge *)
(*    from, the public statement it is about and whether the prover's    *)
(*    witness satisfies the relation.  It verifies against a statement   *)
(*    and a transcript iff both equal its own and ok holds (completeness *)
(*    and soundness of each sigma protocol and of the range proof).      *)
(* Bit widths are the code's divided by BIT_SCALE.                        *)
(***************************************************************************)
EXTENDS Integers, Sequences, SequencesExt

CONSTANTS
    BIT_SCALE,            \* real bit widths are divided by this
    LO_BITS_CONFIG,       \* TRANSFER_AMOUNT_LO_BITS before scaling: 16 or 32
    MAX_FEE_BASIS_POINTS, \* 10_000 in the code
    P,                    \* order of the scalar field
    SourceKey, DestinationKey, AuditorKey, WithdrawKey, \* ElGamal public keys
    ZeroKey,              \* pod::ElGamalPubkey::zeroed(), the identity point
    None,                 \* Option::None
    Amounts, Balances,    \* transfer amounts and spendable balances passed to new
    Rates, MaxFees,       \* fee_rate_basis_points and maximum_fee values
    Openings,             \* openings Pedersen::new may draw
    ForgedValues,         \* limbs, balances and deltas a forging prover commits to
    ForgedFees,           \* fees a forging prover commits to
    StaleBalances         \* other values the old source ciphertext may hold

Bits(n) == n \div BIT_SCALE

TRANSFER_SOURCE_AMOUNT_BITS == Bits(64)
TRANSFER_AMOUNT_LO_BITS == Bits(LO_BITS_CONFIG)
TRANSFER_AMOUNT_LO_NEGATED_BITS == Bits(16)
TRANSFER_AMOUNT_HI_BITS == Bits(32)
TRANSFER_DELTA_BITS == Bits(64)
RANGE_PROOF_256_BITS == Bits(256)   \* pod::RangeProof256
DECRYPT_U32_BITS == Bits(32)        \* decrypt_u32 solves discrete logs below 2^32

\* The `TRANSFER_AMOUNT_LO_BITS == 32` branch of new and verify.
WideVariant == TRANSFER_AMOUNT_LO_BITS = Bits(32)

Fee == INSTANCE FeeCalculator
         WITH U16_BITS <- Bits(16), U64_BITS <- Bits(64), U128_BITS <- Bits(128),
              ONE_IN_BASIS_POINTS <- MAX_FEE_BASIS_POINTS,
              input <- None, output <- None

ASSUME /\ LO_BITS_CONFIG \in {16, 32}
       /\ P \in Nat /\ P > 2^Bits(64) * MAX_FEE_BASIS_POINTS

-----------------------------------------------------------------------------
(* Group elements                                                          *)

Com(x, r) == [m |-> x % P, r |-> r % P]          \* Pedersen commitment
encode(x) == Com(x, 0)                           \* Pedersen::encode
CAdd(a, b) == Com(a.m + b.m, a.r + b.r)
CSub(a, b) == Com(a.m - b.m, a.r - b.r)
CMul(a, k) == Com(a.m * k, a.r * k)

Handle(pk, r) == [pk |-> pk, r |-> IF pk = ZeroKey THEN 0 ELSE r % P]

\* The plaintext a ciphertext gives under the secret key of pk: C - s*D is
\* x*G only when the handle carries the commitment's opening under pk.
DecryptedValue(ct, pk) ==
    IF pk # ZeroKey /\ ct.handle.pk = pk /\ ct.handle.r = ct.commitment.r
    THEN ct.commitment.m ELSE None

\* ElGamalCiphertext::decrypt_u32
decrypt_u32(ct, pk) ==
    LET x == DecryptedValue(ct, pk)
    IN  IF x # None /\ x < 2^DECRYPT_U32_BITS THEN x ELSE None

\* TransferAmountEncryption::new with opening r (Pedersen::new)
TransferAmountEncryption(amount, source, dest, auditor, r) ==
    [commitment |-> Com(amount, r),
     source_handle |-> Handle(source, r),
     destination_handle |-> Handle(dest, r),
     auditor_handle |-> Handle(auditor, r)]

\* FeeEncryption::new with opening r
FeeEncryption(amount, dest, withdraw, r) ==
    [commitment |-> Com(amount, r),
     destination_handle |-> Handle(dest, r),
     withdraw_withheld_authority_handle |-> Handle(withdraw, r)]

\* split_u64: (amount mod 2^lo, amount >> lo), an error when amount needs
\* more than lo + hi bits.
split_u64(amount, lo_bits, hi_bits) ==
    IF amount >= 2^(lo_bits + hi_bits) THEN None
    ELSE <<amount % 2^lo_bits, amount \div 2^lo_bits>>

\* combine_lo_hi_commitments / _openings / _ciphertexts: lo + hi * 2^bits
combine_lo_hi_commitments(lo, hi, bits) == CAdd(lo, CMul(hi, 2^bits))
combine_lo_hi_openings(r_lo, r_hi, bits) == (r_lo + r_hi * 2^bits) % P
combine_lo_hi_ciphertexts(lo, hi, bits) ==
    [commitment |-> combine_lo_hi_commitments(lo.commitment, hi.commitment, bits),
     handle |-> Handle(lo.handle.pk, combine_lo_hi_openings(lo.handle.r, hi.handle.r, bits))]

\* Mutation: the handle difference left unreduced modulo the group order.
CtSub_unreduced(a, b) ==
    [commitment |-> CSub(a.commitment, b.commitment),
     handle |-> [pk |-> a.handle.pk, r |-> a.handle.r - b.handle.r]]

CtSub(a, b) ==
    [commitment |-> CSub(a.commitment, b.commitment),
     handle |-> Handle(a.handle.pk, a.handle.r - b.handle.r)]

COMMITMENT_MAX == encode(2^TRANSFER_AMOUNT_LO_NEGATED_BITS - 1)
\* Mutations: the public commitment to 10_000 off by one either way.
COMMITMENT_MAX_FEE_BASIS_POINTS_below == encode(MAX_FEE_BASIS_POINTS - 1)
COMMITMENT_MAX_FEE_BASIS_POINTS_above == encode(MAX_FEE_BASIS_POINTS + 1)

COMMITMENT_MAX_FEE_BASIS_POINTS == encode(MAX_FEE_BASIS_POINTS)

\* fee * 10_000 - (lo + hi * 2^LO) * rate, on commitments and on openings
compute_delta_commitment_and_opening(c_lo, r_lo, c_hi, r_hi, c_fee, r_fee, rate) ==
    <<CSub(CMul(c_fee, MAX_FEE_BASIS_POINTS),
           CMul(combine_lo_hi_commitments(c_lo, c_hi, TRANSFER_AMOUNT_LO_BITS), rate)),
      (r_fee * MAX_FEE_BASIS_POINTS
         - combine_lo_hi_openings(r_lo, r_hi, TRANSFER_AMOUNT_LO_BITS) * rate) % P>>

\* Mutation: the verifier combines the limbs with the hi width.
compute_delta_commitment_hi_bits(c_lo, c_hi, c_fee, rate) ==
    CSub(CMul(c_fee, MAX_FEE_BASIS_POINTS),
         CMul(combine_lo_hi_commitments(c_lo, c_hi, TRANSFER_AMOUNT_HI_BITS), rate))

compute_delta_commitment(c_lo, c_hi, c_fee, rate) ==
    CSub(CMul(c_fee, MAX_FEE_BASIS_POINTS),
         CMul(combine_lo_hi_commitments(c_lo, c_hi, TRANSFER_AMOUNT_LO_BITS), rate))


-----------------------------------------------------------------------------
(* Transcript and sub-proofs                                               *)

\* Mutation: the lo source handle is not appended.
transcript_new_no_lo_source(keys, ct_lo, ct_hi, new_source_ciphertext, fee_ct) ==
    << <<"Transcript::new", "FeeProof">>,
       <<"pubkey-source", keys.source_pubkey>>,
       <<"pubkey-dest", keys.destination_pubkey>>,
       <<"pubkey-auditor", keys.auditor_pubkey>>,
       <<"withdraw_withheld_authority_pubkey", keys.withdraw_withheld_authority_pubkey>>,
       <<"comm-lo-amount", ct_lo.commitment>>,
       <<"handle-lo-dest", ct_lo.destination_handle>>,
       <<"handle-lo-auditor", ct_lo.auditor_handle>>,
       <<"comm-hi-amount", ct_hi.commitment>>,
       <<"handle-hi-source", ct_hi.source_handle>>,
       <<"handle-hi-dest", ct_hi.destination_handle>>,
       <<"handle-hi-auditor", ct_hi.auditor_handle>>,
       <<"ctxt-new-source", new_source_ciphertext>>,
       <<"comm-fee", fee_ct.commitment>>,
       <<"fee-dest-handle", fee_ct.destination_handle>>,
       <<"handle-fee-auditor", fee_ct.withdraw_withheld_authority_handle>> >>

\* TransferWithFeeProof::transcript_new: every public value, in this order.
transcript_new(keys, ct_lo, ct_hi, new_source_ciphertext, fee_ct) ==
    << <<"Transcript::new", "FeeProof">>,
       <<"pubkey-source", keys.source_pubkey>>,
       <<"pubkey-dest", keys.destination_pubkey>>,
       <<"pubkey-auditor", keys.auditor_pubkey>>,
       <<"withdraw_withheld_authority_pubkey", keys.withdraw_withheld_authority_pubkey>>,
       <<"comm-lo-amount", ct_lo.commitment>>,
       <<"handle-lo-source", ct_lo.source_handle>>,
       <<"handle-lo-dest", ct_lo.destination_handle>>,
       <<"handle-lo-auditor", ct_lo.auditor_handle>>,
       <<"comm-hi-amount", ct_hi.commitment>>,
       <<"handle-hi-source", ct_hi.source_handle>>,
       <<"handle-hi-dest", ct_hi.destination_handle>>,
       <<"handle-hi-auditor", ct_hi.auditor_handle>>,
       <<"ctxt-new-source", new_source_ciphertext>>,
       <<"comm-fee", fee_ct.commitment>>,
       <<"fee-dest-handle", fee_ct.destination_handle>>,
       <<"handle-fee-auditor", fee_ct.withdraw_withheld_authority_handle>> >>

\* The two appends that open both TransferWithFeeProof::new and ::verify.
append_proof_commitments(t, new_source_commitment, claimed_commitment) ==
    t \o << <<"commitment-new-source", new_source_commitment>>,
            <<"commitment-claimed", claimed_commitment>> >>

\* A sub-proof's own appends and challenges, the same for prover and verifier.
AfterProof(t, kind) == Append(t, <<kind, "challenge">>)

SubProof(t, stmt, ok) == [t |-> t, stmt |-> stmt, ok |-> ok]

Verifies(proof, t, stmt) == proof.ok /\ proof.t = t /\ proof.stmt = stmt

SumBits(bits) == LET plus(a, b) == a + b IN FoldLeft(plus, 0, bits)

\* range_proof.try_into(): a RangeProof256 covers exactly 256 bits, else
\* `expect("range proof: length error")` panics.
RangeProof256Fits(range_proof) ==
    SumBits(range_proof.stmt.bit_lengths) = RANGE_PROOF_256_BITS

(* The provers' sub-proofs: the statement each proves and whether the     *)
(* prover's witness satisfies it.                                         *)

\* CtxtCommEqualityProof::new: the ciphertext decrypts under the source
\* secret key to the value the new commitment opens to.
CtxtCommEqualityProof_new(pk, ciphertext, x, opening, t) ==
    SubProof(t, [pubkey |-> pk, ciphertext |-> ciphertext, commitment |-> Com(x, opening)],
             DecryptedValue(ciphertext, pk) = x)

\* AggregatedValidityProof::new over the lo and hi amounts; proving for
\* the identity key fails (spec: a zeroed pubkey must not verify).
AggregatedValidityProof_new(dest, auditor, x_lo, x_hi, r_lo, r_hi, t) ==
    SubProof(t, [pubkeys |-> <<dest, auditor>>,
                 commitments |-> <<Com(x_lo, r_lo), Com(x_hi, r_hi)>>,
                 destination_handles |-> <<Handle(dest, r_lo), Handle(dest, r_hi)>>,
                 auditor_handles |-> <<Handle(auditor, r_lo), Handle(auditor, r_hi)>>],
             dest # ZeroKey /\ auditor # ZeroKey)

\* FeeSigmaProof::new: an OR proof.  The real branch is the delta branch
\* when u64::ct_gt(max_fee, fee_amount), else the maximum-fee branch; the
\* other branch is simulated for this statement.
FeeSigmaProof_new(fee, c_fee, r_fee, delta, c_delta, r_delta, c_claimed, r_claimed, max_fee, t) ==
    SubProof(t, [fee_commitment |-> c_fee, delta_commitment |-> c_delta,
                 claimed_commitment |-> c_claimed, max_fee |-> max_fee],
             IF max_fee > fee
             THEN Com(delta, r_delta) = c_delta /\ Com(delta, r_claimed) = c_claimed
             ELSE Com(max_fee, r_fee) = c_fee)

\* ValidityProof::new for the fee ciphertext.
ValidityProof_new(dest, withdraw, x, r, t) ==
    SubProof(t, [commitment |-> Com(x, r), pubkeys |-> <<dest, withdraw>>,
                 handles |-> <<Handle(dest, r), Handle(withdraw, r)>>],
             dest # ZeroKey /\ withdraw # ZeroKey)

\* RangeProof::new: every value is below 2^(its bit length).
RangeProof_new(values, bit_lengths, openings, t) ==
    SubProof(t, [commitments |-> [i \in DOMAIN values |-> Com(values[i], openings[i])],
                 bit_lengths |-> bit_lengths],
             \A i \in DOMAIN values : 0 <= values[i] /\ values[i] < 2^bit_lengths[i])

ProofKinds == {"equality_proof", "ciphertext_amount_validity_proof", "fee_sigma_proof",
               "fee_ciphertext_validity_proof", "range_proof"}

\* TransferWithFeeProof::new
TransferWithFeeProof_new(x_lo, ct_lo, r_lo, x_hi, ct_hi, r_hi, source, dest, auditor, source_new_balance, new_source_ciphertext, fee_amount, fee_ct, r_fee, delta_fee, withdraw, fee_parameters, transcript, r_source, r_claimed) ==
    LET new_source_commitment == Com(source_new_balance, r_source)
        claimed_commitment == Com(delta_fee, r_claimed)
        t1 == append_proof_commitments(transcript, new_source_commitment, claimed_commitment)
        t2 == AfterProof(t1, "equality_proof")
        t3 == AfterProof(t2, "ciphertext_amount_validity_proof")
        t4 == AfterProof(t3, "fee_sigma_proof")
        t5 == AfterProof(t4, "fee_ciphertext_validity_proof")
        delta == compute_delta_commitment_and_opening(
                     ct_lo.commitment, r_lo, ct_hi.commitment, r_hi, fee_ct.commitment, r_fee,
                     fee_parameters.fee_rate_basis_points)
        r_claimed_negated == (0 - r_claimed) % P
        x_lo_negated == (2^TRANSFER_AMOUNT_LO_NEGATED_BITS - 1) - x_lo
        r_lo_negated == (0 - r_lo) % P
        range_proof ==
            IF WideVariant
            THEN RangeProof_new(
                   <<source_new_balance, x_lo, x_hi, delta_fee, MAX_FEE_BASIS_POINTS - delta_fee>>,
                   <<TRANSFER_SOURCE_AMOUNT_BITS, TRANSFER_AMOUNT_LO_BITS, TRANSFER_AMOUNT_HI_BITS,
                     TRANSFER_DELTA_BITS, TRANSFER_DELTA_BITS>>,
                   <<r_source, r_lo, r_hi, r_claimed, r_claimed_negated>>, t5)
            ELSE RangeProof_new(
                   <<source_new_balance, x_lo, x_lo_negated, x_hi, delta_fee,
                     MAX_FEE_BASIS_POINTS - delta_fee>>,
                   <<TRANSFER_SOURCE_AMOUNT_BITS, TRANSFER_AMOUNT_LO_BITS,
                     TRANSFER_AMOUNT_LO_NEGATED_BITS, TRANSFER_AMOUNT_HI_BITS,
                     TRANSFER_DELTA_BITS, TRANSFER_DELTA_BITS>>,
                   <<r_source, r_lo, r_lo_negated, r_hi, r_claimed, r_claimed_negated>>, t5)
    IN  [new_source_commitment |-> new_source_commitment,
         claimed_commitment |-> claimed_commitment,
         equality_proof |->
             CtxtCommEqualityProof_new(source, new_source_ciphertext, source_new_balance, r_source, t1),
         ciphertext_amount_validity_proof |->
             AggregatedValidityProof_new(dest, auditor, x_lo, x_hi, r_lo, r_hi, t2),
         fee_sigma_proof |->
             FeeSigmaProof_new(fee_amount, fee_ct.commitment, r_fee, delta_fee, delta[1], delta[2],
                               claimed_commitment, r_claimed, fee_parameters.maximum_fee, t3),
         fee_ciphertext_validity_proof |-> ValidityProof_new(dest, withdraw, fee_amount, r_fee, t4),
         range_proof |-> range_proof]

\* TransferWithFeeProof::verify, after TransferWithFeeData::verify's
\* transcript_new: the transcript and statement each sub-proof is checked
\* against, in the order the checks run.
ProofChecks(d) ==
    LET proof == d.proof
        keys == d.transfer_with_fee_pubkeys
        ct_lo == d.ciphertext_lo
        ct_hi == d.ciphertext_hi
        fee_ct == d.fee_ciphertext
        t0 == transcript_new(keys, ct_lo, ct_hi, d.new_source_ciphertext, fee_ct)
        t1 == append_proof_commitments(t0, proof.new_source_commitment, proof.claimed_commitment)
        t2 == AfterProof(t1, "equality_proof")
        t3 == AfterProof(t2, "ciphertext_amount_validity_proof")
        t4 == AfterProof(t3, "fee_sigma_proof")
        t5 == AfterProof(t4, "fee_ciphertext_validity_proof")
        delta_commitment ==
            compute_delta_commitment(ct_lo.commitment, ct_hi.commitment, fee_ct.commitment,
                                     d.fee_parameters.fee_rate_basis_points)
        claimed_commitment_negated ==
            CSub(COMMITMENT_MAX_FEE_BASIS_POINTS, proof.claimed_commitment)
        commitment_lo_negated == CSub(COMMITMENT_MAX, ct_lo.commitment)
    IN  [equality_proof |->
            [t |-> t1, stmt |-> [pubkey |-> keys.source_pubkey,
                                 ciphertext |-> d.new_source_ciphertext,
                                 commitment |-> proof.new_source_commitment]],
         ciphertext_amount_validity_proof |->
            [t |-> t2, stmt |-> [pubkeys |-> <<keys.destination_pubkey, keys.auditor_pubkey>>,
                                 commitments |-> <<ct_lo.commitment, ct_hi.commitment>>,
                                 destination_handles |->
                                     <<ct_lo.destination_handle, ct_hi.destination_handle>>,
                                 auditor_handles |-> <<ct_lo.auditor_handle, ct_hi.auditor_handle>>]],
         fee_sigma_proof |->
            [t |-> t3, stmt |-> [fee_commitment |-> fee_ct.commitment,
                                 delta_commitment |-> delta_commitment,
                                 claimed_commitment |-> proof.claimed_commitment,
                                 max_fee |-> d.fee_parameters.maximum_fee]],
         fee_ciphertext_validity_proof |->
            [t |-> t4, stmt |-> [commitment |-> fee_ct.commitment,
                                 pubkeys |-> <<keys.destination_pubkey,
                                               keys.withdraw_withheld_authority_pubkey>>,
                                 handles |-> <<fee_ct.destination_handle,
                                               fee_ct.withdraw_withheld_authority_handle>>]],
         range_proof |->
            [t |-> t5, stmt |->
                IF WideVariant
                THEN [commitments |-> <<proof.new_source_commitment, ct_lo.commitment,
                                        ct_hi.commitment, proof.claimed_commitment,
                                        claimed_commitment_negated>>,
                      bit_lengths |-> <<Bits(64), Bits(32), Bits(32), Bits(64), Bits(64)>>]
                ELSE [commitments |-> <<proof.new_source_commitment, ct_lo.commitment,
                                        commitment_lo_negated, ct_hi.commitment,
                                        proof.claimed_commitment, claimed_commitment_negated>>,
                      bit_lengths |-> <<Bits(64), Bits(16), Bits(16), Bits(32), Bits(64), Bits(64)>>]]]

\* Mutation: the `?` after equality_proof.verify dropped, its result ignored.
TransferWithFeeData_verify_no_equality(d) ==
    LET checks == ProofChecks(d)
    IN  \A kind \in ProofKinds \ {"equality_proof"} :
            Verifies(d.proof[kind], checks[kind].t, checks[kind].stmt)

\* TransferWithFeeData::verify: Ok only if every sub-proof verifies (the
\* first failure short-circuits; which one failed is not reported).
TransferWithFeeData_verify(d) ==
    LET checks == ProofChecks(d)
    IN  \A kind \in ProofKinds : Verifies(d.proof[kind], checks[kind].t, checks[kind].stmt)

-----------------------------------------------------------------------------
(* TransferWithFeeData::new and decrypt_amount                             *)

Error(e) == [result |-> e, data |-> None]

\* u64::ct_gt(maximum_fee, fee_amount) and u64::conditional_select: the fee
\* when it is below the maximum, else the maximum.
fee_to_encrypt(maximum_fee, fee_amount) ==
    IF maximum_fee > fee_amount THEN fee_amount ELSE maximum_fee

\* TransferWithFeeData::new.  The openings drawn by Pedersen::new for the
\* lo, hi and fee encryptions and for the new-source and claimed
\* commitments are the fields of rs.
TransferWithFeeData_new(transfer_amount, spendable_balance, old_source_ciphertext, source, dest, auditor, fee_parameters, withdraw, rs) ==
    LET split == split_u64(transfer_amount, TRANSFER_AMOUNT_LO_BITS, TRANSFER_AMOUNT_HI_BITS)
        amount_lo == split[1]
        amount_hi == split[2]
        ct_lo == TransferAmountEncryption(amount_lo, source, dest, auditor, rs.lo)
        ct_hi == TransferAmountEncryption(amount_hi, source, dest, auditor, rs.hi)
        new_spendable_balance == spendable_balance - transfer_amount
        source_lo == [commitment |-> ct_lo.commitment, handle |-> ct_lo.source_handle]
        source_hi == [commitment |-> ct_hi.commitment, handle |-> ct_hi.source_handle]
        new_source_ciphertext ==
            CtSub(old_source_ciphertext,
                  combine_lo_hi_ciphertexts(source_lo, source_hi, TRANSFER_AMOUNT_LO_BITS))
        fee == Fee!calculate_fee(transfer_amount, fee_parameters.fee_rate_basis_points)
        applied_fee == fee_to_encrypt(fee_parameters.maximum_fee, fee.fee)
        fee_ct == FeeEncryption(applied_fee, dest, withdraw, rs.fee)
        keys == [source_pubkey |-> source, destination_pubkey |-> dest,
                 auditor_pubkey |-> auditor, withdraw_withheld_authority_pubkey |-> withdraw]
        transcript == transcript_new(keys, ct_lo, ct_hi, new_source_ciphertext, fee_ct)
        proof == TransferWithFeeProof_new(
                     amount_lo, ct_lo, rs.lo, amount_hi, ct_hi, rs.hi, source, dest, auditor,
                     new_spendable_balance, new_source_ciphertext,
                     applied_fee, fee_ct, rs.fee, fee.delta_fee, withdraw, fee_parameters,
                     transcript, rs.source, rs.claimed)
    IN  CASE split = None                     -> Error("TransferAmount")
          [] new_spendable_balance < 0        -> Error("Generation")    \* checked_sub
          [] fee = None                       -> Error("Generation")
          [] ~RangeProof256Fits(proof.range_proof) -> Error("Panic")
          [] OTHER -> [result |-> "Ok",
                       data |-> [ciphertext_lo |-> ct_lo,
                                 ciphertext_hi |-> ct_hi,
                                 transfer_with_fee_pubkeys |-> keys,
                                 new_source_ciphertext |-> new_source_ciphertext,
                                 fee_ciphertext |-> fee_ct,
                                 fee_parameters |-> fee_parameters,
                                 proof |-> proof]]

Roles == {"Source", "Dest", "Auditor"}
RoleHandle == [Source |-> "source_handle", Dest |-> "destination_handle",
               Auditor |-> "auditor_handle"]

\* ciphertext_lo(role) / ciphertext_hi(role): the limb's commitment with
\* the role's handle.
RoleCiphertext(limb, role) == [commitment |-> limb.commitment, handle |-> limb[RoleHandle[role]]]

\* Mutation: two_power shifted one bit too far.
decrypt_amount_shift_off(d, role, pk) ==
    LET amount_lo == decrypt_u32(RoleCiphertext(d.ciphertext_lo, role), pk)
        amount_hi == decrypt_u32(RoleCiphertext(d.ciphertext_hi, role), pk)
    IN  IF amount_lo # None /\ amount_hi # None
        THEN amount_lo + 2^(TRANSFER_AMOUNT_LO_BITS + 1) * amount_hi
        ELSE None

\* decrypt_amount(role, sk): lo + 2^LO * hi, Err when a limb does not
\* decrypt to a u32.  pk is the public key of sk.
decrypt_amount(d, role, pk) ==
    LET amount_lo == decrypt_u32(RoleCiphertext(d.ciphertext_lo, role), pk)
        amount_hi == decrypt_u32(RoleCiphertext(d.ciphertext_hi, role), pk)
    IN  IF amount_lo # None /\ amount_hi # None
        THEN amount_lo + 2^TRANSFER_AMOUNT_LO_BITS * amount_hi
        ELSE None

-----------------------------------------------------------------------------
(* A prover that does not run TransferWithFeeData::new: it commits to any *)
(* values and produces every sub-proof whose relation holds for the       *)
(* statement the verifier will check (soundness of each sub-proof: no     *)
(* other sub-proof verifies).                                             *)

EqualityHolds(s) == DecryptedValue(s.ciphertext, s.pubkey) = s.commitment.m

AggregatedValidityHolds(s) ==
    /\ ZeroKey \notin {s.pubkeys[1], s.pubkeys[2]}
    /\ \A i \in 1..2 : /\ s.destination_handles[i] = Handle(s.pubkeys[1], s.commitments[i].r)
                       /\ s.auditor_handles[i] = Handle(s.pubkeys[2], s.commitments[i].r)

FeeSigmaHolds(s) == s.fee_commitment.m = s.max_fee % P \/ s.delta_commitment.m = s.claimed_commitment.m

ValidityHolds(s) ==
    /\ ZeroKey \notin {s.pubkeys[1], s.pubkeys[2]}
    /\ \A i \in 1..2 : s.handles[i] = Handle(s.pubkeys[i], s.commitment.r)

RangeHolds(s) ==
    /\ Len(s.commitments) = Len(s.bit_lengths)
    /\ SumBits(s.bit_lengths) = RANGE_PROOF_256_BITS
    /\ \A i \in DOMAIN s.commitments : s.commitments[i].m < 2^s.bit_lengths[i]

RelationHolds(kind, s) ==
    CASE kind = "equality_proof" -> EqualityHolds(s)
      [] kind = "ciphertext_amount_validity_proof" -> AggregatedValidityHolds(s)
      [] kind = "fee_sigma_proof" -> FeeSigmaHolds(s)
      [] kind = "fee_ciphertext_validity_proof" -> ValidityHolds(s)
      [] kind = "range_proof" -> RangeHolds(s)

\* Data committing to limbs lo, hi, new source balance ns, fee and claimed
\* delta, each with opening 1, encrypted consistently under the real keys.
ForgedData(lo, hi, ns, fee, claimed, fee_parameters) ==
    LET keys == [source_pubkey |-> SourceKey, destination_pubkey |-> DestinationKey,
                 auditor_pubkey |-> AuditorKey, withdraw_withheld_authority_pubkey |-> WithdrawKey]
        d == [ciphertext_lo |-> TransferAmountEncryption(lo, SourceKey, DestinationKey, AuditorKey, 1),
              ciphertext_hi |-> TransferAmountEncryption(hi, SourceKey, DestinationKey, AuditorKey, 1),
              transfer_with_fee_pubkeys |-> keys,
              new_source_ciphertext |-> [commitment |-> Com(ns, 1), handle |-> Handle(SourceKey, 1)],
              fee_ciphertext |-> FeeEncryption(fee, DestinationKey, WithdrawKey, 1),
              fee_parameters |-> fee_parameters,
              proof |-> [new_source_commitment |-> Com(ns, 1), claimed_commitment |-> Com(claimed, 1)]]
        checks == ProofChecks(d)
    IN  [d EXCEPT !.proof = [k \in {"new_source_commitment", "claimed_commitment"} \cup ProofKinds |->
            IF k \in ProofKinds
            THEN SubProof(checks[k].t, checks[k].stmt, RelationHolds(k, checks[k].stmt))
            ELSE d.proof[k]]]

-----------------------------------------------------------------------------
(* The life of one artifact: built by new (or forged), possibly altered  *)
(* in transit, verified once, decrypted by each role.                     *)

VARIABLES
    request,    \* the arguments of the new call, or None
    newResult,  \* "none", "Ok" or the error new returned
    data,       \* the TransferWithFeeData, or None
    origin,     \* "none", "honest" (from new), "tampered" or "forged"
    verdict,    \* "none", "ok" or "fail": the result of verify
    decrypted   \* role -> result of decrypt_amount, for the roles that ran it

vars == <<request, newResult, data, origin, verdict, decrypted>>

RoleKey == [Source |-> SourceKey, Dest |-> DestinationKey, Auditor |-> AuditorKey]

\* The receiving keys new is called with: all real, or one of them zeroed,
\* the pod::ElGamalPubkey::zeroed() keys of test_fee_correctness case 5.
KeyChoices == {<<DestinationKey, AuditorKey, WithdrawKey>>, <<ZeroKey, AuditorKey, WithdrawKey>>,
               <<DestinationKey, ZeroKey, WithdrawKey>>, <<DestinationKey, AuditorKey, ZeroKey>>}

\* The group elements of the artifact that are commitments, handles or
\* ciphertext parts, as <<field, subfield>>.
TamperFields ==
    ({"ciphertext_lo", "ciphertext_hi"}
        \X {"commitment", "source_handle", "destination_handle", "auditor_handle"})
    \cup ({"new_source_ciphertext"} \X {"commitment", "handle"})
    \cup ({"fee_ciphertext"} \X {"commitment", "destination_handle",
                                 "withdraw_withheld_authority_handle"})
    \cup ({"proof"} \X {"new_source_commitment", "claimed_commitment"})

\* Another group element: the same point plus H.
Perturb(x) == [x EXCEPT !.r = (@ + 1) % P]

Init ==
    /\ request = None
    /\ newResult = "none"
    /\ data = None
    /\ origin = "none"
    /\ verdict = "none"
    /\ decrypted = <<>>

\* The client calls TransferWithFeeData::new with the spendable balance it
\* read and the source ciphertext, which holds ct_balance: the same value,
\* or another one when the account changed after the balance was read.
New(amount, balance, ct_balance, r_old, rate, max_fee, keys, rs) ==
    LET fee_parameters == [fee_rate_basis_points |-> rate, maximum_fee |-> max_fee]
        old == [commitment |-> Com(ct_balance, r_old), handle |-> Handle(SourceKey, r_old)]
        res == TransferWithFeeData_new(amount, balance, old, SourceKey, keys[1], keys[2],
                                       fee_parameters, keys[3], rs)
    IN  /\ origin = "none"
        /\ request' = [amount |-> amount, balance |-> balance, ct_balance |-> ct_balance,
                       rate |-> rate, max_fee |-> max_fee, keys |-> keys]
        /\ newResult' = res.result
        /\ data' = res.data
        /\ origin' = "honest"
        /\ UNCHANGED <<verdict, decrypted>>

\* One group element of a built artifact is changed before verification.
Tamper(field) ==
    /\ origin = "honest"
    /\ data # None
    /\ verdict = "none"
    /\ data' = [data EXCEPT ![field[1]][field[2]] = Perturb(@)]
    /\ origin' = "tampered"
    /\ UNCHANGED <<request, newResult, verdict, decrypted>>

Forge(lo, hi, ns, fee, claimed, rate, max_fee) ==
    /\ origin = "none"
    /\ data' = ForgedData(lo, hi, ns, fee, claimed,
                          [fee_rate_basis_points |-> rate, maximum_fee |-> max_fee])
    /\ origin' = "forged"
    /\ UNCHANGED <<request, newResult, verdict, decrypted>>

Verify ==
    /\ data # None
    /\ verdict = "none"
    /\ verdict' = IF TransferWithFeeData_verify(data) THEN "ok" ELSE "fail"
    /\ UNCHANGED <<request, newResult, data, origin, decrypted>>

DecryptAmount(role) ==
    /\ data # None
    /\ role \notin DOMAIN decrypted
    /\ decrypted' = decrypted @@ (role :> decrypt_amount(data, role, RoleKey[role]))
    /\ UNCHANGED <<request, newResult, data, origin, verdict>>

OpeningChoices == [lo : Openings, hi : Openings, fee : Openings, source : Openings,
                   claimed : Openings]

NewStep ==
    \E amount \in Amounts, balance \in Balances, r_old \in Openings, rate \in Rates,
       max_fee \in MaxFees, keys \in KeyChoices, rs \in OpeningChoices :
        \E ct_balance \in {balance} \cup StaleBalances :
            New(amount, balance, ct_balance, r_old, rate, max_fee, keys, rs)

ForgeStep ==
    \E lo, hi, ns, claimed \in ForgedValues, fee \in ForgedFees, rate \in Rates,
       max_fee \in MaxFees :
        Forge(lo, hi, ns, fee, claimed, rate, max_fee)

ClientNext == NewStep \/ Verify \/ \E role \in Roles : DecryptAmount(role)

Next == ClientNext \/ (\E f \in TamperFields : Tamper(f)) \/ ForgeStep

Spec == Init /\ [][Next]_vars

-----------------------------------------------------------------------------
(* Properties                                                             *)

Scalar == 0 .. P - 1
GroupElement == [m : Scalar, r : Scalar] \cup [pk : {SourceKey, DestinationKey, AuditorKey,
                                                     WithdrawKey, ZeroKey}, r : Scalar]

TypeOK ==
    /\ newResult \in {"none", "Ok", "TransferAmount", "Generation", "Panic"}
    /\ origin \in {"none", "honest", "tampered", "forged"}
    /\ verdict \in {"none", "ok", "fail"}
    /\ DOMAIN decrypted \subseteq Roles
    /\ \A role \in DOMAIN decrypted : decrypted[role] \in Nat \cup {None}
    /\ data = None \/ \A f \in TamperFields : data[f[1]][f[2]] \in GroupElement
    /\ (newResult = "Ok") <=> (origin \in {"honest", "tampered"} /\ data # None)

\* The plaintext view of an artifact (what the commitments open to).
CommittedAmount(d) ==
    d.ciphertext_lo.commitment.m + 2^TRANSFER_AMOUNT_LO_BITS * d.ciphertext_hi.commitment.m

\* The refinement mapping: the request as the spec states it, the phase the
\* client and verify have reached, and what the artifact moves as the
\* source, destination and withdraw authority would decrypt it.
AbstractPhase ==
    CASE newResult = "none" -> "idle"
      [] newResult # "Ok"   -> "error"
      [] verdict = "none"   -> "built"
      [] verdict = "ok"     -> "accepted"
      [] OTHER              -> "refused"

AbstractRequest ==
    IF request = None THEN None
    ELSE [amount |-> request.amount, balance |-> request.balance, rate |-> request.rate,
          max_fee |-> request.max_fee, receivers_valid |-> ZeroKey \notin Range(request.keys)]

AbstractTransfer ==
    IF data = None THEN None
    ELSE [amount |-> CommittedAmount(data),
          fee |-> data.fee_ciphertext.commitment.m,
          new_balance |-> DecryptedValue(data.new_source_ciphertext, SourceKey)]

Abstract == INSTANCE ConfidentialTransfer
              WITH AMOUNT_LIMIT <- 2^(TRANSFER_AMOUNT_LO_BITS + TRANSFER_AMOUNT_HI_BITS),
                   ONE_IN_BASIS_POINTS <- MAX_FEE_BASIS_POINTS,
                   phase <- AbstractPhase, request <- AbstractRequest,
                   transfer <- AbstractTransfer

\* new and verify of an honest client implement ConfidentialTransfer: new
\* fails exactly for an amount that cannot be split or exceeds the balance
\* (every rate, also above 100%); otherwise the limbs commit to the amount,
\* the fee commitment holds min(ceil(amount * rate / 10_000), maximum_fee),
\* the homomorphically derived new source ciphertext decrypts to
\* balance - amount, and verify accepts exactly when no receiving key is
\* zeroed (spec sections 4.2 and 8).
ImplementsConfidentialTransfer == Abstract!Spec

\* new does not compare the spendable balance it is given with the value
\* the old source ciphertext holds: a balance read before the account
\* changed still yields an artifact, and verify must reject it, since its
\* new source ciphertext does not hold the range-proved new balance.
StaleBalanceRejected ==
    origin = "honest" /\ request.ct_balance # request.balance /\ verdict # "none"
        => verdict = "fail"

\* Changing any one commitment, handle or ciphertext of a built artifact
\* makes verify fail (spec section 8, tampering).
TamperDetected ==
    origin = "tampered" /\ verdict # "none" => verdict = "fail"

\* Every role whose key new encrypted to recovers the transfer amount with
\* decrypt_amount (spec section 8, decryption round trip).
DecryptRecoversAmount ==
    origin = "honest" /\ newResult = "Ok" =>
        \A role \in DOMAIN decrypted :
            (role = "Source" \/ RoleKey[role] \in Range(request.keys))
                => decrypted[role] = request.amount

\* For any artifact verify accepts, forged ones included: the limbs, the
\* new source balance and the claimed fee delta lie in their ranges, and the
\* destination and the auditor both decrypt the committed amount.
AcceptedIsWellFormed ==
    verdict = "ok" =>
        /\ data.ciphertext_lo.commitment.m < 2^TRANSFER_AMOUNT_LO_BITS
        /\ data.ciphertext_hi.commitment.m < 2^TRANSFER_AMOUNT_HI_BITS
        /\ data.proof.new_source_commitment.m < 2^TRANSFER_SOURCE_AMOUNT_BITS
        /\ data.proof.claimed_commitment.m <= MAX_FEE_BASIS_POINTS
        /\ \A role \in DOMAIN decrypted \cap {"Dest", "Auditor"} :
               decrypted[role] = CommittedAmount(data)

\* For any artifact verify accepts, the committed fee is a u64, as every
\* quantity the artifact carries must stay within its bit width (spec
\* section 1 (c)): the withdraw-withheld authority later decrypts it.
AcceptedFeeIsU64 ==
    verdict = "ok" => data.fee_ciphertext.commitment.m < 2^TRANSFER_SOURCE_AMOUNT_BITS

\* For any artifact verify accepts, the encrypted fee is the rounded-up fee
\* of the committed amount at the stated rate, clamped to maximum_fee
\* (spec section 1 (b) and section 8, fee correctness).
AcceptedFeeIsCorrect ==
    verdict = "ok" =>
        LET f == Fee!CeilFee(CommittedAmount(data), data.fee_parameters.fee_rate_basis_points)
            max_fee == data.fee_parameters.maximum_fee
        IN  data.fee_ciphertext.commitment.m = IF f < max_fee THEN f ELSE max_fee

=============================================================================
