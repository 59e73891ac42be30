\* Artifacts of a prover that does not run new, verified and decrypted,
\* narrow split.  Verification and decryption end the run.
CONSTANTS
    BIT_SCALE <- MC_BIT_SCALE
    MAX_FEE_BASIS_POINTS <- MC_MAX_FEE_BASIS_POINTS
    P <- MC_P
    SourceKey = SourceKey
    DestinationKey = DestinationKey
    AuditorKey = AuditorKey
    WithdrawKey = WithdrawKey
    ZeroKey = ZeroKey
    None = None
    Balances <- MC_Balances
    MaxFees <- MC_MaxFees
    Openings <- MC_Openings
    ForgedValues <- MC_ForgedValues
    LO_BITS_CONFIG <- MC_LO_BITS_NARROW
    Amounts <- MC_Amounts
    Rates <- MC_Rates
    ForgedFees <- MC_ForgedFees
    StaleBalances <- MC_NoStaleBalances
SPECIFICATION ForgeSpec
CHECK_DEADLOCK FALSE
INVARIANTS
    AcceptedIsWellFormed
