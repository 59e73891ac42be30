\* new, with a spendable balance the source ciphertext may no longer hold,
\* then one commitment, handle or ciphertext of the built artifact changed
\* or not, then verify, narrow split.  Verification ends the run.
CONSTANTS
    BIT_SCALE <- MC_BIT_SCALE
    MAX_FEE_BASIS_POINTS <- MC_MAX_FEE_BASIS_POINTS
    P <- MC_P
    SourceKey = SourceKey
    DestinationKey = DestinationKey
    AuditorKey = AuditorKey
    WithdrawKey = WithdrawKey
    ZeroKey = ZeroKey
    None = None
    Balances <- MC_Balances
    MaxFees <- MC_MaxFees
    Openings <- MC_Openings
    ForgedValues <- MC_ForgedValues
    LO_BITS_CONFIG <- MC_LO_BITS_NARROW
    Amounts <- MC_TamperAmounts
    Rates <- MC_TamperRates
    ForgedFees <- MC_ForgedFees
    StaleBalances <- MC_StaleBalances
SPECIFICATION TamperSpec
CHECK_DEADLOCK FALSE
INVARIANTS
    TamperDetected
    StaleBalanceRejected
