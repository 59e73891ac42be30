\* new, verify and decrypt_amount of an honest client, wide (32/32) split.
\* The artifact is built once and verified once: the system stops.
CONSTANTS
    BIT_SCALE <- MC_BIT_SCALE
    LO_BITS_CONFIG <- MC_LO_BITS_WIDE
    MAX_FEE_BASIS_POINTS <- MC_MAX_FEE_BASIS_POINTS
    P <- MC_P
    SourceKey = SourceKey
    DestinationKey = DestinationKey
    AuditorKey = AuditorKey
    WithdrawKey = WithdrawKey
    ZeroKey = ZeroKey
    None = None
    Amounts <- MC_Amounts
    Balances <- MC_Balances
    Rates <- MC_Rates
    MaxFees <- MC_MaxFees
    Openings <- MC_Openings
    ForgedValues <- MC_ForgedValues
    ForgedFees <- MC_ForgedFees
    StaleBalances <- MC_NoStaleBalances
SPECIFICATION ClientSpec
CHECK_DEADLOCK FALSE
INVARIANTS
    DecryptRecoversAmount
PROPERTY
    ImplementsConfidentialTransfer
