CONSTANTS
    U16_BITS <- MC_U16_BITS
    U64_BITS <- MC_U64_BITS
    U128_BITS <- MC_U128_BITS
    ONE_IN_BASIS_POINTS <- MC_ONE_IN_BASIS_POINTS
    None = None
SPECIFICATION Spec
INVARIANTS
    CalculateFeeIsCeiling
