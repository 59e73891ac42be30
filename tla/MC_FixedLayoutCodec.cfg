\* Every FeeParameters and TransferWithFeePubkeys value encoded, and every
\* byte string of about the layout's length decoded.
CONSTANTS
    BYTE_BITS <- MC_BYTE_BITS
    KEY_BYTES <- MC_KEY_BYTES
    ValidPoints <- MC_ValidPoints
    ExtraBytes <- MC_ExtraBytes
    None = None
    Panic = Panic
    Verification = Verification
SPECIFICATION Spec
INVARIANTS
    TypeOK
    FeeParametersRoundTrip
    PubkeysRoundTrip
