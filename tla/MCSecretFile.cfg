CONSTANTS
    Base = 2
    Header <- OneByteHeader
    NonceLen = 1
    TagLen = 1
    EnvelopeLimit = 2
    SecretLimit = 2
    KeyEnvelopes <- ShortAndLong
    Plaintexts <- TwoSecrets
    Ciphertexts <- Outputs
    NoContainer = NoContainer
    Refused = Refused
    FileLimit = 16
    MaxOverwrites = 1
SPECIFICATION SecretSpec
INVARIANTS
    DamageIsSeen
CHECK_DEADLOCK FALSE
