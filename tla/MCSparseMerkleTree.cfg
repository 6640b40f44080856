SPECIFICATION TreeSpec
CONSTANTS
    D = 4
    TreeKeys <- MCTreeKeys
    Values = {1, 2}
    MaxWrites = 5
INVARIANTS TreeTypeOK TreeIsCanonical ProofsMeetCircuit
