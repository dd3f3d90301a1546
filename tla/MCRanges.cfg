SPECIFICATION Spec
CONSTANTS
    Word = 8
    MAX_MR_SIZE = 5
INVARIANTS
    TokenInRegistration
    CopyInBothBuffers
