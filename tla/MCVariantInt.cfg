CONSTANTS
    Group = 2
    Width = 5
    Buffers <- ForeignBuffers
    NoLimit = 9
SPECIFICATION Spec
INVARIANTS
    RoundTrip
    EncodingFits
