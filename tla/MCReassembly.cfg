\* Two flows of four bytes, the first one's sequence numbers wrapping, with and
\* without a cap, two waiting segments at most.
CONSTANTS
    k1 = k1
    k2 = k2
    Flows = {k1, k2}
    Isn <- IsnWraps
    StreamLen = 4
    Segments <- Aligned
    Caps = {0, 3}
    MaxPending = 2
    Idle = 2
    MaxTime = 3
    SeqMod = 16
    Orderly = TRUE
SPECIFICATION Spec
INVARIANTS
    StreamsContiguous
    NothingDroppedSilently
    CapturedIsCarved
    MemoryBounded
PROPERTY
    EndedIsEmitted
