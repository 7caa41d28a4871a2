\* One flow whose client cuts its retransmissions differently.
CONSTANTS
    k1 = k1
    k2 = k2
    Flows = {k1}
    Isn <- IsnWraps
    StreamLen = 4
    Segments <- Recut
    Caps = {0, 3}
    MaxPending = 2
    Idle = 0
    MaxTime = 3
    SeqMod = 16
    Orderly = TRUE
SPECIFICATION Spec
INVARIANT
    CapturedIsCarved
