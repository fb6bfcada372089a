------------------------- MODULE MCResourceMailbox -------------------------
EXTENDS ResourceMailbox, TLC

MsgSymmetry == Permutations(Msgs)
AllModes == {"enqueue", "steer", "interrupt"}
EnqueueOnly == {"enqueue"}
=============================================================================
