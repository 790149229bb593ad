SPECIFICATION Spec
CONSTANTS
    t1 = t1
    t2 = t2
    Threads = {t1, t2}
    Nobody = Nobody
    MaxDepth = 2
    Kinds = {"notset", "warning", "plain"}
SYMMETRY ThreadSymmetry
INVARIANTS LoggerInv ForwardedOnce QuietWhileOthersForward
