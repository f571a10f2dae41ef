CONSTANTS
    Runtimes = {r1, r2, r3}
    LeaseDuration = 2
    MaxRegistrations = 3
    MaxSequence = 2
    Loads = {TRUE, FALSE}
SYMMETRY RuntimeSymmetry
SPECIFICATION LeaseSpec
INVARIANTS
    LeaseTypeOK
    ExactlyOnceInOrder
    FencedUnlessQuit
    SingleHolderUnlessQuit
