CONSTANT Callers = {c1, c2}
SYMMETRY CallerSymmetry
SPECIFICATION SandboxSpec
INVARIANTS
    SandboxTypeOK
    NoGhostUnlessOverlap
    SlotFollowsTaskUnless
    UnflaggedIsSaved
    RecordAgreesUnless
    NoStrayUnlessStranded
