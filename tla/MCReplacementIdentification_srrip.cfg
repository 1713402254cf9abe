CONSTANTS
    Ways = 2
    HwPolicy = "SRRIP"
    SeqLen = 5
    Repetitions = 3
    MinRounds = 2
    Noisy = 0
    FairSequences <- MCFairSequences
SPECIFICATION Spec
CHECK_DEADLOCK FALSE
INVARIANT TruePolicySurvives
