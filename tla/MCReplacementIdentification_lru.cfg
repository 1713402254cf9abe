CONSTANTS
    Ways = 2
    HwPolicy = "LRU"
    SeqLen = 5
    Repetitions = 3
    MinRounds = 2
    Noisy = 1
    FairSequences <- MCFairSequences
SPECIFICATION Spec
CHECK_DEADLOCK FALSE
PROPERTY Terminates
