CONSTANTS
    Iids <- MCIids
    Modulus = 8
    Window = 2
    StaleAge = 2
    Starts <- MCStarts
    MaxChanges = 8
    MaxRestarts = 1
SPECIFICATION SleepyFairSpec
INVARIANTS
    ExactlyOnce
    

    
