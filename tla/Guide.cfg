SPECIFICATION Spec
CONSTANTS
    t1 = t1
    t2 = t2
    s1 = s1
    Tuners <- TwoTuners
    Serial <- SerialNumbers
    Services <- OneService
    Broadcast <- SomeTimes
    FilingDays <- LastInts
    FirstDays <- TwoStarts
    LastDays <- TwoEnds
    MaxUnanswered = 1
INVARIANTS
    TypeOK
    StartsAreCounted
    StartsAreStored
    OncePerTuner
CHECK_DEADLOCK FALSE
