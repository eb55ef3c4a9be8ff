CONSTANTS
    c1 = c1
    c2 = c2
    old = old
    m1 = m1
    route = route
    None = None
    Codes = {c1, c2}
    MustFix = {m1}
    Routes = {route}
    Subjects = {"current", "existing", "candidate"}
    Original = old
    MaxRounds = 2
    NonprogressLimit = 1
    BuildLimit = 1
    FailLimit = 2
    MaxEvents = 3
SPECIFICATION FairSpec
CHECK_DEADLOCK FALSE
INVARIANTS TypeOK RoundHasOneLoop SeededRepairIsRecorded
PROPERTIES LoopSettles FailedLocalIsEarned NoReviewOfRejected CompletedIsApplied
