SPECIFICATION FairSpec
CONSTANTS
    Reqs = {r1, r2, r3}
    Questions <- AnyQuestion
    Named <- AnyThread
    MaxFaults = 1
    None = None
INVARIANT ThreadsDistinct
INVARIANT AnswersFollowQuestions
INVARIANT DanglingOnlyByFailure
INVARIANT LastIsNewest
INVARIANT AnswerStored
PROPERTY ResponseEnds
\* Every request is answered in the end and no more arrive.
CHECK_DEADLOCK FALSE
