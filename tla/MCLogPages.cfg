CONSTANTS
    c1 = c1
    c2 = c2
    s1 = s1
    s2 = s2
    r1 = r1
    Ids = {1, 2, 3}
    Levels = {"INFO", "WARNING"}
    QueueSize = 2
    MaxBatchSize = 2
    Callers = {c1, c2}
    Setters = {s1, s2}
    LastSecond = 1
    Readers = {r1}
    PerPage = 1
    Mixes <- MCMixes
SPECIFICATION PagesFairSpec
INVARIANTS LogTypeOK EntriesKeepTheirPlace ReturnMeansSettled FailedBatchesLeaveNoRow WalksAreComplete RunningFollowsSetting
PROPERTIES AcceptedIsSettled CallsReturn
