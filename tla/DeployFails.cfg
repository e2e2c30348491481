SPECIFICATION DeploySpec
CONSTANTS
    TouchesDeps = {2}
    TouchesUi = {3}
    Sound = {1, 2, 3}
    MaxCommits = 3
    MaxKills = 0
INVARIANT FailureRollsBack
CHECK_DEADLOCK FALSE
