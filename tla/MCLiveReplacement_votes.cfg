SPECIFICATION MCSpec
CONSTANTS
    Pid <- ThreePids
    Replacer <- OneReplacer
    MaxRound = 1
    Proposer <- FirstProposes
    Learner <- First
CHECK_DEADLOCK FALSE
PROPERTY VotesTransferred
