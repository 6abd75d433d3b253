SPECIFICATION MCSpec
CONSTANTS
    Pid <- ThreePids
    Replacer <- TwoReplacers
    MaxRound = 1
    Proposer <- FirstProposes
    Learner <- First
CHECK_DEADLOCK FALSE
INVARIANTS
    ReplacerCoversChosen
    PromisesValid
    LearnedByQuorum
