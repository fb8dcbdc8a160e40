SPECIFICATION Spec
CONSTANTS
    Number <- MCNumber
    Inputs <- MCInputs
    Thread <- MCThread
    Child  <- MCChild
    Size   = 2
    NoValue = NoValue
    Parent  = Parent
INVARIANTS WorkersBounded NothingLeftBehind TableRight
PROPERTIES AnswersContests ContestsEnd
CHECK_DEADLOCK FALSE
