SPECIFICATION FairSpec
CONSTANTS
    Programs <- MCPrograms
    Answers <- MCAnswers
    Trips = 2
    OperandRange = 256
    MaxTrace = 14
INVARIANTS Accepted Faithful FreshVariables
PROPERTY Finishes
CHECK_DEADLOCK FALSE
