SPECIFICATION FairLoopSpec
CONSTANTS
    MinInt <- MCMinInt
    MaxInt = 3
    MaxCount = 20
    One <- MCOne
    Double <- MCDouble
    Round <- MCRound
INVARIANT Visits
PROPERTY Ends
CHECK_DEADLOCK FALSE
