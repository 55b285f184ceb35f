CONSTANTS
    Main = Main
    t1 = t1
    t2 = t2
    Task <- MCTask
SPECIFICATION FairSpec
INVARIANTS ThreadOutlivedByTask ChildPointerValid CancelReachesChild ReportIsFinal
PROPERTIES CancelHonoured TeardownReturns
CHECK_DEADLOCK FALSE
