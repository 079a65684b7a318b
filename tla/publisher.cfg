SPECIFICATION FairSpec
INVARIANTS TypeOK AtMostTwice
PROPERTIES InactiveIsQuiet OnlyOvertakenCallbacksKill DataFlows
