\* The calls of one workload, with up to five things going wrong.
CONSTANT MaxFaults = 5
SPECIFICATION FairSpec
INVARIANTS TypeOK FinishedStaysDown
PROPERTIES OutcomesAreAtomic StopCompletes LaunchSettles
