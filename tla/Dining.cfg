CONSTANT PCOUNT = 5
SPECIFICATION FairSpec
INVARIANTS SpoonsAccountedFor BlockedBehindRunnable
PROPERTIES TableSpec NobodyStarves
