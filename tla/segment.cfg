CONSTANT Cases <- Sound
SPECIFICATION FairSpec
 
INVARIANT EndIsClean
PROPERTY EverySegmentEnds
