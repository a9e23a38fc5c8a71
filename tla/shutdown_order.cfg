SPECIFICATION FairSpec
INVARIANTS StreamStoppedFirst
