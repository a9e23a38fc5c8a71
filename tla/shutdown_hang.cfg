SPECIFICATION FairSpec
PROPERTIES ServerStops
