SPECIFICATION FairSpec
INVARIANTS ProxyFollowsSession
PROPERTIES StallIsCurrent StallIsActedOn StopsEnd ShutdownEnds
