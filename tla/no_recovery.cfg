SPECIFICATION FairSpec
PROPERTIES OnlyClientsRenegotiate
