CONSTANT MaxNetworks <- OneNetwork
SPECIFICATION FairSpec
INVARIANT TypeOK
INVARIANT ClientSound
PROPERTY SigtermEnds
PROPERTY LostConnection
PROPERTY WifiFollowsEthernet
CHECK_DEADLOCK FALSE
