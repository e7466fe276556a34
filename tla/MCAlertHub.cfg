SPECIFICATION FairSpec
CONSTANTS
    Clients <- MCClients
    MaxAlerts <- MCMaxAlerts
    Malformed <- MCMalformed
    MaxSubscribers = 1
    ChannelSize = 1
    Count = 1
CHECK_DEADLOCK FALSE
INVARIANTS
    TypeOK
PROPERTIES
    FollowsWithoutGap
    ImplementsFeed
    AlertsFollow
    SubscribersLeave
