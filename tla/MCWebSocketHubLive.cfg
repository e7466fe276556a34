SPECIFICATION FairSpec
CONSTANTS
    Clients <- MCClients
    Ip <- MCIp
    Wants <- MCWants
    MaxEdits = 2
    MaxAlerts = 0
    MaxClients = 2
    MaxPerIP = 1
    SendBuffer = 1
    QueueSize = 1
    BroadcastSize = 1
CHECK_DEADLOCK FALSE
PROPERTIES
    ImplementsFeed
    ClientsLeave
