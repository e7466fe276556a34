SPECIFICATION Spec
CONSTANTS
    Clients <- MCClients
    Ip <- MCIp
    Wants <- MCWants
    MaxEdits = 1
    MaxAlerts = 1
    MaxClients = 2
    MaxPerIP = 2
    SendBuffer = 1
    QueueSize = 1
    BroadcastSize = 1
CHECK_DEADLOCK FALSE
INVARIANTS
    TypeOK
    NoSendOnClosed
    NothingLostSilently
