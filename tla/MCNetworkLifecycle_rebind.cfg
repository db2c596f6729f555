SPECIFICATION FairSpec
CONSTANTS
    Ip = {ip1}
    NoIp = NoIp
    QuickBoot = TRUE
    MaxPresses = 0
    MaxDrops = 2
    MaxFaults = 0
PROPERTIES
    UpIsConnected
