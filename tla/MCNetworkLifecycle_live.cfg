SPECIFICATION FairSpec
CONSTANTS
    Ip = {ip1}
    NoIp = NoIp
    QuickBoot = TRUE
    MaxPresses = 2
    MaxDrops = 3
    MaxFaults = 0
PROPERTIES
    ShutdownHappens
    WifiComesBack
    SensorComesBack
    PhoneGetsProvisioning
