SPECIFICATION Spec
CONSTANTS
    Ip = {ip1, ip2}
    NoIp = NoIp
    QuickBoot = FALSE
    MaxPresses = 2
    MaxDrops = 3
    MaxFaults = 1
INVARIANTS
    TypeOK
    ProvisioningOnlyOnAp
    
PROPERTY
    ImplementsConnectivity
