\* Two devices of up to two ports, on three buses, which come and go once, and
\* a GID table of up to two entries.
SPECIFICATION DeviceSpec
CONSTANTS
    Names = {n1, n2}
    Buses <- MCBuses
    Slots = {0}
    MaxPorts = 2
    PortModulus = 4
    MaxHotplugs = 1
    MaxTableLen = 2
INVARIANTS
    
    OpenedIsAllowed
    ChosenIsBest

    
