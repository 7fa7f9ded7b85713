SPECIFICATION Spec
CONSTANTS
    Client = {c1, c2}
    Host = {h1, h2}
    Nobody = Nobody
    FreePorts = {FALSE, TRUE}
    MaxByHand = 1
    MaxStops = 1
    MaxKills = 1
CHECK_DEADLOCK FALSE
INVARIANTS
    LaunchIsSound
PROPERTIES
    ClientGetsIn
