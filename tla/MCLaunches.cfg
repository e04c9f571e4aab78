\* Two launches that overlap or not, and another program on the ports.
CONSTANTS
    Processes = {d1, d2}
    Foreign = Foreign
    Preferred = 5000
    Ephemeral = {5001, 5002, 5003}
    NoPort = NoPort
    PortsShared = TRUE
    Additions <- MCAdditions
SPECIFICATION LaunchesSpec
INVARIANTS OwnWindow LoneMigration
PROPERTIES RecordsStay LaunchEnds
