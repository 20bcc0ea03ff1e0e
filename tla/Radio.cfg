SPECIFICATION Spec
SYMMETRY StationSymmetry
CONSTANTS
    s1 = s1
    s2 = s2
    web = web
    NoStation = NoStation
    Stations <- MCStations
    Tasks <- MCTasks
    Operators <- MCPanel
    QueueSize = 5
    MaxChanges = 2
    MaxCommands = 2
    MaxDrops = 1
    MaxAnnouncements = 1
    MaxFailures = 0
INVARIANTS
    StopHonoured
    PlayHonoured
    StationHonoured
    BluetoothAlone
