SPECIFICATION FairSpec
CONSTANTS
    s1 = s1
    s2 = s2
    web = web
    NoStation = NoStation
    Stations = {s1}
    Tasks <- MCTasks
    Operators <- MCPanel
    QueueSize = 5
    MaxChanges = 1
    MaxCommands = 1
    MaxDrops = 1
    MaxAnnouncements = 1
    MaxFailures = 1
PROPERTIES
    AnnouncementEnds
    RadioReturns
