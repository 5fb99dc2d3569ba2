CONSTANTS
    Tasks = {t1, t2}
    NoTask = NoTask
    Targets = {"available"}
    MaxRequests = 2
    MaxAdds = 1
SPECIFICATION ServedSpec
PROPERTY
    FallsBackWhenNoneLeft
