CONSTANTS
    Tasks = {t1}
    NoTask = NoTask
    Targets = {"available"}
    MaxRequests = 3
    MaxAdds = 1
SPECIFICATION ServedSpec
PROPERTY
    NoSecondOpenRequest
