CONSTANTS
    Tasks = {t1, t2}
    NoTask = NoTask
    Targets = {"available"}
    MaxRequests = 2
    MaxAdds = 0
SPECIFICATION FairMovieSpec
CHECK_DEADLOCK FALSE
PROPERTY
    HandlersEnd
