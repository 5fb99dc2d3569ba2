CONSTANTS
    CommonJobs = {common}
    ServerJobs = {server}
    Callers = {c1, c2}
    Crons = {{1}}
    Dates = {}
    MaxTime = 1
    MaxTimers = 2
    MaxGeneration = 1
SPECIFICATION TimersSpec
PROPERTY
    NewServerStays
