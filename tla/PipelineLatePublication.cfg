\* Is a file published after stop() claimed the task?
CONSTANTS
    e1 = e1
    e2 = e2
    e3 = e3
    java_crash = java_crash
    anr = anr
    Events = {e1}
    Types = {java_crash, anr}
    TypeOf <- MCTypeOf
    MaxIncidentsPerType = 1
    MaxQueueSize = 1
    MaxConcurrent = 1
    FilesPerIncident = 2
    JoinMayTimeOut = FALSE
SPECIFICATION Spec
PROPERTY NoLatePublication
CHECK_DEADLOCK FALSE
