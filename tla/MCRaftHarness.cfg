SPECIFICATION Spec
CONSTANTS
    Srv = {1, 2}
    Cmd = {"x", "y"}
    Committed <- MCCommitted
    MaxIndex = 2
    MaxInst = 2
    MaxRestarts = 1
    MaxFailing = 1
    SnapShotInterval = 2
    Cleaner <- MCCleaner
INVARIANTS LogInv NoFalseAlarm FaultShown VisKept
CHECK_DEADLOCK FALSE
