SPECIFICATION DeviceSpec
CONSTANTS
    Commands <- MCCommands
    Boundary = 2
    DefaultTimeout = 1
    MaxTimeout = 4
    ReadTimeout = 2
    DataTimeout = 4
    MaxCommands = 2
INVARIANTS   TimeNear CalendarRight
 
CHECK_DEADLOCK FALSE
