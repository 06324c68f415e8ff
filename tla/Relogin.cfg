SPECIFICATION Spec
CONSTANTS
    Names = {"ann"}
    MaxLogins = 2
    MaxCommands = 2
PROPERTIES
    ResetOnConnect
CHECK_DEADLOCK FALSE
