SPECIFICATION Spec
CONSTANTS
    Names = {"ann", "bob"}
    MaxLogins = 2
    MaxCommands = 4
INVARIANTS
    ClientInv
PROPERTIES
    LogoutEnds
CHECK_DEADLOCK FALSE
