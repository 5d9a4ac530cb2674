CONSTANTS
    Users = {"EHCI", "XHCI"}
    Careless = {"XHCI"}
    Pages = {1, 2}
    PerPage = 2
    Free_Max = 2
    MaxHeld = 2
SPECIFICATION Spec
INVARIANT NotPhy0
CHECK_DEADLOCK FALSE
