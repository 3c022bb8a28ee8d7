SPECIFICATION Spec
CONSTANTS
    Endpoints = {robot}
    Nowhere = Nowhere
PROPERTY UpdateIsTried
CHECK_DEADLOCK FALSE
