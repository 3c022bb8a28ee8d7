SPECIFICATION FairMonSpec
CONSTANTS
    Endpoints = {robot}
    Nowhere = Nowhere
INVARIANTS TypeOK SendsAreReal QuietAfterPress
PROPERTY WindowCloses
CHECK_DEADLOCK FALSE
