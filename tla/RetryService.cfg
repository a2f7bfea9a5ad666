CONSTANTS
    Calls = {c1, c2, c3}
    MaxRetries = 2
    NoCall = NoCall
SPECIFICATION Spec
INVARIANTS TypeOK NoLostTimer MutexHeld
PROPERTIES EveryCallSettles ImplementsSerialAttempts
CHECK_DEADLOCK FALSE
