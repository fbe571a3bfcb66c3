CONSTANTS
    TEST_RANGE = 4
    MaxLate = 2
    Randoms <- MCRandoms
    CommandLines <- MCCommandLines
    Endless <- MCEndless
SPECIFICATION Spec
CHECK_DEADLOCK FALSE
INVARIANTS
    CreditWhereDue
    TimeoutsBlamed
    EndlessUnderAlarm
PROPERTIES
    ArgumentsAsShown
