CONSTANTS
    Situations <- Cases
    SelectionTimeout = 7
    OperationTimeout = 30
    Poll = 3
    Unset = Unset
SPECIFICATION FairSelectionSpec
INVARIANTS
    SelectionIsBounded
    TouchIsNoticed
    SelectionIsClean
    ChosenIsUsable
    ReportIsComplete
PROPERTIES
    SelectionEnds
CHECK_DEADLOCK FALSE
