CONSTANTS
    Targets = {t1}
    Gates = {g1}
    Capacity = 2
    MaxRuns = 2
    MaxSends = 2
    None = None
SPECIFICATION LiveSpec
INVARIANTS BusyCoversRun ConsentIsOwn TickerRuns
PROPERTIES SwitchesBetweenRuns ConfirmReturns
CHECK_DEADLOCK FALSE
