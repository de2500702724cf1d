\* The buffer's bounds, what the collector may see, and whether requests
\* settle, the buffer drains and stop() returns.
SPECIFICATION FairDeliverySpec
CONSTANTS
    Events = {e1, e2}
    MaxSize = 2
INVARIANTS
    QueueBelowMaxSize
    BudgetUntilGoodStatus
PROPERTIES
    ChannelSpec
    QueueDrains
    StopTerminatesOverFetch
CHECK_DEADLOCK FALSE
