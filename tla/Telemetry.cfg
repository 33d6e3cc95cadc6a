\* Two devices, two background polls of each beyond the boundary ones.
CONSTANTS
    Devices = 2
    MaxPolls = 2
    NoTicket = NoTicket
SPECIFICATION TelemetrySpec
INVARIANTS NoTicketLost BoundaryIsNextPoll
PROPERTIES CoordinatorFinishes ThreadsEnd
CHECK_DEADLOCK FALSE
