SPECIFICATION FairSpec
CONSTANTS
    Req = {r1, r2}
    Services = {"event", "api", "scm", "checkout"}
    MaxEvents = 2
    MaxCrashes = 1
INVARIANTS EventSentOnce NothingAfterResult CheckoutsSealed
PROPERTY TurnSettlesOrStops
CHECK_DEADLOCK FALSE
