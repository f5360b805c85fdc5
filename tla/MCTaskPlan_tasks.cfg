SPECIFICATION Spec
CONSTANTS
    first = first
    second = second
    cached = cached
    report = report
    Tasks = {first, second, cached, report}
    Needs <- MCNeeds
    Order <- MCOrder
    Requests <- SharedRequests
    Campaigns <- MCCampaigns
INVARIANTS DiskSuffices AttemptsKept DependenciesDecide RunsAccounted
PROPERTIES VerdictsStand ReserveKept
