SPECIFICATION Spec
CONSTANTS
    first = first
    second = second
    cached = cached
    report = report
    Tasks = {first, second, cached, report}
    Needs <- MCNeeds
    Order <- MCOrder
    Requests <- MutualRequests
    Campaigns <- BusyCampaigns
PROPERTIES Returns
