SPECIFICATION Spec
CONSTANTS
    first = first
    second = second
    cached = cached
    report = report
    Tasks = {first, second, cached, report}
    Needs <- MCNeeds
    Order <- MCOrder
    Requests <- AloneRequests
    Campaigns <- DamagedCampaigns
PROPERTIES RefusalFinal
