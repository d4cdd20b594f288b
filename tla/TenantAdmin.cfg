\* Two workloads that come, go and change while applies fail and are interrupted.
SPECIFICATION FairSpec
CONSTANTS
    web = web
    api = api
    v1 = v1
    v2 = v2
    Keys = {web, api}
    Charts = {v1, v2}
    Tenant = tenant
    NoChart = NoChart
    Broken = Broken
    Pending = Pending
    Admin = Admin
    HelmIdentity = Admin
    Lists <- TwoLists
    MaxChanges = 1
    MaxFaults = 2
INVARIANTS
    OkMeansApplied
PROPERTIES
    ImplementsInventory
    FailuresContained
    Converges
