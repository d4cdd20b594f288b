\* Two workloads deployed with one namespace-local identity.
SPECIFICATION FairSpec
CONSTANTS
    web = web
    api = api
    v1 = v1
    v2 = v2
    Keys = {web, api}
    Charts = {v1}
    Tenant = tenant
    NoChart = NoChart
    Broken = Broken
    Pending = Pending
    Admin = Admin
    HelmIdentity = web
    Lists <- AllLists
    MaxChanges = 1
    MaxFaults = 0
PROPERTY WorkloadsDeployed
