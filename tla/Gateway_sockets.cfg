SPECIFICATION FairSpec
CONSTANTS
    Family <- MCFamily
    Socket = {c1, c2}
    Nil = Nil
    f1 = f1
    f2 = f2
    f3 = f3
    driver1 = driver1
    driver2 = driver2
    manager = manager
    sender = sender
    shipperOrg = shipperOrg
    carrierOrg1 = carrierOrg1
    carrierOrg2 = carrierOrg2
    User <- MCUser
    Org <- MCOrg
    AccountOf <- MCAccountOf
    RoleOf <- MCRoleOf
    OrgOf <- MCOrgOf
    TypeOf <- MCTypeOf
INVARIANTS
    OnlyRacingSocketsOutlive
    ShowsWhatTheApiShows
PROPERTIES
    ForcedLogoutArrives
