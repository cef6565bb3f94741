SPECIFICATION Spec
CONSTANTS
    Shipment = {s1, s2}
    Request = {r1, r2}
    Nil = Nil
    sender = sender
    driver1 = driver1
    driver2 = driver2
    shipperOrg = shipperOrg
    carrierOrg1 = carrierOrg1
    User <- MCUser
    Org <- MCOrg
    RoleOf <- MCRoleOf
    OrgOf <- MCOrgOf
    TypeOf <- MCTypeOf
    Handlers = {"create", "accept"}
    Asked = {"cancelled"}
    MaxCalls = 6
SYMMETRY Symmetry
INVARIANT OneActiveShipment
CHECK_DEADLOCK FALSE
