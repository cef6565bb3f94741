SPECIFICATION Spec
CONSTANTS
    Shipment = {s1}
    Request = {r1, r2}
    Nil = Nil
    sender = sender
    driver1 = driver1
    driver2 = driver2
    shipperOrg = shipperOrg
    carrierOrg1 = carrierOrg1
    User <- MCUser
    Org <- MCOrg
    RoleOf <- MCRoleOf
    OrgOf <- MCOrgOf
    TypeOf <- MCTypeOf
    Handlers = {"create", "status"}
    Asked = {"confirmed", "picked_up", "in_transit", "out_for_delivery", "delivered", "cancelled"}
    MaxCalls = 8
SYMMETRY Symmetry
PROPERTY DeliveredIsTerminal
CHECK_DEADLOCK FALSE
