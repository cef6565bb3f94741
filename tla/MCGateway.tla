----------------------------- MODULE MCGateway -----------------------------
(* An instance of Gateway for TLC: a driver and an administrator of one carrier *)
(* organization and a shipper, with a session each, and a driver without one.  *)
EXTENDS Gateway, TLC

CONSTANTS f1, f2, f3, driver1, driver2, manager, sender, shipperOrg, carrierOrg1, carrierOrg2

MCFamily == {f1, f2, f3}
MCUser == {driver1, driver2, manager, sender}
MCOrg  == {shipperOrg, carrierOrg1, carrierOrg2}

MCAccountOf == (f1 :> driver1) @@ (f2 :> manager) @@ (f3 :> sender)

MCRoleOf ==
    (driver1 :> "carrier") @@ (driver2 :> "carrier") @@ (manager :> "admin")
        @@ (sender :> "shipper")

MCOrgOf == [u \in MCUser |-> IF u = sender THEN shipperOrg ELSE carrierOrg1]

MCTypeOf ==
    (shipperOrg :> "shipper") @@ (carrierOrg1 :> "carrier") @@ (carrierOrg2 :> "carrier")
=============================================================================
