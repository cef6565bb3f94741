---------------------------- MODULE MCShipments ----------------------------
(* Instances of Shipments for TLC: one shipper, one carrier organization with *)
(* two drivers.                                                                *)
EXTENDS ShipmentsInv, TLC

CONSTANTS sender, driver1, driver2, shipperOrg, carrierOrg1

MCUser == {sender, driver1, driver2}
MCOrg  == {shipperOrg, carrierOrg1}

MCRoleOf ==
    (sender :> "admin") @@ (driver1 :> "carrier") @@ (driver2 :> "carrier")

MCOrgOf ==
    (sender :> shipperOrg) @@ (driver1 :> carrierOrg1) @@ (driver2 :> carrierOrg1)

MCTypeOf == (shipperOrg :> "shipper") @@ (carrierOrg1 :> "carrier")

Symmetry == Permutations(Shipment) \cup Permutations(Request) \cup Permutations({driver1, driver2})
=============================================================================
