------------------------------- MODULE Domain -------------------------------
(***************************************************************************)
(* What the modules of the back office share: the rows other modules own,  *)
(* seen only as identifiers.                                               *)
(***************************************************************************)
CONSTANTS
    Person,       \* people, each with one e-mail address
    Shipment,
    Request,      \* HTTP requests the server may be working on at once
    Nil           \* an absent row, an empty column or an unset local
=============================================================================
