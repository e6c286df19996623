--------------------------- MODULE MCMeshScanner ---------------------------
(***************************************************************************)
(* The scanner among four devices: one that offers to be provisioned, a    *)
(* proxy that lists a vendor's service too, one that lists another service *)
(* of the Bluetooth SIG after its mesh service, and one that is no mesh    *)
(* device.                                                                 *)
(***************************************************************************)
EXTENDS MeshScanner, TLC

CONSTANTS bulb, switch, sensor, phone

MCServices == bulb :> <<"prov">> @@ switch :> <<"proxy", "vendor">>
              @@ sensor :> <<"proxy", "sig">> @@ phone :> <<"sig">>
=============================================================================
