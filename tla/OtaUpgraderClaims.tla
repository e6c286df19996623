------------------------- MODULE OtaUpgraderClaims -------------------------
(***************************************************************************)
(* A statement of the comments in the upgrader's source that its code does *)
(* not keep, refuted by a run of its own.                                  *)
(***************************************************************************)
EXTENDS OtaUpgrader

\* the reply to the phone's request op is delivered, and it is a success
Delivered(op) == Replied({op}) /\ Head(air).r = "success" /\ air' = Tail(air)

\* "The OTA adapter must call this interface when the OTA service and
\* characteristics discovering has completed": a discovery completed for an
\* upgrade that is being served is posted to the upgrader.
DiscoveryIsReported ==
    [][Routed /\ Delivered("discover") => u'.mainQ # u.mainQ]_vars
=============================================================================
