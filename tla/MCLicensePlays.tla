--------------------------- MODULE MCLicensePlays ---------------------------
(* An early warning whose trigger has two plays, one of them not available  *)
(* in gov clouds; an ordinary card; a fact each, a gcc_high fact the matrix *)
(* may or may not yield, and room for a fact of the operator's own.         *)
EXTENDS LicensePlays, TLC

CONSTANTS leak, rule, endpoint, copilot

TwoCards   == {leak, rule}
MintTiers  == leak :> "unconfirmed" @@ rule :> Plain
TwoPlays   == {endpoint, copilot}
PlaysOn    == leak :> {endpoint, copilot} @@ rule :> {endpoint}
GovHidden  == {copilot}
ThreeFacts == {"commercial", "gcc_high", "own"}
FactsFor   == endpoint :> ThreeFacts @@ copilot :> {"commercial"}
InMatrix   == {"commercial", "gcc_high"}
Commercial == {"commercial"}
=============================================================================
