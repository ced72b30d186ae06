---------------------------- MODULE MCAggregates ----------------------------
(* An early warning and a regulatory card, with triggers of their own.      *)
EXTENDS Aggregates, TLC

CONSTANTS breach, rule

TwoCards   == {breach, rule}
Triggers   == breach :> "incident" @@ rule :> "deadline"
MintTiers  == breach :> "unconfirmed" @@ rule :> Plain
=============================================================================
