-------------------------- MODULE MCSignalLifecycle --------------------------
(* Two classifiers that each emit a card on the one event of the source     *)
(* they share.                                                              *)
EXTENDS SignalLifecycle

OneEvent       == {"filing"}
TwoClassifiers == {"incident", "leadership"}
FilingCards    == {"breach", "newchief"}
FilingOn       == [breach |-> "filing", newchief |-> "filing"]
FilingBy       == [breach |-> "incident", newchief |-> "leadership"]
NoDockets      == {}
=============================================================================
