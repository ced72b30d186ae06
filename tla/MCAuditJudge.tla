----------------------------- MODULE MCAuditJudge -----------------------------
(* Three signals in two strata, two checks, calls of one or two cents under *)
(* a ceiling of three.                                                      *)
EXTENDS AuditJudge, TLC

CONSTANTS s1, s2, s3, match, support

ThreeSignals == {s1, s2, s3}
TwoStrata    == s1 :> 1 @@ s2 :> 1 @@ s3 :> 2
TwoChecks    == {match, support}
OneOrTwo     == {1, 2}

Alike == Permutations({s1, s2}) \cup Permutations(TwoChecks)
===============================================================================
