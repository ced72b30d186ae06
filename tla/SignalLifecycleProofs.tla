------------------------ MODULE SignalLifecycleProofs ------------------------
(***************************************************************************)
(* For every set of events, classifiers and cards: the types, the store's  *)
(* agreement with the rules (but for killed runs), the provenance of what  *)
(* the current rule worded, the inviolability of a dismissed card, and     *)
(* what a run can reach.                                                   *)
(***************************************************************************)
EXTENDS SignalLifecycle, TLAPS

USE CardAssumption, NobodyAssumption, BoundAssumption
    DEF CardAssumption, NobodyAssumption, BoundAssumption

(* Types, whatever runs, fails or is killed.                                *)
THEOREM TypeCorrect == Spec => []TypeOK
<1>1. Init => TypeOK
  BY DEF Init, TypeOK, Statuses, Verdicts, Versions
<1>2. TypeOK /\ [Next]_vars => TypeOK'
  <2> SUFFICES ASSUME TypeOK, [Next]_vars PROVE TypeOK'
    OBVIOUS
  <2> USE DEF TypeOK, Statuses, Verdicts, store, run
  <2>1. ASSUME NEW e \in Events, Ingest(e) PROVE TypeOK'
    BY <2>1 DEF Ingest
  <2>2. ASSUME NEW k \in Classifiers, Redeploy(k) PROVE TypeOK'
    BY <2>2 DEF Redeploy, Versions
  <2>3. ASSUME NEW k \in Classifiers, NEW rows \in {"new", "all"},
               NEW reach \in {"full", "limited"}, StartRun(k, rows, reach)
        PROVE  TypeOK'
    BY <2>3 DEF StartRun
  <2>4. ASSUME NEW e \in Events, ClassifyEvent(e) PROVE TypeOK'
    <3>1. runner \in Classifiers /\ version[runner] \in Versions
      BY <2>4 DEF ClassifyEvent
    <3>2. version[runner] \in 0 .. MaxVersion /\ version[runner] # 0
      BY <3>1 DEF Versions
    <3>3. /\ status' \in [Cards -> Statuses]
          /\ text' \in [Cards -> 0 .. MaxVersion]
          /\ \A c \in Cards : status'[c] = "absent" <=> text'[c] = 0
      BY <2>4, <3>2 DEF ClassifyEvent, Minted, Refreshed, NeedsRefresh, Stored
    <3>4. classified' \subseteq Events \X Classifiers \X Versions
      BY <2>4, <3>1 DEF ClassifyEvent
    <3>5. review' \in [Events -> {"none", "pending", "decided"}]
      BY <2>4 DEF ClassifyEvent
    <3>6. emitted' \subseteq Cards
      BY <2>4 DEF ClassifyEvent, Emitted, CardsOf
    <3>7. QED
      BY <2>4, <3>1, <3>3, <3>4, <3>5, <3>6 DEF ClassifyEvent
  <2>5. ASSUME NEW e \in Events, EventErrors(e) PROVE TypeOK'
    BY <2>5 DEF EventErrors
  <2>6. CASE Reconcile
    BY <2>6 DEF Reconcile, Reconciled, Stored
  <2>7. CASE Kill
    BY <2>7 DEF Kill
  <2>8. CASE Rescore
    BY <2>8 DEF Rescore
  <2>9. CASE Supersede
    BY <2>9 DEF Supersede, Superseded
  <2>10. ASSUME NEW c \in Cards, Dismiss(c) PROVE TypeOK'
    BY <2>10 DEF Dismiss, Stored
  <2>11. ASSUME NEW e \in Events, Triage(e) PROVE TypeOK'
    BY <2>11 DEF Triage
  <2>12. CASE UNCHANGED vars
    BY <2>12 DEF vars
  <2>13. QED
    BY <2>1, <2>2, <2>3, <2>4, <2>5, <2>6, <2>7, <2>8, <2>9, <2>10, <2>11,
       <2>12 DEF Next
<1>3. QED
  BY <1>1, <1>2, PTL DEF Spec

-----------------------------------------------------------------------------
(* The invariant is inductive.  Most steps leave the store alone and are    *)
(* dealt with together (StoreUntouched); ClassifyEvent establishes what     *)
(* RunInv says of the event's cards, and Reconcile trades RunInv for        *)
(* FollowsRule.                                                             *)
LEMMA InitInv == Init => LifecycleInv
  BY DEF Init, LifecycleInv, HistoryInv, RunInv, StoreFollowsRules,
         TextIsSourced, InRun, CurrentlyClassified, Versions

LEMMA IngestInv ==
    ASSUME LifecycleInv, NEW e \in Events, Ingest(e) PROVE LifecycleInv'
  BY DEF LifecycleInv, HistoryInv, RunInv, StoreFollowsRules, TextIsSourced,
         InRun, FollowsRule, CurrentlyClassified, Stored, Ingest, store, run

LEMMA EventErrorsInv ==
    ASSUME LifecycleInv, NEW e \in Events, EventErrors(e) PROVE LifecycleInv'
  BY DEF LifecycleInv, HistoryInv, RunInv, StoreFollowsRules, TextIsSourced,
         InRun, FollowsRule, CurrentlyClassified, Stored, EventErrors, store

LEMMA StartRunInv ==
    ASSUME TypeOK, LifecycleInv, NEW k \in Classifiers,
           NEW rows \in {"new", "all"}, NEW reach \in {"full", "limited"},
           StartRun(k, rows, reach)
    PROVE  LifecycleInv'
  BY DEF TypeOK, LifecycleInv, HistoryInv, RunInv, StoreFollowsRules,
         TextIsSourced, InRun, FollowsRule, CurrentlyClassified, Stored,
         StartRun, store

LEMMA TriageInv ==
    ASSUME TypeOK, LifecycleInv, NEW e \in Events, Triage(e)
    PROVE  LifecycleInv'
  BY DEF TypeOK, LifecycleInv, HistoryInv, RunInv, StoreFollowsRules,
         TextIsSourced, InRun, FollowsRule, CurrentlyClassified, Stored,
         Triage, run

LEMMA KillInv ==
    ASSUME TypeOK, LifecycleInv, Kill PROVE LifecycleInv'
  BY DEF TypeOK, LifecycleInv, HistoryInv, RunInv, StoreFollowsRules,
         TextIsSourced, InRun, FollowsRule, CurrentlyClassified, Stored,
         Kill, store

(* A new version has classified and worded nothing yet.                     *)
LEMMA RedeployInv ==
    ASSUME TypeOK, LifecycleInv, NEW k \in Classifiers, Redeploy(k)
    PROVE  LifecycleInv'
<1> USE DEF TypeOK, Versions
<1>1. version[k] + 1 \in Versions /\ version' = [version EXCEPT ![k] = version[k] + 1]
  BY DEF Redeploy
<1>2. HistoryInv'
  BY <1>1 DEF Redeploy, LifecycleInv, HistoryInv, store
<1>3. RunInv'
  BY DEF Redeploy, LifecycleInv, RunInv, InRun, run
<1>4. ASSUME NEW c \in Cards, OwnerOf[c] = k
      PROVE  ~CurrentlyClassified(EventOf[c], k)' /\ text'[c] # version'[k]
  BY <1>1, <1>4 DEF Redeploy, LifecycleInv, HistoryInv, CurrentlyClassified, store
<1>5. ASSUME NEW c \in Cards, OwnerOf[c] # k
      PROVE  /\ says'[c] = says[c] /\ version'[OwnerOf[c]] = version[OwnerOf[c]]
             /\ <<EventOf[c], OwnerOf[c]>> \in torn => <<EventOf[c], OwnerOf[c]>> \in torn'
  BY <1>1, <1>5 DEF Redeploy
<1>6. StoreFollowsRules'
  BY <1>4, <1>5 DEF Redeploy, LifecycleInv, StoreFollowsRules, FollowsRule,
                    CurrentlyClassified, InRun, Stored, store, run
<1>7. TextIsSourced'
  BY <1>4, <1>5 DEF Redeploy, LifecycleInv, TextIsSourced, store
<1>8. QED
  BY <1>2, <1>3, <1>6, <1>7 DEF LifecycleInv

(* Status changes outside a run move a live card among the live statuses    *)
(* or to "dismissed", which every rule accepts.                             *)
LEMMA ShelvedInv ==
    ASSUME TypeOK, LifecycleInv, Rescore \/ Supersede \/ \E c \in Cards : Dismiss(c)
    PROVE  LifecycleInv'
<1>1. /\ UNCHANGED <<version, says, text, classified, review, run, torn>>
      /\ runner = Nobody
  BY DEF Rescore, Supersede, Dismiss
<1>2. \A c \in Cards : \/ status'[c] = status[c]
                       \/ /\ status[c] = "active"
                          /\ status'[c] \in {"decayed", "superseded"}
                       \/ Stored(c) /\ status'[c] = "dismissed"
  BY DEF TypeOK, Rescore, Supersede, Superseded, Dismiss
<1>3. \A c \in Cards : FollowsRule(c) => FollowsRule(c)'
  BY <1>1, <1>2 DEF FollowsRule, Stored, TypeOK, Verdicts
<1>4. QED
  BY <1>1, <1>3 DEF LifecycleInv, HistoryInv, RunInv, StoreFollowsRules,
                    TextIsSourced, InRun, CurrentlyClassified, run, TypeOK

(* What a run leaves of an event's cards is what RunInv says of them.       *)
LEMMA ClassifyEventInv ==
    ASSUME TypeOK, LifecycleInv, NEW e \in Events, ClassifyEvent(e)
    PROVE  LifecycleInv'
<1> DEFINE k == runner
<1> USE DEF TypeOK
<1>1. /\ k \in Classifiers /\ version[k] \in Versions /\ version[k] # 0
      /\ runner' = k /\ UNCHANGED <<version, says, torn>>
      /\ processed' = processed \cup {e}
      /\ classified' = classified \cup {<<e, k, version[k]>>}
  BY DEF ClassifyEvent, Versions
<1>2. ASSUME NEW c \in Cards, c \notin CardsOf(e, k)
      PROVE  /\ status'[c] = status[c] /\ text'[c] = text[c]
             /\ c \in emitted' <=> c \in emitted
             /\ InRun(c)' <=> InRun(c)
             /\ CurrentlyClassified(EventOf[c], OwnerOf[c])'
                  <=> CurrentlyClassified(EventOf[c], OwnerOf[c])
  <2>1. status'[c] = status[c] /\ text'[c] = text[c]
    BY <1>2 DEF ClassifyEvent, Minted, Refreshed
  <2>2. c \in emitted' <=> c \in emitted
    BY <1>2 DEF ClassifyEvent, Emitted
  <2>3. InRun(c)' <=> InRun(c)
    BY <1>1, <1>2 DEF InRun, CardsOf
  <2>4. CurrentlyClassified(EventOf[c], OwnerOf[c])'
          <=> CurrentlyClassified(EventOf[c], OwnerOf[c])
    BY <1>1, <1>2 DEF CurrentlyClassified, CardsOf
  <2>5. QED
    BY <2>1, <2>2, <2>3, <2>4
<1>3. \A d \in Events : review[d] # "none" => review'[d] # "none"
  BY DEF ClassifyEvent
<1>4. ASSUME NEW c \in CardsOf(e, k)
      PROVE  /\ InRun(c)'
             /\ c \in emitted' <=> says[c] # "silent" /\ Stored(c)'
             /\ says[c] = "sourced" =>
                  /\ Stored(c)'
                  /\ status'[c] # "dismissed" => text'[c] = version[k]
             /\ says[c] = "unsourced" /\ ~Stored(c)' => review'[e] # "none"
             /\ text'[c] = version[k] => says[c] # "unsourced"
             /\ text'[c] <= version[k]
  <2>1. c \in Cards /\ EventOf[c] = e /\ OwnerOf[c] = k
    BY DEF CardsOf
  <2>2. InRun(c)'
    BY <1>1, <2>1 DEF InRun
  <2>3. c \in emitted => Stored(c)
    BY <2>1 DEF LifecycleInv, RunInv
  <2>4. c \in emitted => says[c] # "silent"
    BY <2>1 DEF LifecycleInv, RunInv
  <2>5. /\ status'[c] = IF says[c] = "sourced" /\ ~Stored(c) THEN "active" ELSE status[c]
        /\ text'[c] = IF says[c] = "sourced" /\ (~Stored(c) \/ NeedsRefresh(c, k))
                        THEN version[k] ELSE text[c]
    BY <2>1 DEF ClassifyEvent, Minted, Refreshed, Stored, NeedsRefresh
  <2>6. c \in emitted' <=> says[c] # "silent" /\ (says[c] = "sourced" \/ Stored(c))
    BY <2>1, <2>3, <2>4 DEF ClassifyEvent, Emitted, Verdicts
  <2>7. says[c] = "unsourced" /\ ~Stored(c) => review'[e] # "none"
    BY <2>1 DEF ClassifyEvent, Quarantined
  <2>8. text[c] = version[k] => says[c] # "unsourced"
    BY <2>1 DEF LifecycleInv, TextIsSourced
  <2>9. text[c] <= version[k]
    BY <2>1 DEF LifecycleInv, HistoryInv
  <2>10. Stored(c)' <=> Stored(c) \/ says[c] = "sourced"
    BY <2>1, <2>5 DEF Stored
  <2>11. QED
    BY <1>1, <2>2, <2>5, <2>6, <2>7, <2>8, <2>9, <2>10 DEF Stored, NeedsRefresh, Versions
<1>5. HistoryInv'
  <2>1. \A c \in Cards : text'[c] <= version'[OwnerOf[c]]
    BY <1>1, <1>2, <1>4 DEF LifecycleInv, HistoryInv, CardsOf
  <2>2. QED
    BY <1>1, <2>1 DEF LifecycleInv, HistoryInv, Versions
<1>6. RunInv'
  <2>1. \A c \in Cards : c \in emitted' => InRun(c)'
    BY <1>2, <1>4 DEF LifecycleInv, RunInv
  <2>2. ASSUME NEW c \in Cards, InRun(c)'
        PROVE  /\ c \in emitted' <=> says'[c] # "silent" /\ Stored(c)'
               /\ says'[c] = "sourced" =>
                    /\ Stored(c)'
                    /\ status'[c] # "dismissed" => text'[c] = version'[OwnerOf[c]]
               /\ says'[c] = "unsourced" /\ ~Stored(c)' => review'[EventOf[c]] # "none"
    <3>1. CASE c \in CardsOf(e, k)
      BY <1>1, <1>4, <3>1 DEF CardsOf
    <3>2. CASE c \notin CardsOf(e, k)
      BY <1>1, <1>2, <1>3, <2>2, <3>2 DEF LifecycleInv, RunInv, Stored
    <3>3. QED
      BY <3>1, <3>2
  <2>3. QED
    BY <1>1, <2>1, <2>2 DEF RunInv
<1>7. StoreFollowsRules'
  <2> SUFFICES ASSUME NEW c \in Cards, CurrentlyClassified(EventOf[c], OwnerOf[c])'
               PROVE  \/ FollowsRule(c)' \/ InRun(c)'
                      \/ <<EventOf[c], OwnerOf[c]>> \in torn'
    BY DEF StoreFollowsRules
  <2>1. CASE c \in CardsOf(e, k)
    BY <1>4, <2>1
  <2>2. CASE c \notin CardsOf(e, k)
    <3>1. FollowsRule(c) => FollowsRule(c)'
      BY <1>1, <1>2, <1>3, <2>2 DEF FollowsRule, Stored
    <3>2. QED
      BY <1>1, <1>2, <2>2, <3>1 DEF LifecycleInv, StoreFollowsRules
  <2>3. QED
    BY <2>1, <2>2
<1>8. TextIsSourced'
  BY <1>1, <1>2, <1>4 DEF LifecycleInv, TextIsSourced, CardsOf
<1>9. QED
  BY <1>5, <1>6, <1>7, <1>8 DEF LifecycleInv

(* The run's cards now follow the rule; everybody else's are as they were.  *)
LEMMA ReconcileInv ==
    ASSUME TypeOK, LifecycleInv, Reconcile PROVE LifecycleInv'
<1> USE DEF TypeOK
<1>1. /\ runner \in Classifiers /\ runner' = Nobody /\ processed' = {} /\ emitted' = {}
      /\ UNCHANGED <<version, says, text, classified, review>>
      /\ torn' = torn \ (processed \X {runner})
  BY DEF Reconcile
<1>2. HistoryInv' /\ RunInv' /\ TextIsSourced'
  BY <1>1 DEF LifecycleInv, HistoryInv, RunInv, InRun, TextIsSourced
<1>3. ASSUME NEW c \in Cards, InRun(c) PROVE FollowsRule(c)'
  <2>1. Stored(c)' <=> Stored(c)
    BY <1>1, <1>3 DEF Reconcile, Reconciled, Stored
  <2>2. CASE ~Stored(c)
    BY <1>1, <1>3, <2>1, <2>2 DEF LifecycleInv, RunInv, FollowsRule, Stored, Reconcile, Reconciled
  <2>3. CASE Stored(c)
    <3>1. status'[c] = IF c \in emitted
                         THEN IF status[c] = "retracted" THEN "active" ELSE status[c]
                         ELSE IF status[c] = "dismissed" THEN status[c] ELSE "retracted"
      BY <1>3, <2>3 DEF Reconcile, Reconciled, InRun
    <3>2. c \in emitted <=> says[c] # "silent"
      BY <1>3, <2>3 DEF LifecycleInv, RunInv
    <3>3. says[c] = "sourced" /\ status[c] # "dismissed" => text[c] = version[OwnerOf[c]]
      BY <1>3 DEF LifecycleInv, RunInv
    <3>4. QED
      BY <1>1, <2>1, <2>3, <3>1, <3>2, <3>3 DEF FollowsRule, Stored
  <2>4. QED
    BY <2>2, <2>3
<1>4. ASSUME NEW c \in Cards, ~InRun(c)
      PROVE  /\ FollowsRule(c) => FollowsRule(c)'
             /\ <<EventOf[c], OwnerOf[c]>> \in torn => <<EventOf[c], OwnerOf[c]>> \in torn'
  <2>1. status'[c] = status[c]
    BY <1>4 DEF Reconcile, Reconciled, InRun
  <2>2. QED
    BY <1>1, <1>4, <2>1 DEF FollowsRule, Stored, InRun
<1>5. StoreFollowsRules'
  BY <1>1, <1>3, <1>4 DEF LifecycleInv, StoreFollowsRules, CurrentlyClassified
<1>6. QED
  BY <1>2, <1>5 DEF LifecycleInv

LEMMA LifecycleInvariant == Spec => []LifecycleInv
<1>1. TypeOK /\ LifecycleInv /\ [Next]_vars => LifecycleInv'
  <2> SUFFICES ASSUME TypeOK, LifecycleInv, [Next]_vars PROVE LifecycleInv'
    OBVIOUS
  <2>1. CASE UNCHANGED vars
    BY <2>1 DEF vars, store, run, LifecycleInv, HistoryInv, RunInv, InRun, Stored,
         StoreFollowsRules, TextIsSourced, FollowsRule, CurrentlyClassified
  <2>2. CASE Next
    BY <2>2, IngestInv, EventErrorsInv, StartRunInv, TriageInv, KillInv,
       RedeployInv, ShelvedInv, ClassifyEventInv, ReconcileInv DEF Next
  <2>3. QED
    BY <2>1, <2>2
<1>2. QED
  BY <1>1, InitInv, TypeCorrect, PTL DEF Spec

(* The store is what the current rules make of the classified events,       *)
(* except where a killed run left one half reconciled.                      *)
THEOREM StoreAgreesWithRules == Spec => []StoreFollowsRules
  BY LifecycleInvariant, PTL DEF LifecycleInv

(* R10.6 over the whole store and its history.                              *)
THEOREM ProvenanceHolds == Spec => []TextIsSourced
  BY LifecycleInvariant, PTL DEF LifecycleInv

(* No job overwrites the operator's judgment of a card.                     *)
THEOREM DismissalStands == Spec => DismissedStands
<1>1. TypeOK /\ [Next]_vars =>
        [\A c \in Cards : status[c] = "dismissed" =>
            status'[c] = "dismissed" /\ text'[c] = text[c]]_vars
  <2> SUFFICES ASSUME TypeOK, Next, NEW c \in Cards, status[c] = "dismissed"
               PROVE  status'[c] = "dismissed" /\ text'[c] = text[c]
    OBVIOUS
  <2>1. ASSUME NEW e \in Events, ClassifyEvent(e)
        PROVE  status'[c] = "dismissed" /\ text'[c] = text[c]
    BY <2>1 DEF ClassifyEvent, Minted, Refreshed, NeedsRefresh, Stored, TypeOK
  <2>2. CASE Reconcile \/ Rescore \/ Supersede \/ \E d \in Cards : Dismiss(d)
    BY <2>2 DEF Reconcile, Rescore, Supersede, Superseded, Dismiss, TypeOK
  <2>3. ASSUME NEW e \in Events, Ingest(e) \/ EventErrors(e) \/ Triage(e)
        PROVE  status' = status /\ text' = text
    BY <2>3 DEF Ingest, EventErrors, Triage, store
  <2>4. ASSUME NEW k \in Classifiers, NEW rows \in {"new", "all"},
               NEW reach \in {"full", "limited"},
               Redeploy(k) \/ StartRun(k, rows, reach)
        PROVE  status' = status /\ text' = text
    BY <2>4 DEF Redeploy, StartRun, store
  <2>5. CASE Kill
    BY <2>5 DEF Kill, store
  <2>6. QED
    BY <2>1, <2>2, <2>3, <2>4, <2>5 DEF Next
<1>2. QED
  BY <1>1, TypeCorrect, PTL DEF Spec, DismissedStands

(* A run keeps count of what it has classified, at the version it runs.     *)
ProcessedInv == \A e \in processed : CurrentlyClassified(e, runner)

LEMMA ProcessedInvariant == Spec => []ProcessedInv
<1>1. Init => ProcessedInv
  BY DEF Init, ProcessedInv
<1>2. TypeOK /\ LifecycleInv /\ ProcessedInv /\ [Next]_vars => ProcessedInv'
  <2> SUFFICES ASSUME TypeOK, LifecycleInv, ProcessedInv, [Next]_vars PROVE ProcessedInv'
    OBVIOUS
  <2> USE DEF ProcessedInv, CurrentlyClassified
  <2>1. ASSUME NEW e \in Events, ClassifyEvent(e) PROVE ProcessedInv'
    BY <2>1 DEF ClassifyEvent
  <2>2. ASSUME NEW e \in Events, Ingest(e) \/ EventErrors(e) \/ Triage(e) PROVE ProcessedInv'
    BY <2>2 DEF Ingest, EventErrors, Triage, store, run
  <2>3. ASSUME NEW k \in Classifiers, Redeploy(k) PROVE ProcessedInv'
    BY <2>3 DEF Redeploy, LifecycleInv, RunInv, store, run
  <2>4. ASSUME NEW k \in Classifiers, NEW rows \in {"new", "all"},
               NEW reach \in {"full", "limited"}, StartRun(k, rows, reach)
        PROVE  ProcessedInv'
    BY <2>4 DEF StartRun
  <2>5. CASE Reconcile \/ Kill
    BY <2>5 DEF Reconcile, Kill
  <2>6. CASE Rescore \/ Supersede \/ \E c \in Cards : Dismiss(c)
    BY <2>6 DEF Rescore, Supersede, Dismiss, run
  <2>7. CASE UNCHANGED vars
    BY <2>7 DEF vars, store, run
  <2>8. QED
    BY <2>1, <2>2, <2>3, <2>4, <2>5, <2>6, <2>7 DEF Next
<1>3. QED
  BY <1>1, <1>2, TypeCorrect, LifecycleInvariant, PTL DEF Spec

(* Whatever errors, limits and kills a run meets, the cards of its          *)
(* co-tenants and of the events it did not classify stay as they are.       *)
THEOREM RunsAreConfined == Spec => RunTouchesOnlyItsOwn
<1>1. TypeOK /\ ProcessedInv /\ [Next]_vars =>
        [runner # Nobody => \A c \in Cards : status'[c] # status[c] =>
            /\ OwnerOf[c] = runner
            /\ <<EventOf[c], runner, version[runner]>> \in classified']_vars
  <2> SUFFICES ASSUME TypeOK, ProcessedInv, Next, runner # Nobody, NEW c \in Cards,
                      status'[c] # status[c]
               PROVE  /\ OwnerOf[c] = runner
                      /\ <<EventOf[c], runner, version[runner]>> \in classified'
    OBVIOUS
  <2>1. ASSUME NEW e \in Events, ClassifyEvent(e)
        PROVE  /\ OwnerOf[c] = runner
               /\ <<EventOf[c], runner, version[runner]>> \in classified'
    BY <2>1 DEF ClassifyEvent, Minted, CardsOf, TypeOK
  <2>2. CASE Reconcile
    <3>1. Reconciled(c) /\ classified' = classified
      BY <2>2 DEF Reconcile, TypeOK
    <3>2. QED
      BY <3>1 DEF Reconciled, ProcessedInv, CurrentlyClassified
  <2>3. ASSUME NEW e \in Events, Ingest(e) \/ EventErrors(e) \/ Triage(e)
        PROVE  FALSE
    BY <2>3 DEF Ingest, EventErrors, Triage, store
  <2>4. CASE Kill
    BY <2>4 DEF Kill, store
  <2>5. QED
    BY <2>1, <2>2, <2>3, <2>4
       DEF Next, Redeploy, StartRun, Rescore, Supersede, Dismiss
<1>2. QED
  BY <1>1, TypeCorrect, ProcessedInvariant, PTL DEF Spec, RunTouchesOnlyItsOwn
=============================================================================
