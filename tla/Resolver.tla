------------------------------ MODULE Resolver ------------------------------
(***************************************************************************)
(* Entity resolution (app/resolve.py) and the rollup to the top account    *)
(* (classify/runner.top_level_entity).  A term is a normalized name; a     *)
(* query carries identifiers, a name and the terms found in its context.   *)
(***************************************************************************)
EXTENDS Integers, Sequences, FiniteSets

CONSTANTS
    Entities,   \* entity ids, 1..n: ORDER BY entity_id is <
    Terms,      \* normalized names, aliases and collision terms
    NameOf,     \* entity -> the term of its name
    Ratio,      \* <<a, b>> -> SequenceMatcher(None, a, b).ratio() in percent; not symmetric
    Rank,       \* term -> its place in the order of strings
    CloseMatches,  \* how many near spellings are looked at; 8 in the code
    None        \* an empty cell, a missing hint, no entity

ASSUME ResolverAssumption ==
    /\ Entities \subseteq Nat /\ IsFiniteSet(Entities) /\ None \notin Entities /\ None \notin Terms
    /\ NameOf \in [Entities -> Terms] /\ Ratio \in [Terms \X Terms -> 0..100]
    /\ Rank \in [Terms -> Nat] /\ \A t, u \in Terms : Rank[t] = Rank[u] => t = u
    /\ CloseMatches \in Nat \ {0}

MATCH_THRESHOLD == 90
REVIEW_THRESHOLD == 75
IdKinds == <<"cik", "ticker", "lei">>
Kinds == {IdKinds[i] : i \in 1..Len(IdKinds)}

Matched(e, method) == [status |-> "matched", entity |-> e, method |-> method, candidates |-> {e}]
Review(S, method) == [status |-> "review", entity |-> None, method |-> method, candidates |-> S]
NoMatch == [status |-> "none", entity |-> None, method |-> "none", candidates |-> {}]

(* What EntityResolver loads: the active entities, their identifiers, and   *)
(* the aliases and collision terms of those only.                           *)
Index(active, ids, aliases, collisions) ==
    [active  |-> active,
     ids     |-> [k \in Kinds |-> [e \in active |-> ids[e][k]]],
     holders |-> [t \in Terms |-> {e \in active : NameOf[e] = t \/ <<e, t>> \in aliases}],
     blocked |-> [t \in Terms |-> {e \in active : <<e, t>> \in collisions}]]

Carriers(w, k, v) == {e \in w.active : v # None /\ w.ids[k][e] = v}
Largest(S) == CHOOSE x \in S : \A y \in S : y <= x
Smallest(S) == CHOOSE x \in S : \A y \in S : x <= y

(* _context_confirms: another positive term of e occurs in the context.     *)
Confirmed(w, S, t, context) == {e \in S : \E u \in context \ {t} : e \in w.holders[u]}

(* Several candidates for a term: the context may single one out.           *)
ByContext(w, S, t, context, otherwise) ==
    LET sure == Confirmed(w, S, t, context)
    IN  CASE Cardinality(sure) = 1 -> Matched(Smallest(sure), "name+context")
          [] Cardinality(sure) > 1 -> Review(sure, "ambiguous_context")
          [] OTHER -> Review(S, otherwise)

(* get_close_matches(n, terms, n=8, cutoff=0.75): the nearest spellings     *)
(* only, the later in string order before the earlier at the same ratio.    *)
CloseEnough(w, n) == {t \in Terms : w.holders[t] # {} /\ Ratio[<<t, n>>] >= REVIEW_THRESHOLD}
Nearer(n, t, u) ==
    \/ Ratio[<<t, n>>] > Ratio[<<u, n>>]
    \/ Ratio[<<t, n>>] = Ratio[<<u, n>>] /\ Rank[t] > Rank[u]
Near(w, n) ==
    {u \in CloseEnough(w, n) :
        Cardinality({t \in CloseEnough(w, n) : Nearer(n, t, u)}) < CloseMatches}

(* _fuzzy: the best ratio of each entity over those of its terms, computed  *)
(* again with the two strings the other way round.                          *)
Scored(w, n) ==
    {e \in w.active : \E t \in Near(w, n) : e \in w.holders[t] /\ Ratio[<<n, t>>] > 0}
Best(w, n, e) == Largest({Ratio[<<n, t>>] : t \in {u \in Near(w, n) : e \in w.holders[u]}})

Fuzzy(w, n) ==
    LET S == Scored(w, n)
        strong == {e \in S : Best(w, n, e) >= MATCH_THRESHOLD}
    IN  CASE S = {} -> NoMatch
          [] Cardinality(strong) = 1 -> Matched(Smallest(strong), "fuzzy")
          [] OTHER -> Review(S, "fuzzy_below_threshold")

(* Wrong on purpose: the exact name is tried before the collision guard.    *)
ByNameUnguarded(w, n, context) ==
    IF n # None /\ Cardinality(w.holders[n]) = 1 THEN Matched(Smallest(w.holders[n]), "name")
    ELSE IF n # None /\ w.blocked[n] # {} THEN ByContext(w, w.blocked[n], n, context, "collision_term")
    ELSE IF n # None THEN Fuzzy(w, n) ELSE NoMatch

ByName(w, n, context) ==
    CASE n = None -> NoMatch
      [] n # None /\ w.blocked[n] # {} ->
            ByContext(w, w.blocked[n], n, context, "collision_term")
      [] n # None /\ w.blocked[n] = {} /\ Cardinality(w.holders[n]) = 1 ->
            Matched(Smallest(w.holders[n]), "name")
      [] n # None /\ w.blocked[n] = {} /\ Cardinality(w.holders[n]) > 1 ->
            ByContext(w, w.holders[n], n, context, "ambiguous_name")
      [] OTHER -> Fuzzy(w, n)

(* EntityResolver.resolve: identifiers in order, then the name.  Two        *)
(* entities with one identifier: the last row loaded answers for it.        *)
Resolve(w, q) ==
    LET hits == {i \in 1..Len(IdKinds) :
                    Carriers(w, IdKinds[i], q.ids[IdKinds[i]]) # {}}
        kind == IdKinds[Smallest(hits)]
    IN  IF hits # {} THEN Matched(Largest(Carriers(w, kind, q.ids[kind])), kind)
        ELSE ByName(w, q.name, q.context)

(* What may be matched, said without the order of the steps: an identifier, *)
(* a name nobody guards and nobody else holds, a context that names one     *)
(* candidate only, or, of the spellings that are looked at, one that is     *)
(* near enough for one entity only.                                         *)
Earned(w, q, e) ==
    \/ \E k \in Kinds : q.ids[k] # None /\ w.ids[k][e] = q.ids[k]
    \/ /\ q.name # None /\ w.blocked[q.name] = {}
       /\ \/ w.holders[q.name] = {e}
          \/ /\ w.holders[q.name] = {}
             /\ \A f \in w.active : f = e <=> \E t \in Near(w, q.name) :
                    f \in w.holders[t] /\ Ratio[<<q.name, t>>] >= MATCH_THRESHOLD
    \/ /\ q.name # None
       /\ LET rivals == IF w.blocked[q.name] # {} THEN w.blocked[q.name]
                        ELSE w.holders[q.name]
          IN  /\ e \in rivals
              /\ \A f \in rivals :
                    f = e <=> \E u \in q.context : u # q.name /\ f \in w.holders[u]

-----------------------------------------------------------------------------
(* The parent of e for a rollup: the first stored relationship, else the    *)
(* parent_id hint; a disabled or unknown parent ends the walk.              *)
ParentOf(e, live, rel, hint) ==
    LET parents == {p \in Entities : <<p, e>> \in rel}
        parent  == IF parents # {} THEN Smallest(parents) ELSE hint[e]
    IN  IF parent \in live THEN parent ELSE e

(* top_level_entity: up until nothing new, so a cycle ends where it closes. *)
TopLevel(e, live, rel, hint) ==
    LET up[n \in Nat] == IF n = 0 THEN e ELSE ParentOf(up[n - 1], live, rel, hint)
        closes == {n \in 1..(Cardinality(Entities) + 1) : \E m \in 0..(n - 1) : up[m] = up[n]}
    IN  up[Smallest(closes)]
=============================================================================
