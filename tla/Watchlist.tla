----------------------------- MODULE Watchlist ------------------------------
(***************************************************************************)
(* The watchlist: the Admin editors of app/ui/data.py and their            *)
(* config_audit, the seed load (db/load_seeds.py), the identifier          *)
(* enrichment (app/enrich_entities.py), and a classification run that      *)
(* resolves names against what it loaded at its start.  Editors and runs   *)
(* share the ingestion lock; the load and the enrichment take none.        *)
(***************************************************************************)
EXTENDS Resolver

CONSTANTS
    Builds,            \* the hand-written seed files of the successive builds
    Queries,           \* what the classifiers ask of the resolver
    Identifiers,       \* CIKs, tickers and LEIs
    Subsectors,        \* values of the curated column subsector; "" is empty
    Hints,             \* the parents an operator types; None clears the cell
    Typed,             \* the aliases and collision terms an operator types
    Edgars,            \* EDGAR's name index as a refresh finds it: term -> set of CIKs
    WikidataLei,       \* identifier -> the LEI Wikidata has for that CIK, or None
    Gleif,             \* term -> the LEI GLEIF has under that exact name, or None
    GleifParent,       \* LEI -> the LEI of its direct parent, or None
    NoRun,             \* no classification run
    MaxEdits, MaxEvents  \* bounds: edits, classified events

Cells == [Kinds -> Identifiers \cup {None}]

EntityRows ==
    [origin : {"seed", "operator"}, active : BOOLEAN, ids : Cells,
     parent_id : Entities \cup Hints \cup {None}, subsector : Subsectors]

SeedFiles ==
    LET Pairs == SUBSET (Entities \X Terms) IN
    [rows : SUBSET Entities, ids : [Entities -> Cells],
     parent_id : [Entities -> Entities \cup {None}], subsector : [Entities -> Subsectors],
     alias : Pairs, splitAlias : Pairs, collision : Pairs, splitCollision : Pairs]

ASSUME SeedAssumption == Builds \in Seq(SeedFiles) /\ Builds # <<>> /\ None \notin EntityRows
ASSUME QueryAssumption ==
    /\ Queries \subseteq [ids : Cells, name : Terms \cup {None}, context : SUBSET Terms]
    /\ Typed \subseteq Terms
ASSUME LookupAssumption ==
    /\ Edgars \subseteq [Terms -> SUBSET Identifiers]
    /\ WikidataLei \in [Identifiers -> Identifiers \cup {None}]
    /\ Gleif \in [Terms -> Identifiers \cup {None}]
ASSUME EventsAssumption == MaxEdits \in Nat /\ MaxEvents \in Nat

VARIABLES
    entity,     \* entity -> its watchlist_entities row or None
    alias, collision,  \* <<entity, term>> -> who wrote the row; absent pairs are not in the domain
    rel,        \* entity_relationships: <<parent, child>>
    audit,      \* config_audit
    refs,       \* <<kind, id>>: rows that point at an entity
    run,        \* what the running classification's resolver loaded, or NoRun
    build,      \* the build that is deployed: its seed files are on disk
    generated,  \* entity_identifiers.csv and entity_relationships.csv
    events      \* events classified so far, bounded

config == <<entity, alias, collision, rel>>
disk   == <<build, generated>>
vars   == <<config, audit, refs, run, disk, events>>

files == Builds[build]

OPERATOR_SOURCE == "operator"
Existing == {e \in Entities : entity[e] # None}
Live     == {e \in Existing : entity[e].active}
NoIds    == [k \in Kinds |-> None]
Fields   == {"parent_id", "subsector"}

(* The rows of an alias or term table, by who wrote them.                   *)
Without(rows, S) == [p \in DOMAIN rows \ S |-> rows[p]]
WithRow(rows, p, by) == [q \in DOMAIN rows \cup {p} |-> IF q = p THEN by ELSE rows[q]]
WrittenBy(rows, by) == {p \in DOMAIN rows : rows[p] = by}
OfEntity(rows, e) == {p \in DOMAIN rows : p[1] = e}

Row(table, pk, field, old, new) ==
    [table |-> table, pk |-> pk, field |-> field, old |-> old, new |-> new]
Record(row) == audit' = Append(audit, row)

(* Wrong on purpose: the editors do not ask for the lock.                   *)
EditingAnyTime == Len(audit) < MaxEdits

(* config_write_conn: an editor runs while it holds the ingestion lock, so  *)
(* never during a classification run.                                       *)
Editing == run = NoRun /\ Len(audit) < MaxEdits
Untouched == UNCHANGED <<refs, run, disk, events>>

-----------------------------------------------------------------------------
(* The entity editors.                                                      *)
AddEntity(e, subsector) ==
    /\ Editing /\ entity[e] = None
    /\ entity' = [entity EXCEPT ![e] =
            [origin |-> "operator", active |-> TRUE, ids |-> NoIds,
             parent_id |-> None, subsector |-> subsector]]
    /\ Record(Row("entity", e, "__add__", None, NameOf[e]))
    /\ UNCHANGED <<alias, collision, rel>> /\ Untouched

UpdateEntity(e, field, value) ==
    /\ Editing /\ entity[e] # None /\ entity[e][field] # value
    /\ entity' = [entity EXCEPT ![e][field] = value]
    /\ Record(Row("entity", e, field, entity[e][field], value))
    /\ UNCHANGED <<alias, collision, rel>> /\ Untouched

SetEntityActive(e, active) ==
    /\ Editing /\ entity[e] # None /\ entity[e].active # active
    /\ entity' = [entity EXCEPT ![e].active = active]
    /\ Record(Row("entity", e, "active", entity[e].active, active))
    /\ UNCHANGED <<alias, collision, rel>> /\ Untouched

AddAlias(e, t) ==
    /\ Editing /\ entity[e] # None /\ <<e, t>> \notin DOMAIN alias
    /\ alias' = WithRow(alias, <<e, t>>, OPERATOR_SOURCE)
    /\ Record(Row("alias", e, t, None, t))
    /\ UNCHANGED <<entity, collision, rel>> /\ Untouched

RemoveAlias(e, t) ==
    /\ Editing /\ <<e, t>> \in WrittenBy(alias, OPERATOR_SOURCE)
    /\ alias' = Without(alias, {<<e, t>>})
    /\ Record(Row("alias", e, t, t, None))
    /\ UNCHANGED <<entity, collision, rel>> /\ Untouched

AddCollisionTerm(e, t) ==
    /\ Editing /\ entity[e] # None /\ <<e, t>> \notin DOMAIN collision
    /\ collision' = WithRow(collision, <<e, t>>, OPERATOR_SOURCE)
    /\ Record(Row("collision", e, t, None, t))
    /\ UNCHANGED <<entity, alias, rel>> /\ Untouched

RemoveCollisionTerm(e, t) ==
    /\ Editing /\ <<e, t>> \in WrittenBy(collision, OPERATOR_SOURCE)
    /\ collision' = Without(collision, {<<e, t>>})
    /\ Record(Row("collision", e, t, t, None))
    /\ UNCHANGED <<entity, alias, rel>> /\ Untouched

(* reset_entity_to_seed: the curated columns from the file on disk.         *)
ResetEntity(e) ==
    /\ Editing /\ entity[e] # None /\ entity[e].origin = "seed" /\ e \in files.rows
    /\ entity' = [entity EXCEPT ![e].active = TRUE, ![e].parent_id = files.parent_id[e],
                                ![e].subsector = files.subsector[e]]
    /\ alias' = Without(alias, OfEntity(alias, e) \cap WrittenBy(alias, OPERATOR_SOURCE))
    /\ collision' = Without(collision, OfEntity(collision, e)
                                         \cap WrittenBy(collision, OPERATOR_SOURCE))
    /\ Record(Row("entity", e, "__reset__", None, "seed values"))
    /\ UNCHANGED <<rel>> /\ Untouched

(* Wrong on purpose: the relationships are forgotten.                       *)
ReferencedByRows(e) == \E r \in refs : r[2] = e

(* entity_reference_breakdown: parent_id hints are not among them.          *)
Referenced(e) ==
    \/ \E r \in refs : r[2] = e
    \/ \E p \in rel : e \in {p[1], p[2]}

RemoveEntity(e) ==
    /\ Editing /\ entity[e] # None /\ entity[e].origin = "operator"
    /\ ~Referenced(e)
    /\ entity' = [entity EXCEPT ![e] = None]
    /\ alias' = Without(alias, OfEntity(alias, e))
    /\ collision' = Without(collision, OfEntity(collision, e))
    /\ Record(Row("entity", e, "__remove__", NameOf[e], None))
    /\ UNCHANGED <<rel>> /\ Untouched

-----------------------------------------------------------------------------
(* The seed load: one transaction, without the lock.  An upsert refreshes   *)
(* the identifiers of a row it knows and leaves the curated and the runtime *)
(* columns; the generated identifiers then fill the empty cells, those that *)
(* two entities share excepted.                                             *)
Shared(k) == {v \in {generated.ids[e][k] : e \in Entities} \ {None} :
                 Cardinality({e \in Entities : generated.ids[e][k] = v}) > 1}

Filled(e, ids) ==
    [k \in Kinds |->
        IF ids[k] = None /\ generated.ids[e][k] \notin Shared(k)
        THEN generated.ids[e][k] ELSE ids[k]]

(* Wrong on purpose: an upsert of every column of the file.                 *)
UpsertedWhole(e) ==
    [origin |-> IF entity[e] = None THEN "seed" ELSE entity[e].origin,
     active |-> entity[e] = None \/ entity[e].active, ids |-> files.ids[e],
     parent_id |-> files.parent_id[e], subsector |-> files.subsector[e]]

Upserted(e) ==
    IF entity[e] = None
    THEN [origin |-> "seed", active |-> TRUE, ids |-> files.ids[e],
          parent_id |-> files.parent_id[e], subsector |-> files.subsector[e]]
    ELSE [entity[e] EXCEPT !.ids = files.ids[e]]

LoadedEntity(e) ==
    LET row == IF e \in files.rows THEN Upserted(e) ELSE entity[e]
    IN  IF row = None THEN None ELSE [row EXCEPT !.ids = Filled(e, row.ids)]

(* The rows of the table's own file take over the pair; those the watchlist *)
(* file splits off are replaced and yield to any other.                     *)
LoadedRows(rows, own, split) ==
    LET curated == {p \in own : p[1] \in files.rows}
        kept    == DOMAIN rows \ WrittenBy(rows, "watchlist")
    IN  [p \in kept \cup curated \cup split |->
            IF p \in curated THEN "curated"
            ELSE IF p \in kept THEN rows[p] ELSE "watchlist"]

LoadSeeds ==
    /\ entity' = [e \in Entities |-> LoadedEntity(e)]
    /\ alias' = LoadedRows(alias, files.alias, files.splitAlias)
    /\ collision' = LoadedRows(collision, files.collision, files.splitCollision)
    /\ rel' = {p \in generated.rel : p[1] \in files.rows /\ p[2] \in files.rows}
    /\ UNCHANGED <<audit, refs, run, disk, events>>

(* A build brings its hand-written files; the generated ones are committed. *)
Deploy ==
    /\ build < Len(Builds) /\ build' = build + 1
    /\ UNCHANGED <<config, audit, refs, run, generated, events>>

-----------------------------------------------------------------------------
(* enrich_entities.run: a CIK is looked up by name for the entities that    *)
(* have none (an index that cannot be had is an empty one); then an LEI by  *)
(* CIK, or by name for those that still have none.  The files hold what     *)
(* this run found and are written over.                                     *)
PositiveTerms(e) == {NameOf[e]} \cup {p[2] : p \in OfEntity(alias, e)}

FoundCik(e, edgar) ==
    LET hits == UNION {edgar[t] : t \in PositiveTerms(e)}
    IN  IF entity[e].ids["cik"] = None /\ Cardinality(hits) = 1
        THEN CHOOSE c \in hits : TRUE ELSE None

FoundLei(e, edgar) ==
    LET cik == IF entity[e].ids["cik"] # None THEN entity[e].ids["cik"] ELSE FoundCik(e, edgar)
        byCik == IF cik = None THEN None ELSE WikidataLei[cik]
        byName == {Gleif[t] : t \in PositiveTerms(e)} \ {None}
    IN  IF byCik # None THEN byCik
        ELSE IF entity[e].ids["lei"] = None /\ byName # {}
        THEN CHOOSE l \in byName : TRUE ELSE None

(* lei_to_eid: an LEI stands for one entity, the last this run found it for *)
(* or else the first that has it stored.                                    *)
Bearer(l, ids) ==
    LET found  == {e \in Existing : ids[e]["lei"] = l}
        stored == {e \in Existing : entity[e].ids["lei"] = l}
    IN  IF found # {} THEN Largest(found) ELSE Smallest(stored)

ChildrenFound(ids) ==
    LET leis == UNION {{ids[e]["lei"], entity[e].ids["lei"]} : e \in Existing} \ {None}
    IN  {p \in Existing \X Existing :
            /\ p[1] # p[2]
            /\ \E l \in leis : /\ GleifParent[l] \in leis
                              /\ p = <<Bearer(GleifParent[l], ids), Bearer(l, ids)>>}

Enrich(edgar) ==
    /\ LET ids == [e \in Entities |->
                    IF entity[e] = None THEN NoIds
                    ELSE [NoIds EXCEPT !["cik"] = FoundCik(e, edgar), !["lei"] = FoundLei(e, edgar)]]
       IN  generated' = [ids |-> ids, rel |-> ChildrenFound(ids)]
    /\ UNCHANGED <<config, audit, refs, run, build, events>>

-----------------------------------------------------------------------------
(* A classification run under the lock, and one event of it.                *)
Ids == [e \in Existing |-> entity[e].ids]
Loaded == Index(Live, Ids, DOMAIN alias, DOMAIN collision)

StartRun ==
    /\ run = NoRun /\ events < MaxEvents
    /\ run' = Loaded
    /\ UNCHANGED <<config, audit, refs, disk, events>>

Top(e) == TopLevel(e, Live, rel, [f \in Existing |-> entity[f].parent_id])

(* A card, and a decision for what the resolver matched; review rows for    *)
(* its candidates; nothing otherwise.                                       *)
ClassifyName(q) ==
    /\ run # NoRun /\ events < MaxEvents
    /\ LET r == Resolve(run, q)
       IN  refs' = refs \cup
             CASE r.status = "matched" -> {<<"decision", r.entity>>, <<"card", Top(r.entity)>>}
               [] r.status = "review"  -> {<<"review", e>> : e \in r.candidates}
               [] OTHER -> {}
    /\ events' = events + 1
    /\ UNCHANGED <<config, audit, run, disk>>

(* A candidate whose source knows the entity: it must be live.              *)
ClassifyKnown(e) ==
    /\ run # NoRun /\ events < MaxEvents
    /\ refs' = refs \cup (IF e \in Live THEN {<<"card", Top(e)>>} ELSE {})
    /\ events' = events + 1
    /\ UNCHANGED <<config, audit, run, disk>>

EndRun ==
    /\ run # NoRun /\ run' = NoRun
    /\ UNCHANGED <<config, audit, refs, disk, events>>

-----------------------------------------------------------------------------
NothingGenerated == [ids |-> [e \in Entities |-> NoIds], rel |-> {}]

(* The store after the first seed load.                                     *)
Init ==
    /\ build = 1 /\ generated = NothingGenerated
    /\ entity = [e \in Entities |->
            IF e \in files.rows
            THEN [origin |-> "seed", active |-> TRUE, ids |-> files.ids[e],
                  parent_id |-> files.parent_id[e], subsector |-> files.subsector[e]]
            ELSE None]
    /\ alias = LoadedRows(<<>>, files.alias, files.splitAlias)
    /\ collision = LoadedRows(<<>>, files.collision, files.splitCollision)
    /\ rel = {}
    /\ audit = <<>> /\ refs = {} /\ run = NoRun
    /\ events = 0

EditEntity ==
    \E e \in Entities :
        \/ \E v \in Subsectors : AddEntity(e, v) \/ UpdateEntity(e, "subsector", v)
        \/ \E p \in Hints : UpdateEntity(e, "parent_id", p)
        \/ \E b \in BOOLEAN : SetEntityActive(e, b)
        \/ ResetEntity(e)
        \/ RemoveEntity(e)

EditTerms ==
    \E e \in Entities, t \in Typed :
        \/ AddAlias(e, t) \/ RemoveAlias(e, t)
        \/ AddCollisionTerm(e, t) \/ RemoveCollisionTerm(e, t)

Classify ==
    \/ StartRun \/ EndRun
    \/ \E q \in Queries : ClassifyName(q)
    \/ \E e \in Entities : ClassifyKnown(e)

Next ==
    \/ EditEntity \/ EditTerms
    \/ LoadSeeds \/ Classify
    \/ \E edgar \in Edgars : Enrich(edgar)
    \/ Deploy

Spec == Init /\ [][Next]_vars
-----------------------------------------------------------------------------
Whole == {"__add__", "__reset__", "__remove__"}
LastOf(S) == IF S = {} THEN 0 ELSE Largest(S)
RowsOf(tables, pk) == {i \in 1..Len(audit) : audit[i].table \in tables /\ audit[i].pk = pk}
LastWhole(table, pk) == LastOf({i \in RowsOf({table}, pk) : audit[i].field \in Whole})
LastEdit(tables, pk, whole, field) ==
    LastOf({i \in RowsOf(tables, pk) : i > whole /\ audit[i].field = field})

SeedValues(field, e) == {Builds[i][field][e] : i \in {j \in 1..build : e \in Builds[j].rows}}

(* The trail explains an entity's column: its last row since the entity was *)
(* added or reset, else the value it had then.  What an operator fills in   *)
(* at the add itself is in no row and excepted: `__add__` has the name only *)
(* (the docstring of add_watchlist_entity says that the trail replays it).  *)
ColumnExplained(e, field) ==
    LET whole == LastWhole("entity", e)
        i     == LastEdit({"entity"}, e, whole, field)
    IN  IF i # 0 THEN entity[e][field] = audit[i].new
        ELSE IF field = "active" THEN entity[e].active
        ELSE entity[e].origin = "seed" => entity[e][field] \in SeedValues(field, e)

TermsExplained(table, rows) ==
    \A e \in Entities, t \in Terms :
        LET i == LastEdit({table}, e, LastWhole("entity", e), t)
        IN  /\ i # 0 /\ audit[i].new = t => <<e, t>> \in DOMAIN rows
            /\ <<e, t>> \in WrittenBy(rows, OPERATOR_SOURCE) => i # 0 /\ audit[i].new = t

(* config_audit accounts for edits, resets, removals and seed loads of any  *)
(* build in between: what an operator wrote last is what the tables hold; a *)
(* seeded entity's other columns are a seed file's; the operator's entities, *)
(* aliases and terms are those a row added.  The columns given when an      *)
(* entity is added are not accounted for (_record_config_edit,              *)
(* build_upsert's update_cols, the source markers).                         *)
AuditExplains ==
    /\ \A e \in Entities :
          LET whole == LastWhole("entity", e)
          IN  /\ e \in Existing => \A field \in Fields \cup {"active"} : ColumnExplained(e, field)
              /\ (e \in Existing /\ entity[e].origin = "operator")
                    <=> (\E i \in RowsOf({"entity"}, e) : i <= whole /\ audit[i].field = "__add__"
                           /\ \A j \in RowsOf({"entity"}, e) : j > i => audit[j].field # "__remove__")
    /\ TermsExplained("alias", alias) /\ TermsExplained("collision", collision)

(* Of an entity that stays, no curated or runtime column changes, by an     *)
(* editor, a seed load or an enrichment, without a row of the trail about   *)
(* that entity in the same transaction; so neither is what an operator gave *)
(* at the add lost to a load.                                               *)
OnlyRecordedEdits ==
    [][\A e \in Existing, field \in Fields \cup {"active"} :
          entity'[e] # None /\ entity'[e][field] # entity[e][field]
             => /\ Len(audit') = Len(audit) + 1 /\ audit'[Len(audit')].pk = e
                /\ audit'[Len(audit')].field \in {field, "__reset__"}]_vars

(* No card, decision, review row or relationship is left pointing at an     *)
(* entity that was removed: the delete guard lists every table, and nothing  *)
(* lands between the guard and the delete.                                  *)
ReferencesStand ==
    /\ \A r \in refs : r[2] \in Existing
    /\ \A p \in rel : p[1] \in Existing /\ p[2] \in Existing

(* A new card goes to an account that is active at that moment and is its   *)
(* own top, though the resolver was loaded when the run began: through      *)
(* disabled parents, cycles of parent_id and relationships loaded meanwhile.*)
CardsGoToTopAccounts ==
    [][\A r \in refs' \ refs : r[1] = "card" => r[2] \in Live /\ Top(r[2]) = r[2]]_vars

(* A name is matched only when that is earned, whatever identifiers,        *)
(* aliases, collision terms and disabled entities the table holds: a bare   *)
(* collision term never is; a rival beyond the nearest spellings, which are *)
(* all the code looks at, does not count, though it be near enough.         *)
MatchesAreEarned ==
    \A q \in Queries :
        LET r == Resolve(Loaded, q)
        IN  /\ r.status = "matched" => r.entity \in Live /\ Earned(Loaded, q, r.entity)
            /\ r.status = "review"  => r.candidates \subseteq Live /\ r.candidates # {}
=============================================================================
