---------------------------- MODULE MCWatchlist -----------------------------
(* Two seeded entities and one the operator adds, which the second build's  *)
(* seeds know too; "north" is a bare collision term, "grid" moves between   *)
(* the files of the two builds; "peek" is nearly "peak", more nearly        *)
(* "peeks", and near enough "grid", which two spellings looked at may hide. *)
EXTENDS Watchlist, TLC

MCEntities == 1..3
MCTerms == {"north", "south", "peak", "grid", "peek", "peeks"}
MCNameOf == <<"north", "south", "peak">>
MCRatio == [p \in MCTerms \X MCTerms |->
    CASE p[1] = p[2] -> 100
      [] {p[1], p[2]} = {"peek", "peeks"} -> 95
      [] {p[1], p[2]} = {"peek", "peak"} -> 93
      [] p = <<"peek", "grid">> -> 91
      [] p = <<"grid", "peek">> -> 90
      [] OTHER -> 0]
MCRank == [t \in MCTerms |->
    CASE t = "grid" -> 1 [] t = "north" -> 2 [] t = "peak" -> 3
      [] t = "peek" -> 4 [] t = "peeks" -> 5 [] t = "south" -> 6]

MCNoIds == [k \in Kinds |-> None]
MCIds == <<[MCNoIds EXCEPT !["cik"] = 11], MCNoIds, MCNoIds>>
First == [rows |-> {1, 2}, ids |-> MCIds,
          parent_id |-> <<None, 1, None>>, subsector |-> <<"gas", "", "">>,
          alias |-> {<<3, "peeks">>}, splitAlias |-> {<<1, "grid">>},
          collision |-> {<<1, "north">>}, splitCollision |-> {}]
Second == [First EXCEPT !.rows = {1, 2, 3}, !.alias = {<<2, "grid">>, <<3, "peeks">>},
          !.splitAlias = {}, !.subsector = <<"gas", "gas", "gas">>,
          !.splitCollision = {<<2, "grid">>}]
MCBuilds == <<First, Second>>

NoId == [k \in Kinds |-> None]
Ask(name, context) == [ids |-> NoId, name |-> name, context |-> context]
MCQueries == {Ask("north", {"grid", "north"}), Ask("grid", {"south"}),
              [Ask("peek", {}) EXCEPT !.ids["cik"] = 12]}

MCEdgars == {[t \in MCTerms |-> CASE t = "south" -> {12} [] t = "peak" -> {12, 13} [] OTHER -> {}]}
MCIdentifiers == {11, 12, 13, 21, 22, 23}
MCWikidataLei == [i \in MCIdentifiers |-> IF i = 11 THEN 21 ELSE None]
MCGleif == [t \in MCTerms |-> CASE t = "south" -> 22 [] t = "peak" -> 23 [] OTHER -> None]
MCGleifParent == (21 :> None) @@ (22 :> 21) @@ (23 :> 22)
=============================================================================
