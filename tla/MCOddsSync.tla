----------------------------- MODULE MCOddsSync -----------------------------
\* Small instances of OddsSync: two stages of one tournament share an HLTV page;
\* the page has the teams of the first event in the other order and by other names.
EXTENDS OddsSync, TLC

CONSTANTS group, playoffs, e1, e2, cup

MCTournamentOf == e1 :> group @@ e2 :> playoffs
MCPageOf       == 1 :> cup @@ 2 :> cup
MCLikeNamed    == {group, playoffs} \X {cup}
MCTeamA        == e1 :> "Natus Vincere" @@ e2 :> "Spirit"
MCTeamB        == e1 :> "FaZe Clan" @@ e2 :> "Vitality"
MCTeam1        == 1 :> "FaZe" @@ 2 :> "Spirit"
MCTeam2        == 1 :> "NAVI" @@ 2 :> "Vitality"
Names          == {"Natus Vincere", "FaZe Clan", "Spirit", "Vitality", "FaZe", "NAVI"}
MCAlike        == {<<n, n>> : n \in Names} \cup {<<"NAVI", "Natus Vincere">>, <<"FaZe", "FaZe Clan">>}
MCClose        == {<<e1, 1>>, <<e2, 2>>}
=============================================================================
