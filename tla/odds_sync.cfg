SPECIFICATION FairSpec
CONSTANTS
  group = group  playoffs = playoffs  e1 = e1  e2 = e2  cup = cup  None = None
  Tournaments = {group, playoffs}
  Events = {e1, e2}
  HltvEvents = {cup}
  Matches = {1, 2}
  TournamentOf <- MCTournamentOf
  PageOf <- MCPageOf
  LikeNamed <- MCLikeNamed
  TeamA <- MCTeamA
  TeamB <- MCTeamB
  Team1 <- MCTeam1
  Team2 <- MCTeam2
  Alike <- MCAlike
  Same <- MCAlike
  Close <- MCClose
  Prices = {1, 2}
  MaxChanges = 2
INVARIANTS OddsOnTheirSide QueueStaysShort
PROPERTY OddsFollow
CHECK_DEADLOCK FALSE
