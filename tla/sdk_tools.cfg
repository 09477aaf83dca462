SPECIFICATION Spec
CONSTANTS
  Walk1 = Walk1  Walk2 = Walk2  Writer1 = Writer1  Writer2 = Writer2
  Name1 = Name1  Name2 = Name2
  Caller1 = Caller1  Caller2 = Caller2  Process1 = Process1  Process2 = Process2
  Team1 = Team1  Team2 = Team2
  Walks = {Walk1, Walk2}
  MaxItem = 5
  PageSize = 2
  MaxEdits = 2
  Entries = {Name1, Name2}
  Hidden = {Name2}
  FirstDirs = {Name1}
  Named <- NamedMC
  MaxChanges = 3
  Writers = {Writer1, Writer2}
  WriterMenu <- WriterMenuMC
  Processes = {Process1, Process2}
  Callers = {Caller1, Caller2}
  Teams = {Team1, Team2}
  NoTeam = NoTeam
  Default = Team1
  TeamPages <- TeamPagesMC
  Personal = Team2
SYMMETRY ToolsSymmetry
CHECK_DEADLOCK FALSE
INVARIANTS PagesComplete ViewsAgree OneSignIn QuietAfterTimeout OneProjectMade
 
