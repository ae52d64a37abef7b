SPECIFICATION MCSpec
CONSTANTS
  s = s
  r = r
  i1 = i1
  Chars = {s, r}
  Items = {i1}
  FirstOwner <- MCFirstOwner
  Purse = 3
  CostForOneMail = 1
  MaxExpirations = 2
  Prices = {2}
  MaxMails = 2
  MaxPackets = 3
  MaxFaults = 1
  None = None
  Nothing = Nothing
  MaxGuildFaults = 1
  f1 = f1
  o1 = o1
  m1 = m1
  f2 = f2
  g1 = g1
  g2 = g2
  GuildChars = {f1, o1, m1, f2}
  Guilds = {g1, g2}
  Founder <- MCFounder
  FirstMember <- MCFirstMember
  FirstInvite <- MCFirstInvite
  FirstRights <- MCFirstRights
  RightsChoices <- MCRightsChoices
  GuildRankMax = 4
  MaxCalls = 3
CHECK_DEADLOCK FALSE
INVARIANTS NoMoneyFromNothing ItemsAreUnique MembersAgree GuildKeepsMaster RanksAreExact
 
