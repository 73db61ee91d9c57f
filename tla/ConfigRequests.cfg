SPECIFICATION FairSpec
CONSTANTS
  Zabbixes = {z1, z2}
  Rounds = {1, 2}
  MaxVersion = 2
  BadVersions = {1}
INVARIANTS AnswersMatchServers NothingLeaks
PROPERTIES NeverOlder AllOrNothing UpdatesEnd
