CONSTANTS
  post1 = post1
  log1 = log1
  read1 = read1
  t1 = t1
  t2 = t2
  Calls = {post1, log1}
  Reads = {}
  LogPosts = {log1}
  Tabs = {t1}
  TabOf <- OneTab
  NoToken = NoToken
  MaxExpired = 1
  MaxLogins = 1
  None = None
  MaxParts = 2
  Addresses = {"a@x.io"}
  Nobody = Nobody
  MaxMade = 2
  MaxUserCalls = 2
  MaxPages = 2
  AllImages = {i1, i2}
  Nothing = Nothing
  MaxImageCalls = 2
SPECIFICATION ServicesSpec
INVARIANTS
  RefusedOnlyWhenDisturbed
  OutcomesHaveCauses
  UsersAgree
  CostsAgree
  ImagesInStep
PROPERTIES
  ImplementsCall
  RequestsAnswered
CHECK_DEADLOCK FALSE
