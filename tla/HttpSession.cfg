CONSTANTS
  post1 = post1
  log1 = log1
  read1 = read1
  t1 = t1
  t2 = t2
  Calls = {post1, read1}
  Reads = {read1}
  LogPosts = {}
  Tabs = {t1, t2}
  TabOf <- TwoTabs
  NoToken = NoToken
  MaxExpired = 2
  MaxLogins = 2
SPECIFICATION RefreshableSpec
INVARIANTS
  NoNeedlessLogin
  CookiesFit
PROPERTIES
  ImplementsApi
CHECK_DEADLOCK FALSE
