CONSTANTS
  None = None
  Global = Global
  Own = Own
  r1 = r1
  www = www
  other = other
  site = site
  n1 = n1
  Hosts = {www, other}
  Sites = {site}
  Names = {n1}
  Paths <- Root
  Subdomains <- Covered
  Requests = {r1}
  Urls <- ThreeUrls
  Methods <- TwoMethods
  Calls <- ThreeCalls
  Offers <- ThreeOffers
  Manual <- OneGlobal
  MaxRetries = 1
  MaxRedirects = 2
SPECIFICATION Spec
INVARIANTS
  SavedGlobalsReturn
