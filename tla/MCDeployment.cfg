SPECIFICATION DepSpec
CONSTANTS
  MAX_REFRESH_TOKEN_TTL_SECS = 10
  MAX_TAG_LEN = 3
  MAX_LANGUAGE_TAGS = 2
  Deployments <- MCDeployments
  Watched <- MCWatched
  Flows <- MCFlows
  Headers <- MCHeaders
  Hosts = {"h1", "h2", "h3"}
  Proxies = {"p", "x"}
  Trusted = {"p"}
  Network <- MCNetwork
  Buckets = {"small", "large"}
  Burst = 1
  Bodies <- MCBodies
  NoOne = "no one"
  Segments <- MCSegments
  Forgeries <- MCForgeries
INVARIANT KeyedOnWhoSent
INVARIANT ProxyInv
INVARIANT EdgeInv
INVARIANT PagesInv
INVARIANT ServingIsSound
INVARIANT NoneOutlivesTheLauncher
PROPERTY OneDownAllDown
CHECK_DEADLOCK FALSE
