SPECIFICATION ServicesSpec
CONSTANTS
  s1 = s1
  s2 = s2
  Servers = {s1, s2}
  Corals = {1, 2}
  Selected <- MCSelected
  MaxErrors = 2
  CoralFaults = {"hang", "loadHang", "error", "unplug", "address", "stop"}
  MaxMishaps = 2
  NoCoral = noCoral
  Gone = gone
  e1 = e1
  e2 = e2
  e3 = e3
  wide = wide
  narrow = narrow
  Exporters = {e1, e2, e3}
  Domain <- MCDomain
  TemplateId <- MCTemplateId
  Layouts <- MCLayouts
  FirstLayout <- MCFirstLayout
  Garbled <- MCGarbled
  Lan = {11, 12}
  Sets <- MCSets
  Sampled <- MCSampled
  Fixed <- MCFixed
  Watched <- MCWatched
  Ttl = 2
  Gap = 1
  MaxFlowFaults = 1
  MaxPassing = 1
  NoAddress = noAddress
  Unscraped = unscraped
  Scraped = scraped
  Absent = absent
  Dumps <- MCDumps
  Ips = {1, 3, 4}
  MaxRecords = 2
  MaxAsnFaults = 2
  NoFile = noFile
  Truncated = truncated
  Threads = {1, 2}
  Photos = {1, 2}
  FirstAlbum = {1, 2}
  PageSize = 1
  Bytes <- MCBytes
  MaxBytes = 2
  MaxEdits = 1
  MaxOutages = 1
  Nobody = nobody
  NoPhoto = noPhoto
  Displays = {1, 2}
  Days = 2
  Sources <- MCSources
  MaxInfoFaults = 1
  NoDisplay = noDisplay
  Scrapes = {1, 2}
  Apps = {1, 2}
  Here = here
  There = there
  NoSite = noSite
  Window = 1
  MaxMoves = 1
  MaxApiFaults = 1
  NoScrape = noScrape
  NoLease = noLease
INVARIANTS ServicesTypeOK RightCoral SwapTearsOneLookup CacheCounts ListedIsKnown ProbesWhatItShows
PROPERTIES ExpiryLosesNothing MetMeansLooked CoralNeverBlind FlowKeepsCounting FlowLayoutsSettle AsnTableReturns PhotosConverge OverlayRecovers
