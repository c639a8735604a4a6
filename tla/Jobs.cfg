SPECIFICATION JobsSpec
CONSTANTS
  g1 = g1
  g2 = g2
  k1 = k1
  k2 = k2
  k3 = k3
  a1 = a1
  a2 = a2
  lan = lan
  oldVlan = oldVlan
  host = host
  gonehost = gonehost
  gonenet = gonenet
  box = box
  app = app
  haproxy = haproxy
  dead = dead
  router1 = router1
  peer = peer
  n1 = n1
  n2 = n2
  n3 = n3
  n4 = n4
  Albums = {g1, g2}
  Combined = combined
  Keys = {k1, k2, k3}
  Assets = {a1, a2}
  KeysOf <- MCKeysOf
  Bytes <- MCBytes
  ByHand = {a2}
  None = none
  NotOurs = notOurs
  MaxChanges = 3
  MaxFaults = 2
  Configs = {0, 1, 2}
  Cut = {2}
  FirstConfig = 0
  MaxApplies = 3
  MaxPowerCuts = 1
  vpn = vpn
  mgmt = mgmt
  wsl = wsl
  out = out
  cont = cont
  goneZone = goneZone
  ctl = ctl
  nvr = nvr
  cams = cams
  Containers = cont
  Successor = wsl
  Outside = out
  Native = native
  Admin = vpn
  RetiredZones = {goneZone}
  Vlans = {mgmt, wsl, out, goneZone}
  Dhcp = {wsl}
  Bindable <- MCBindable
  SourcePairs <- MCSourcePairs
  Controller = ctl
  RetiredGroups = {nvr}
  OtherGroups = {cams}
  NewLists = {ctl}
  PortsOf <- MCPortsOf
  PortGroups = {"ctl", "web"}
  ControllerPorts = {"ctl"}
  DnsSpecs = {"dns"}
  DnsSpec = "dns"
  MaxPorts = 2
  ExtraRules <- MCExtraRules
  Ntp = 5
  Management = 6
  WireGuard = 7
  VyosRules <- MCVyosRules
  MaxRules = 1
  MaxRulesets = 2
  NoGroup = noGroup
  NoPorts = noPorts
  VlanZones = {lan, oldVlan}
  GoneZones = {oldVlan}
  VpnPeers = {peer}
  Rekeyed = {peer}
  Names = {n1, n2, n3, n4}
  Addresses = {host, gonehost, gonenet, box, app, haproxy, dead}
  NetOf <- MCNetOf
  Retarget <- MCRetarget
  Resolvers = {box}
  DropNames = {n4}
  ExtraRecords <- MCExtra
  DeadHops = {dead}
  RetiredHosts = {gonehost}
  ExtraLeases <- MCExtraLeases
  Mappings <- MCMappings
  BindLines <- MCBind
  NatLines <- MCNat
  RouteLines <- MCRoutes
  MaxLines = 3
  NoAddress = noAddress
  Router = router
  Workloads = {"w1", "w2"}
  Paths = {"mqtt"}
  ServiceProbe = "web"
  Clusters = {"c1", "c2"}
  Nodes = {"v1", "v2"}
  Pvcs = {"pvc"}
  Databases = {"db"}
  Sites = {"t1", "t2"}
  Preferred = "t1"
  MaxReplicas = 2
  FreshFor = 1
  Lookback = 2
  MaxSiteChanges = 1
  Missing = missing
  NoSample = noSample
  Task = task
  Operator = operator
  MaxVolumeFaults = 3
  KeysFile <- MCFile
  Refused = {"bad"}
  KeySpecs = {"m1", "m2"}
  MaxKeyFaults = 2
  MaxKeyEdits = 1
  NoKey = noKey
INVARIANTS JobsTypeOK BootsReachable ForwardsAlike AnswersInside KeepsWhatIsLeft ShownWasSo
PROPERTIES MirrorKeepsListed OthersUntouched VolumeKeepsData ImmichConverges RouterComesBack VolumeReturns KeysReturn
