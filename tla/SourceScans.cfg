CONSTANTS
  s1 = s1
  s2 = s2
  s3 = s3
  o1 = o1
  o2 = o2
  dc = dc
  clu = clu
  esx = esx
  Self = self
  Root = root
  Systems = {s1, s2, s3}
  Orgs <- MCOrgs
  OrgOf <- MCOrgOf
  PerPage = 2
  Workers = 3
  AapPageSize = 1
  Inventory = {dc, clu, esx}
  Kind <- MCKind
  Parent <- MCParent
  RunsOn <- MCRunsOn
  ExtraFacts <- MCExtraFacts
  NoValue = NoValue
  Lower <- MCLower
  Reports <- MCReports
SPECIFICATION Spec
INVARIANTS
  CountersMatchRows
  CompletedIsWhole
  OneResultPerSystem
  NoSystemMissed
  HostsFactWhole
  MachinesPlaced
  MergedByIdentifiers
  LostOrDoubledOnlyByMacs
  MergeLosesNothing
  StrongestEvidenceWins
  DeploymentSettled
PROPERTIES
  FailedStaysFailed
  ScanEnds
