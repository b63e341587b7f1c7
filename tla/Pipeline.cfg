SPECIFICATION Spec
CONSTANTS
  Ips <- MCIps
  CloudflareIps <- MCCloudflareIps
  Quote <- MCQuote
  Hostname <- MCHostname
  Ipv6 <- MCIpv6
  Texts <- MCTexts
  Short <- MCShort
  Brief <- MCBrief
  Unencodable <- MCUnencodable
  DnsAnswers <- MCDnsAnswers
  NetAnswers <- MCNetAnswers
  ConnAnswers <- MCConnAnswers
  TlsAnswers <- MCTlsAnswers
  RouteAnswers <- MCRouteAnswers
  CtAnswers <- MCCtAnswers
  DnsblAnswers <- MCDnsblAnswers
  Clients <- MCClients
  Outcomes <- MCOutcomes
  ExitLookups <- MCExitLookups
  SetOrders <- MCSetOrders
  Environments <- MCEnvironments
  Hooks <- MCHooks
  Settings <- MCSettings
INVARIANTS
  TypeOK
  LinkReadsBack
  OutboundReadsBack
  ShownConfigIsTested
  NoSecretUploaded
  CdnClaimIsObserved
  TopologyAgrees
  UnverifiedIsCapped
  VerdictsAgree
  OneStrongCdn
PROPERTY Terminates
