SPECIFICATION Spec
CONSTANTS
  Triggers = {"trigger"}
  Creators = {c1}
  Domains = {d1, d2}
  Domain0 = d1
  NoDomain = NoDomain
  BrokerKind = "emqx"
  MaxSerial = 12
  MaxEvents = 1
INVARIANTS TrustTypeOK TornHasWriter PairIntact BrokerReloaded
PROPERTY ServerConverges
