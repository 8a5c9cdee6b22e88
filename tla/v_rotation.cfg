SPECIFICATION Spec
CONSTANTS
  Triggers = {}
  Creators = {c1}
  Domains = {d1}
  Domain0 = d1
  NoDomain = NoDomain
  BrokerKind = "emqx"
  MaxSerial = 12
  MaxEvents = 0
PROPERTY RotationHasReason
