SPECIFICATION Spec
INVARIANT TypeOK ChargesNeverOverCounted IssuedExact OrderCreatedExact EveryRequestSampled
PROPERTY PointLedger SpikeLedger
