CONSTANTS
  Call = {c1, c2}
  l1 = l1
  l2 = l2
  Lot = {l1, l2}
  PurchasedLot = {l1}
  g = g
  kg = kg
  Unit = {g, kg}
  k1 = k1
  Key = {k1}
  Payload <- MCPayload
  MaxAmount = 2
  MaxMovements = 3
  NoKey = NoKey
  NoCall = NoCall
  NoLot = NoLot
  NoUnit = NoUnit
SPECIFICATION FairSpec
INVARIANTS
  TypeOK
  ResultsChain
  EffectAtMostOnce
  TruthfulAnswers
PROPERTIES
  ImplementsAtomicLedger
  EveryCallEnds
