SPECIFICATION Spec
CONSTANTS
  MaxLedger = 6
  NetTtls = {1, 4}
  Feeds = {d1}
  Perms = {w1}
  Retention = 3
  MaxTime = 4
  MaxRounds = 4
  Chains = {c1}
  Amounts = {0, 1, 2}
  Limits <- MCLimits
  Nodes = {n1, n2}
  Receivers = {r1, r2}
  Conforming = {r1}
  Payloads = {x1}
  Versions = {v1}
  Signers = {s1, s2, s3, s4}
  Faults = {0, 1}
  MaxOracles = 31
  SiloLanes = {l1, l2, l3}
  Boxes = {b1, b2}
  NoBox = none
  Finer = {l1}
  Pow <- MCPow
  LockAmounts = {1, 3}
  ReleaseAmounts = {1, 3}
  Bps = {0, 1}
  BpsDivider = 3
  MaxHeld = 5
  DestChains = {e1, e2}
  Ccvs = {va, vb}
  CcvLists <- MCCcvLists
  OutMessages <- MCOutMessages
  PoolAnswers <- MCPoolAnswers
  Quotes <- MCQuotes
  MaxUsdCents = 9
  MaxMessages = 2
  Verifiers = {q1, q2}
  NoVerifier = nobody
  Tags = {t1, t2}
  TagOf <- MCTagOf
  Sources = {p1, p2}
  SourceOf <- MCSourceOf
  InMessages = {g1, g2}
  Addresses = {1, 2}
  Committees <- MCCommittees
  MaxSignatures = 2
  q1 = q1
  q2 = q2
  nobody = nobody
  t1 = t1
  t2 = t2
  p1 = p1
  p2 = p2
  g1 = g1
  g2 = g2
  va = va
  vb = vb
  l1 = l1
  l2 = l2
  l3 = l3
  b1 = b1
  b2 = b2
  none = none
  e1 = e1
  e2 = e2
  d1 = d1
  w1 = w1
  c1 = c1
  n1 = n1
  n2 = n2
  r1 = r1
  r2 = r2
  x1 = x1
  v1 = v1
  s1 = s1
  s2 = s2
  s3 = s3
  s4 = s4
INVARIANTS
  EffectsOnce
  ReadableSuffix
  FindRoundExact
  RateBound
  SilosCovered
  MessagesSound
  FeesKept
  OnlyCommitteeAttests
