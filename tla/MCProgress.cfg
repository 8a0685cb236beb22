\* One participant and one reward, so that both transactions want the same rows;
\* one process that counts for three minutes; two downloads of up to two cards.
CONSTANTS
  Users = {u1}
  Rewards = {r1}
  Redemptions = {d1, d2}
  Prices = {1}
  Stocks = {1}
  Gains = {1}
  MaxPoints = 2
  Tx = {t1, t2}
  None = None
  NoReward = NoReward
  NoRedemption = NoRedemption
  Processes = {p1}
  HttpStatuses = {s401, s403}
  MaxMinute = 2
  MaxEvents = 1
  Retention = 1
  MetricsWindow = 2
  Threshold = 2
  Capacity <- Slots
  Downloads = {q1, q2}
  MaxCards = 2
  Leaves <- Anywhere
  MaxArtifactFaults = 2
SPECIFICATION MCSpec
PROPERTIES EveryTransactionEnds PastMinutesReachTheTable HeardDownloadsEnd
