\* Two participants, one reward, two redemptions and three open transactions.
CONSTANTS
  Users = {u1, u2}
  Rewards = {r1}
  Redemptions = {d1, d2}
  Prices = {1, 2}
  Stocks = {0, 1}
  Gains = {2}
  MaxPoints = 2
  Tx = {t1, t2, t3}
  None = None
  NoReward = NoReward
  NoRedemption = NoRedemption
SYMMETRY Symmetry
SPECIFICATION Spec
INVARIANTS RedemptionsSettled NoDeadlock
PROPERTIES UnitsConserved EditsAreNotLost ImplementsAtomicShop
