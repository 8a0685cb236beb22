\* Two participants or administrators sign in one after the other on one tab.
CONSTANTS
  Users = {u1, u2}
  Typed = {"login", "lojinha", "participantes/id"}
  MaxSignIns = 2
  Missing = Missing
SPECIFICATION ScreensSpec
INVARIANT RankingIsMine
