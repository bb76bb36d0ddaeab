SPECIFICATION Spec
CONSTANTS
  Clients = {a1}
  Posters = {u1}
  Burst = 2
  Grain = 2
  Minute = 4
  Documented = 5
  Cooldown = 2
  MaxNow = 6
  Handlers = {h1, h2, h3}
  Reporters = {r1, r2, r3, r4}
  HideAt = 3
  MaxErrors = 1
  Names = {n1, n2}
  Emails = {e1, e2}
  Nobody = nobody
  Lifetime = 1
  MaxClock = 2
  Others = {o1}
  Emojis = {heart}
  MaxTaps = 3
  Day = 1
  DefaultPage = 1
  MaxPage = 2
  Asked = {0, 2, 9}
  Usernames = {1, 2}
  MaxPosts = 3
  MaxHour = 2
  Sockets = {k1, k2, k3}
  Grace = 2
  Conns = {c1, c2}
  Screens = {s1, s2}
  Events = {ev1}
  MaxMoves = 1
INVARIANTS TypeOK WindowBound RefusalsDeserved SpacedPosts HiddenIffReported
  SessionAgrees PopupAgrees PagesMissOnlyRemoved ShutdownIsGraceful
  NeverStranded ConnectionsAddUp LoadingSettles
SYMMETRY Symmetry
CHECK_DEADLOCK FALSE
