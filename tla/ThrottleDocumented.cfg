\* main.go: a burst of 20, 600 tokens a minute, 100 requests documented; all divided by 20.
SPECIFICATION ThrottleSpec
CONSTANTS
  Clients = {a1}
  Posters = {}
  Burst = 1
  Grain = 1
  Minute = 30
  Documented = 5
  Cooldown = 1
  MaxNow = 30
INVARIANTS DocumentedRate
CHECK_DEADLOCK FALSE
