CONSTANTS
  p1 = p1
  p2 = p2
  search = search
  up = up
  odd = odd
  power = power
  Paths = {p1, p2}
  Keys = {search, up, odd, power}
  PathOf <- MCPathOf
  Search = search
  Unknown = {odd}
  NoKey = NoKey
  Overheard = {p2}
SPECIFICATION Spec
INVARIANTS TypeOK ToldIsHeld ButtonMeansHeld
PROPERTIES ReleaseMatchesPress
