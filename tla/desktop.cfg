SPECIFICATION DesktopSpec
CONSTANTS
  a = a
  b = b
  c = c
  home = home
  away = away
  r1 = r1
  r2 = r2
  r3 = r3
  r4 = r4
  NoRay = NoRay
  NoPlace = NoPlace
  NoNavigation = NoNavigation
  NoSession = NoSession
  Sessions <- MCSessions
  Rays <- MCRays
  Places <- MCPlaces
  Home = home
  PlaceOf <- MCPlaceOf
  Stored <- MCStored
  Example <- MCExample
  Titled = {a, b}
  Restore = TRUE
  Sends = 1
  Picks = 1
  Stops = 1
  Changes = 1
  Faults = 1
  Backlog = 2
INVARIANTS QuietViewIsOurs
PROPERTIES MessagesAreAnswered ComesToRest
CHECK_DEADLOCK FALSE
