SPECIFICATION Spec
CONSTANTS
  Stops = {0, 50, 51}
CHECK_DEADLOCK FALSE
INVARIANT PageLinksFollowed
PROPERTIES PreloaderGoes NavbarFollows
