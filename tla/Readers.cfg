\* One walk over a status bucket, or one follower of a player's events.
SPECIFICATION ReadersSpec
CONSTANTS
  Ann = Ann
  Bob = Bob
  Nobody = Nobody
  Games = {1, 2}
  Players = {Ann, Bob}
  Creator <- MCCreator
  Results = {"First"}
  MaxVersion = 3
  Limit = 1
INVARIANTS TypeOK StatusIsCurrent EventsAreHistory ListedAreCanonical UntouchedGamesAreListed
INVARIANTS ServedIsNotBehind StreamHasNoGap
CHECK_DEADLOCK FALSE
