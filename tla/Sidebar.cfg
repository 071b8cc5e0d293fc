CONSTANTS
    Screens <- MCScreens
    Listings <- MCListings
    Patterns = {2}
    NewName = 9
    Abilities = {"create", "delete", "purge", "purge-subscription"}
    MaxProcs = 1
    MaxLoads = 1
    Height = 9
    MaxTimers = 2
    MaxCommands = 3
    MaxBackoff = 2
SPECIFICATION MCSpec
INVARIANTS SelectionOnScreen ActsOnWhatWasShown FitsTheScreen ReconnectsOn
PROPERTY RefreshGoesOn
