CONSTANTS
  Modes = {"cool", "dry"}
  Speeds = {"low", "high"}
  FanModes = {"cool"}
  MaxInbox = 1
SPECIFICATION Spec
PROPERTIES
  SuccessWasConfirmed
  SettledBeforePost
  FollowsContract
