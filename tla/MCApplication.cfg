CONSTANTS
  Files <- MCFiles
  KindOf <- MCKindOf
  IdOf <- MCIdOf
  Configurable = {"proto", "usb"}
  Broken = {"bad"}
  EnvDirs <- MCEnvDirs
  UserDirs = {"user"}
  DefaultDir = "home"
  AppDir = "app"
  Listing <- MCListing
  ValuesOf <- MCValuesOf
  Empty = Empty
  Unset = Unset
  MaxQueue = 4
  CurrentVersion <- MCCurrent
  Releases <- MCReleases
  NoRelease = NoRelease
SPECIFICATION ApplicationSpec
INVARIANTS
  SettingsSurvive
  PluginsFollowSettings
  AnswersMatchRequests
