\* Command lines and configuration files of every kind.
SPECIFICATION OptionsSpec
CONSTANTS
  Option <- SomeOptions
  ArgumentLists <- SomeCommandLines
  FileSystems <- SomeFileSystems
  NoFile = NoFile
  NoImage = NoImage
  Outputs = {"DP-1", "DP-2"}
  Broken = {"missing"}
INVARIANTS SettingsAsWritten
CHECK_DEADLOCK FALSE
