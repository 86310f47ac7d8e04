SPECIFICATION MCSpec
CONSTANTS
  Boots <- Common
  EntryWords = 2
  ClusterEntries = 2
  Size = 26
  Wrap = 12
  MaxFailures = 1
  Devices <- MCDevices
  Holds <- MCHolds
  Bits <- MCBits
  VolumeLabel <- MCLabel
  ReadOnly = {"b"}
  MaxFd = 3
INVARIANTS
  TypeOK
  MountReadsTheVolume
  UmountWritesTheVolume
  FailureStaysInFront
  FarStaysInData
  ShellTypeOK
  AllOfOneDevice
  ChangesReachTheDevice
  OnlyMountLeavesOpen
