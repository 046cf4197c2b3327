SPECIFICATION FairBoardSpec
CONSTANTS
  PA1 = PA1  PA2 = PA2  PA3 = PA3
  Pins = {PA1, PA2, PA3}
  NoPin = NoPin  Off = Off
  EdgeModes <- MCEdgeModes
  LevelModes <- MCLevelModes
  Edges <- MCEdges
  Fires <- MCFires
  Day = 3  MaxDay = 1  MaxTicks = 3  MaxDates = 2
  Words = 20  MHz = 2  Ns = 3  Mega = 4  MIN_PERIOD = 3  MIN_PULSE = 2
  MaxNs = 12  MaxWrites = 2
  Second = 6  MaxTimeout = 5
INVARIANTS TypeOK OneHolder OnlyWhenEnabled PwmWaveAsAsked WdtFedInTime
PROPERTIES EdgeServed NoStorm RtcReadExact RtcDateSets
CHECK_DEADLOCK FALSE
