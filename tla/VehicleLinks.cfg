\* A USB link, a radio and a satellite link.
SPECIFICATION FairSpec
CONSTANTS
  Links = {cable, radio, sat}
  NoLink = NoLink
  cable = cable
  radio = radio
  sat = sat
  UsbDirect = {cable}
  HighLatency = {sat}
INVARIANTS PrimaryIsBest HighLatencyFollows
PROPERTIES NoNeedlessSwitch LossIsNoticed
