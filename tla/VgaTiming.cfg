CONSTANTS
  hpixels <- MC_hpixels
  vlines <- MC_vlines
SPECIFICATION TimingSpec
PROPERTIES TicksInBlanking FrameSpec
