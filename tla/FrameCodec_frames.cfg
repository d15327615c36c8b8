CONSTANTS
  NUM_CHANNELS = 2
  NUM_LEDS = 2
  MaxChannels = 2
  Base = 2
  ByteSize = 4
  Gamma <- MCGamma
  Drivers <- MCDrivers
  Images <- MCImages
  Counts = {0, 1, 2, 4, 5, 9}
SPECIFICATION Spec
INVARIANTS TypeOK LedsShowImage NoBleed
PROPERTY NoForeignPixels
