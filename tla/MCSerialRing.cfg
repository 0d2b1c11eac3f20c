SPECIFICATION FairSpec

CONSTANTS
  USB_CDC_ACM_RX_FIFO_SIZE = 4
  BulkInMaxPacket = 3
  UintnSize = 256
  Reloads = FALSE
  Ops <- MCReadAndReset
  Exclusive = TRUE
  Wanted = {1, 3}
  MaxBytes = 6

PROPERTY RingIsFifo
PROPERTY PortDrains
