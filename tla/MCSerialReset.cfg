SPECIFICATION Spec

CONSTANTS
  USB_CDC_ACM_RX_FIFO_SIZE = 4
  BulkInMaxPacket = 2
  UintnSize = 256
  Reloads = FALSE
  Exclusive = FALSE
  Ops <- MCResetBelowRead
  Wanted = {1}
  MaxBytes = 4

PROPERTY DeliveredInOrder
