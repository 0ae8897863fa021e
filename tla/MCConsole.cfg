\* A reader and keys, or two writers and keys: five bytes in all.
SPECIFICATION MCSpec
CONSTANTS
  Readers = {"p"}
  Writers = {"u", "v"}
  Say <- MCSay
  Letters = {"a"}
  Sizes = {2}
  INPUT_BUF_SIZE = 2
  UINT = 4
  UART_TX_BUF_SIZE = 1
  RxMax = 1
  TxMax = 2
  MaxBytes = 5
INVARIANTS
  TextExact
  OutputExact
PROPERTIES
  ConsoleMoves
CHECK_DEADLOCK FALSE
