CONSTANTS
  Texts <- ShownTexts
  Length <- ShownLength
  WholeOf <- ShownNumber
  ShareOf <- ShownNumber
  NaN = NaN
  AddressRoom = 15
  MaxChunks = 2
SPECIFICATION ConfigSpec
INVARIANT ModeAsShown
\* the loaded configuration is the end
CHECK_DEADLOCK FALSE
