CONSTANTS
  Texts <- ValueTexts
  Length <- ValueLengths
  WholeOf <- WholeNumbers
  ShareOf <- Shares
  NaN = NaN
  AddressRoom = 15
  MaxChunks = 3
  MaxEntries = 2
  MaxArrivals = 3
  MaxTransfers = 3
  Byte <- TwoValues
  PacketSize = 3
  Modulus = 8
  QueueRoom = 1
  RttLimit = 3
  Uint32 = 32
  MaxRetransmit = 2
  MaxSends = 4
SPECIFICATION Spec
INVARIANTS ConfigTypeOK LastLineWins ChargedToPresentClient
  DamageFound AverageBetween LossAccounted
PROPERTIES ReportIsOfPresent TcpServed
\* the counted clients, bytes and packets come to an end
CHECK_DEADLOCK FALSE
