SPECIFICATION TradeSpec
CONSTANTS
  Worker = {w1, w2}
  Invoice = {"twice", "once"}
  Bill <- MCBill
  Cites <- MCCites
  PoNumber = {"po1", "po2"}
  NoPo = NoPo
  NoInvoice = NoInvoice
  NoWorker = NoWorker
  Payload <- MCPayload
  Delivered <- MCDelivered
  Feed <- MCFeed
  Tolerances <- MCTolerances
  Fine = 10
  Movement <- MCMovement
  Unit <- MCUnit
  MaxMoves = 5
  MaxOps = 3
  MaxFaults = 1
SYMMETRY Workers
CHECK_DEADLOCK FALSE
INVARIANT Cleared
INVARIANT BilledWithinReceipt
INVARIANT SyncAccounts
INVARIANT NetIsOnHand
