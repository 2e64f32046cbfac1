CONSTANTS
  NumHosts = 2
  Node <- NodeMC
  Owner <- OwnerMC
  Trade <- TradeMC
  Seller <- SellerMC
  Buyer <- BuyerMC
  Amount <- AmountMC
  Cancelled <- CancelledMC
  Line <- LineMC
  Content <- Lines
  HalfMax <- HalfMaxMC
  CommandLines <- CommandLinesMC
SPECIFICATION MainSpec
INVARIANTS TypeOK HandedOver CancelExact SoldCopiesAgree BoughtCopiesBelow
