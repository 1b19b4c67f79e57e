CONSTANTS
  Producers = {"ffmpeg1", "ffmpeg2"}
  Consumers = {"c1", "c2"}
  NoProducer = NoProducer
  Offer <- MCOffer
  MaxAdds = 2
SPECIFICATION StreamSpec
INVARIANTS
  StreamTypeOK
  ReceiversCurrent
  NoOrphanSender
PROPERTY AttachStep
