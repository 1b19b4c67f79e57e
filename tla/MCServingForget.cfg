CONSTANTS
  Producers = {"ffmpeg1", "ffmpeg2"}
  Consumers = {"c1"}
  NoProducer = NoProducer
  Offer <- MCOffer
  MaxAdds = 1
  Served = {"rtsp"}
SPECIFICATION FairSpec
PROPERTY ReturnedIsForgotten
CHECK_DEADLOCK FALSE
