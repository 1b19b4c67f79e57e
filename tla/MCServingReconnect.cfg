CONSTANTS
  Producers = {"ffmpeg1", "ffmpeg2"}
  Consumers = {"c1"}
  NoProducer = NoProducer
  Offer <- MCOffer
  MaxAdds = 1
  Served = {"raw", "pull", "mp4", "hls"}
SPECIFICATION FairSpec
PROPERTY ServedByProducer
CHECK_DEADLOCK FALSE
