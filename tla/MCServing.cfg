CONSTANTS
  Producers = {"ffmpeg1", "ffmpeg2"}
  Consumers = {"c1"}
  NoProducer = NoProducer
  Offer <- MCOffer
  MaxAdds = 2
  Served = {"rtsp", "raw", "rtmp", "pull", "frame", "mp4", "hls"}
SPECIFICATION FairSpec
INVARIANTS
  TypeOK
  FinishedClean
  ServedIsListed
  SingleSource
PROPERTIES
  StreamSpec
  SubscriptionSpec
  WatchedDeparture
  UnwatchedDeparture
CHECK_DEADLOCK FALSE
