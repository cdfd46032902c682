\* The channel stops answering while setMode waits.
CONSTANTS
  ConnectorCount = 1
  Attempts = 5
  Timeout = 200
  Interval = 20
SPECIFICATION LspconSpec
PROPERTIES
  CallsReturnAfterFailure
