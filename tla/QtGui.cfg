CONSTANTS
  URLs <- MCURLs
  Received <- MCReceived
  Totals <- MCTotals
  MaxEntries <- MCMaxEntries
  MaxClicks <- MCMaxClicks
  MaxInstalls <- MCMaxInstalls
  PlatformIds <- MCPlatformIds
  Files <- MCFiles
  FileImage <- MCFileImage
  Icons <- MCIcons
SPECIFICATION Spec
INVARIANT ProgressInRange
INVARIANT ColorizedExact
