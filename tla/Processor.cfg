SPECIFICATION Spec
CONSTANTS
  XLEN = 16
  PAGE_SIZE_BYTES = 512
  RAM_SIZE = 2048
  Tasks = {1, 3}
  SLACK_MONITOR_WINDOW = 120
  Kernel <- MCKernel
  Programs <- MCPrograms
  Listings <- MCListings
  Setups <- MCSetups
PROPERTY EachTaskRunsAlone
PROPERTY InterruptsAreTaken
PROPERTY StaysInItsPage
