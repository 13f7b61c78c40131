SPECIFICATION FairSpec
CONSTANTS
  MaxLines = 2
  MaxFailures = 3
  Timeout = 1
  Wrap = 3
PROPERTIES
  DismissalResumes
