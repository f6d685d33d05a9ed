SPECIFICATION Spec
CONSTANTS
  ConnIds <- MCConnIds
  MaxInfos = 2
INVARIANT TypeOK
INVARIANT MetaOnceFromInfo
PROPERTY TerminalRejectsRun
PROPERTY SingleCallAnnounced
