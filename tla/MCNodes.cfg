SPECIFICATION Spec
CONSTANTS
  UUIDs <- MCUUIDs
  LocalHosts <- MCLocalHosts
  Addresses <- MCAddresses
  URIs <- MCURIs
  Subscriptions <- MCSubscriptions
  Posted <- MCPosted
  DefaultSettings <- MCDefault
  Outputs <- MCOutputs
  HandDocs <- MCHandDocs
INVARIANTS
  AppliedIsShown
  ShownIsRouted
  SummaryIsShown
  NodeSound
  DisplayHonest
  ListenResolved
  DocUsable
PROPERTY
  SettingsKeepNode
