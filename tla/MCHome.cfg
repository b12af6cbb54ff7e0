\* Two polls may overtake each other, and any flow may be under way.
CONSTANTS
  URIs = {a, b}
  Times = {t1}
  Foreign = {w}
  NoNode = NoNode
  Polls = {p1, p2}
  Free = Free
  Sent = Sent
  Failed = Failed
  Ok = Ok
  Dash = Dash
  Unset = Unset
  None = None

SPECIFICATION FairSpec

INVARIANTS
  TypeOK
  CacheTrue
  OneAtATime
  OutcomeShown

PROPERTIES
  PanelKept
  NodeIsShown
