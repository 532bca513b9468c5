SPECIFICATION Spec
CONSTANTS
  ann = ann
  bob = bob
  red = red
  blue = blue
  c1 = c1
  Users = {ann, bob}
  Workspaces = {red, blue}
  Conversations = {c1}
  None = None
  FirstRoles <- MCFirstRoles
  MaxChanges = 1
INVARIANTS
  TypeOK
  InsideNamedWorkspace
  
CHECK_DEADLOCK FALSE
