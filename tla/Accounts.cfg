SPECIFICATION Spec
CONSTANTS
  ann = ann
  bob = bob
  ada = ada
  Ada = Ada
  eve = eve
  Persons = {ann, bob}
  Addresses = {ada, Ada, eve}
  Lower <- MCLower
  None = None
  AccessLife = 2
  RefreshLife = 3
  MaxTime = 3
INVARIANTS
  TypeOK
  OneAccountPerAddress
  
 
CHECK_DEADLOCK FALSE
