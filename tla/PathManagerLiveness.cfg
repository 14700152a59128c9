CONSTANTS
  a = a
  b = b
  c1 = c1
  i1 = i1
  i2 = i2
  i3 = i3
  Names = {a}
  Pattern = "rx"
  PrimaryName = a
  Instances = {i1, i2, i3}
  Clients = {c1}
  Configs <- MovingConfigs
  MaxReloads = 1
SPECIFICATION FairSpec
PROPERTIES PathsAnswer
