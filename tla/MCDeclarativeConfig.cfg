\* Every combination of layers over the chart, with flags that the command does
\* not have, and files that must be refused.
SPECIFICATION Spec
CONSTANTS
  chart = chart
  airgapped = airgapped
  output = output
  labels = labels
  passphrase = passphrase
  misspelt = misspelt
  install = install
  join = join
  encrypt = encrypt
  typo = typo
  blank = blank
  p1 = p1
  p2 = p2
  p3 = p3
  a = a
  b = b
  yes = yes
  no = no
  one = one
  json = json
  cost = cost
  rounded = rounded
  NoValue = no_value
  Keys = {chart, airgapped, output, labels, passphrase, misspelt}
  Sensitive = {passphrase}
  Catalog <- AllCatalog
  Blank = blank
  Texts = {a, b, yes, no, one, json, rounded}
  Bools <- AllBools
  Printed <- AllPrinted
  Command = install
  Profiles = {p1, p2, p3}
  Files <- AllFiles
  Typed <- AllTyped
  OutputFlag = output
  JSONTexts = {json}
INVARIANTS
  EffectiveByPrecedence
  SummaryIsTruthful
  OverridesAreComplete
  VerdictIsJust
CHECK_DEADLOCK FALSE
