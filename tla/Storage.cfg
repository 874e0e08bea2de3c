\* The user page and two command lines, two names, four commands.
CONSTANTS
  Page = Page
  cli1 = cli1
  cli2 = cli2
  alice = alice
  bob = bob
  CLIs = {cli1, cli2}
  Names = {alice, bob}
  MaxCommands = 4
SPECIFICATION StorageSpec
SYMMETRY Symmetry
INVARIANTS StorageTypeOK CarriesOut Readable
CHECK_DEADLOCK FALSE
