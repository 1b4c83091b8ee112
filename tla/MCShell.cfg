SPECIFICATION Spec
CONSTANTS
  one = one  many = many  cat = cat  none = none
  Words = {one, many, cat, none, "exit"}
  Scripts <- SomeScripts
  Filters = {cat}
  Writes <- SomeWrites
  Missing = {none, "exit"}
  Unwritable = {one}
  Capacity = 2
  Breaks = {TRUE, FALSE}
  MaxProcs = 6
INVARIANTS TypeOK RunsWhatWasTyped Plumbed ForegroundDone
PROPERTIES ShellComesBack ProcessesEnd
CHECK_DEADLOCK FALSE
