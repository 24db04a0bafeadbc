---------------------------- MODULE MCGenerators ----------------------------
EXTENDS Generators

SmallRoots == {<<Folder("a")>>, <<TextFile("a")>>}
Default == << [prefix |-> "/proc", base |-> "uptime"],
              [prefix |-> "/proc", base |-> "stat"] >>
Outside == << [prefix |-> "/etc", base |-> "hosts"] >>
SmallHostFiles == {Default, Outside}
=============================================================================
