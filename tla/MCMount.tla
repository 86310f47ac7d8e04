------------------------------ MODULE MCMount ------------------------------
(***************************************************************************)
(* mount and umount as they read and write a device, word by word, and as  *)
(* the process goes on from one device to the next.  The two models share  *)
(* no state: a behaviour takes the steps of one and leaves the other at    *)
(* its start.                                                              *)
(***************************************************************************)
EXTENDS MCLayout, Shell

\* A volume of each type, a device of zeros, an empty file and no device.
MCDevices == {"a", "b", "z", "e", "m"}
MCHolds   == [a |-> "volume", b |-> "volume", z |-> "zeros", e |-> "nothing", m |-> "missing"]
MCBits    == [a |-> 16, b |-> 32]
MCLabel   == [a |-> "A", b |-> "B"]

\* The theorems about mount and umount are about such volumes.
ASSUME BootsAreAsAsked == RegularVolumes

VARIABLE part   \* the module whose steps are taken

MCInit == /\ part \in {"places", "process"} /\ Init /\ ShellInit
          /\ part = "process" => boot = CHOOSE b \in Boots : TRUE
MCNext == \/ part = "places" /\ Next /\ UNCHANGED <<part, shellVars>>
          \/ part = "process" /\ ShellNext /\ UNCHANGED <<part, vars>>
MCSpec == MCInit /\ [][MCNext]_<<part, vars, shellVars>>
=============================================================================
