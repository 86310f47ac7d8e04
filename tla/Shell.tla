------------------------------- MODULE Shell -------------------------------
(***************************************************************************)
(* The command interpreter and what a process keeps from one command to    *)
(* the next: the open device, the boot sector, tables and label read from  *)
(* it, and the changes umount has yet to write.  mount does not umount     *)
(* what is mounted; a command without its argument only prints how to use  *)
(* it; one that cannot do its work often ends the process, which writes    *)
(* nothing.                                                                *)
(*                                                                         *)
(* mount reads into global variables and looks at no result: what a read   *)
(* does not fill stays as the mount before it has left it.                 *)
(*                                                                         *)
(* A path without a name, and a number no table has, lead commands through *)
(* memory nobody filled: they may end the process or go on.                *)
(*                                                                         *)
(* Left out: what commands do to the volume (module Volume), print         *)
(* (Inspect, Tables, LongNames, Names) and make of paths (Session), what a *)
(* write through a wild pointer does to the rest of memory, volumes whose  *)
(* chains lead out of their table, FAT32 root directories of more than one *)
(* cluster, and verbs of more than nine characters.                        *)
(***************************************************************************)
EXTENDS Naturals, FiniteSets

CONSTANTS
  Devices,      \* the names a user may give for a device
  Holds,        \* what is there: a FAT16 or FAT32 "volume", "zeros",
                \* "nothing" (an empty file), or "missing"
  Bits,         \* the type of the file system, of volumes
  VolumeLabel,  \* its label
  ReadOnly,     \* the devices that cannot be opened for writing
  MaxFd         \* open fails when this many descriptors are open

Volumes == {dev \in Devices : Holds[dev] = "volume"}
Fds     == 1..MaxFd

\* What global variables hold before the first mount, and memory that has
\* been allocated and not filled.
Zeros == "zeros"
Heap  == "heap"

\* label before the first mount and after an umount
NOTHING == "NOTHING"

ASSUME ShellAssumption ==
  /\ Holds \in [Devices -> {"volume", "zeros", "nothing", "missing"}]
  /\ Bits \in [Volumes -> {16, 32}]
  /\ DOMAIN VolumeLabel = Volumes
  /\ ReadOnly \subseteq Devices
  /\ MaxFd \in Nat
  /\ {Zeros, Heap} \cap Devices = {}

Closed == [device |-> Zeros, write |-> FALSE]

VARIABLES
  proc,       \* "prompt", or "down" when there is no process
  fd, fs_fd,  \* the descriptors user.c and fs.c keep; 0 is none
  opened,     \* the descriptors the process has open
  fat_boot,   \* whose boot sector is in memory
  extended,   \* whose extended boot sector, of each type
  memory,     \* whose table and root directory
  label,
  unsaved,    \* a command has changed them
  \* history
  over,       \* the mounts of this process made over a mounted device
  lost,       \* what ended with changes unsaved, the last time
  written     \* what umount wrote last, and where

globals == <<fat_boot, extended, memory>>
shellVars == <<proc, fd, fs_fd, opened, globals, label, unsaved, over, lost, written>>

Open == {d \in Fds : opened[d] # Closed}
Free == Fds \ Open

ShellTypeOK ==
  /\ proc \in {"prompt", "down"}
  /\ fd \in {0} \cup Open /\ fs_fd \in {0} \cup Fds
  /\ opened \in [Fds -> [device : Devices \cup {Zeros}, write : BOOLEAN]]
  /\ fat_boot \in Devices \cup {Zeros}
  /\ extended \in [{16, 32} -> Devices \cup {Zeros}]
  /\ memory \in Devices \cup {Zeros, Heap}
  /\ unsaved \in BOOLEAN
  /\ over \in Nat

-----------------------------------------------------------------------------
(* The process *)

ShellInit ==
  /\ proc = "down" /\ fd = 0 /\ fs_fd = 0 /\ opened = [d \in Fds |-> Closed]
  /\ fat_boot = Zeros /\ extended = [bits \in {16, 32} |-> Zeros] /\ memory = Zeros
  /\ label = NOTHING /\ unsaved = FALSE /\ over = 0
  /\ lost = "none" /\ written = <<Zeros, Zeros>>

\* The process starts, with all the process before it had forgotten.
main ==
  /\ proc = "down" /\ proc' = "prompt"
  /\ UNCHANGED <<fd, fs_fd, opened, globals, label, unsaved, over, lost, written>>

\* The process ends; what it had in memory and its descriptors are gone.
End ==
  /\ proc' = "down" /\ fd' = 0 /\ fs_fd' = 0 /\ opened' = [d \in Fds |-> Closed]
  /\ fat_boot' = Zeros /\ extended' = [bits \in {16, 32} |-> Zeros] /\ memory' = Zeros
  /\ label' = NOTHING /\ unsaved' = FALSE /\ over' = 0

\* sdie, udie, or a wild pointer, for this reason
Die(why) ==
  /\ End
  /\ lost' = IF unsaved THEN why ELSE lost
  /\ UNCHANGED written

-----------------------------------------------------------------------------
(* mount and umount *)

CanOpen(dev, wflag) ==
  Holds[dev] # "missing" /\ (wflag => dev \notin ReadOnly) /\ Free # {}
Unused == CHOOSE d \in Free : TRUE   \* the numbers only tell descriptors apart

\* A slip: open is taken to succeed where there is something to open.
OpenUnchecked(dev, wflag) ==
  /\ Holds[dev] # "missing"
  /\ fd' = IF CanOpen(dev, wflag) THEN Unused ELSE MaxFd + 1
  /\ opened' = IF CanOpen(dev, wflag)
               THEN [opened EXCEPT ![Unused] = [device |-> dev, write |-> wflag]]
               ELSE opened

\* open, where mount goes on only when it succeeds
OpenDevice(dev, wflag) ==
  /\ CanOpen(dev, wflag)
  /\ fd' = Unused
  /\ opened' = [opened EXCEPT ![Unused] = [device |-> dev, write |-> wflag]]

\* What a read leaves in a variable that held old.
Reads(dev, old) == CASE Holds[dev] = "volume"  -> dev
                     [] Holds[dev] = "zeros"   -> Zeros
                     [] Holds[dev] = "nothing" -> old

\* init_fat with init_fat_16 or init_fat_32, as the boot sector now in memory
\* says.  A boot sector of zeros has total_sectors_16 = 0.
TypeOf(boot) == IF boot = Zeros THEN 32 ELSE Bits[boot]
init_fat(dev) ==
  /\ fat_boot' = Reads(dev, fat_boot)
  /\ extended' = [extended EXCEPT ![TypeOf(fat_boot')] = Reads(dev, extended[TypeOf(fat_boot')])]
  /\ memory' = Reads(dev, Heap)

\* A slip: the label is taken where FAT16 has it.
Label16(boot, ext) == IF ext[16] = Zeros THEN "" ELSE VolumeLabel[ext[16]]

get_label(boot, ext) ==
  IF ext[TypeOf(boot)] = Zeros THEN "" ELSE VolumeLabel[ext[TypeOf(boot)]]

change_label(new_label) == label' = new_label

mount(dev, wflag) ==
  /\ OpenDevice(dev, wflag)
  /\ init_fat(dev)
  /\ fs_fd' = fd'
  /\ fat_boot' # Zeros
  /\ change_label(get_label(fat_boot', extended'))
  /\ unsaved' = FALSE
  /\ over' = IF fd = 0 THEN over ELSE over + 1
  /\ lost' = IF unsaved THEN "mount" ELSE lost
  /\ UNCHANGED <<proc, written>>

\* The device cannot be opened; its boot sector says media_type 0; or the
\* chain of a FAT32 root directory is followed through memory nobody filled.
MountDies(dev, wflag) ==
  /\ \/ ~CanOpen(dev, wflag)
     \/ CanOpen(dev, wflag) /\ Reads(dev, fat_boot) = Zeros
     \/ /\ CanOpen(dev, wflag) /\ Holds[dev] = "nothing"
        /\ TypeOf(fat_boot) = 32
  /\ Die("mount")

\* A slip: the access mode is tested with O_RDONLY, which is 0.
WritesNever == FALSE
WritesBack == opened[fd].write

\* umount when a device is open: write_fat, close, free_fat
Release ==
  /\ written' = IF WritesBack THEN <<memory, opened[fd].device>> ELSE written
  /\ lost' = IF unsaved /\ ~WritesBack THEN "umount" ELSE lost

umount ==
  \/ fd = 0 /\ UNCHANGED shellVars
  \/ /\ fd # 0
     /\ Release
     /\ opened' = [opened EXCEPT ![fd] = Closed]
     /\ fd' = 0 /\ change_label(NOTHING) /\ unsaved' = FALSE
     /\ UNCHANGED <<proc, fs_fd, globals, over>>

quit_command ==
  /\ End
  /\ \/ fd # 0 /\ Release
     \/ fd = 0 /\ UNCHANGED <<lost, written>>

-----------------------------------------------------------------------------
(* Other commands *)

TEST_FD   == fd # 0
TEST_W_FD == opened[fd].write

\* The commands that look at the device, those that take an argument, and
\* those that follow the clusters of the entry their path names.
Looks == {"ls", "lsdel", "chain", "fat", "test_fat", "dump", "hdump", "test", "info"}
Takes == {"mount", "wmount", "cd", "chain", "dump_fat", "dump", "hdump",
          "delete", "undelete", "show", "test"}
Verbs == Looks \cup Takes \cup {"quit", "umount"}
Follows == {"ls", "lsdel", "dump", "hdump", "delete", "undelete"}

\* A slip: the file of dump_fat stays open.
DumpLeavesOpen ==
  opened' = [opened EXCEPT ![Unused] = [device |-> opened[fd].device, write |-> TRUE]]

\* The file of dump_fat takes a descriptor and gives it back.
CloseDump == UNCHANGED opened

dump_fat(creatable) ==
  \/ /\ TEST_FD /\ creatable /\ Free # {}
     /\ CloseDump
     /\ UNCHANGED <<proc, fd, fs_fd, globals, label, unsaved, over, lost, written>>
  \/ TEST_FD /\ ~(creatable /\ Free # {}) /\ Die("dump_fat")

\* delete and undelete, when they find the entry and it is in the root
\* directory or has clusters
Alter ==
  /\ TEST_FD /\ TEST_W_FD
  /\ unsaved' = TRUE
  /\ UNCHANGED <<proc, fd, fs_fd, opened, globals, label, over, lost, written>>

\* What ends a command for which the device is not open or not writable, and
\* delete when the directory its path names is not there.
Refused(verb) ==
  /\ verb \in Looks \cup {"dump_fat", "delete", "undelete"}
  /\ TEST_FD => verb \in {"delete", "undelete"} /\ ~TEST_W_FD
  /\ Die(verb)
DeleteDies == TEST_FD /\ TEST_W_FD /\ Die("no_parent")

\* The table in memory is none: an empty device was mounted, or it has been
\* freed since.
Adrift == memory = Heap \/ (fd = 0 /\ memory # Zeros)

\* A wild pointer, where it ends the process.  For a path of slashes only, or
\* one whose parent is such a path, find returns an entry it has allocated and
\* not filled; chain looks its number up in the table whatever it is; and a
\* table nobody filled, or freed, leads anywhere.
Stray(verb, why) ==
  /\ verb # "cd" => TEST_FD
  /\ verb \in {"delete", "undelete"} => TEST_W_FD
  /\ \/ why = "no_name" /\ verb \in Follows
     \/ why = "no_number" /\ verb = "chain"
     \/ why = "no_table" /\ verb \in Follows \cup {"chain", "cd"} /\ Adrift
  /\ Die(why)

\* An empty line, usage, "404 Not Found", a file that is not found, a command
\* that only looks or prints: the state stays as it is.
Answer(verb, given) ==
  /\ \/ verb \notin Verbs
     \/ verb \in Takes /\ ~given
     \/ verb \in {"cd", "show"}
     \/ verb \in Looks /\ TEST_FD
     \/ verb \in {"delete", "undelete"} /\ TEST_FD /\ TEST_W_FD
  /\ UNCHANGED shellVars

command_dispatcher(verb, given) ==
  /\ proc = "prompt"
  /\ \/ Answer(verb, given)
     \/ verb = "quit" /\ quit_command
     \/ verb = "umount" /\ umount
     \/ /\ verb \in Takes => given
        /\ \/ Refused(verb)
           \/ \E why \in {"no_name", "no_number", "no_table"} : Stray(verb, why)
           \/ \E dev \in Devices :
                \/ verb = "mount" /\ (mount(dev, FALSE) \/ MountDies(dev, FALSE))
                \/ verb = "wmount" /\ (mount(dev, TRUE) \/ MountDies(dev, TRUE))
           \/ \E creatable \in BOOLEAN : verb = "dump_fat" /\ dump_fat(creatable)
           \/ verb \in {"delete", "undelete"} /\ Alter
           \/ verb = "delete" /\ DeleteDies

\* readline returns NULL at the end of input, and sscanf reads from it.
EndOfInput == proc = "prompt" /\ Die("end_of_input")

ShellNext ==
  \/ main \/ EndOfInput
  \/ \E verb \in Verbs \cup {"other"}, given \in BOOLEAN : command_dispatcher(verb, given)

ShellSpec == ShellInit /\ [][ShellNext]_shellVars

-----------------------------------------------------------------------------
(* Properties *)

\* All that is in memory is of the device that is open, however it came to be
\* mounted, and the prompt tells its label; and umount writes to a device
\* only what was read from it.  A device with nothing on it is the exception:
\* there is "nothing on" it only before the first volume has been mounted,
\* and afterwards it passes for one mounted before.
AllOfOneDevice ==
  /\ fd = 0 => label = NOTHING
  /\ fd # 0 => LET dev == opened[fd].device
               IN  /\ fs_fd = fd
                   /\ fat_boot \in Volumes
                   /\ Holds[dev] # "nothing" =>
                        fat_boot = dev /\ memory = dev /\ label = VolumeLabel[dev]
  /\ written[1] = written[2] \/ Holds[written[2]] = "nothing"

\* The changes of delete and undelete reach the device at the next umount or
\* quit, unless a mount comes first; the file of a dump_fat cannot be made;
\* delete does not find a parent; ls, lsdel, dump, hdump, delete or undelete is
\* given a path without a name or one whose parent is such ("no_name"), chain a
\* number the table does not have ("no_number"); the device mounted has nothing
\* on it ("no_table"); or input ends.  A command without its argument, with an
\* unknown verb or refused for its device loses none.
ChangesReachTheDevice ==
  lost \in {"none", "mount", "dump_fat", "no_parent", "no_name", "no_number",
            "no_table", "end_of_input"}

\* Descriptors are left open by mounts over a mounted device and by nothing
\* else, so that only those can use them up.
OnlyMountLeavesOpen ==
  Cardinality(Open) = (IF fd = 0 THEN 0 ELSE 1) + over
=============================================================================
