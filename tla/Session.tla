------------------------------ MODULE Session ------------------------------
(***************************************************************************)
(* Paths and the working directory.  TFAT keeps the working directory as   *)
(* the text of a path and completes a typed path by pasting text: cd, ls,  *)
(* delete and undelete hand the result to find, which walks the directory  *)
(* tree again.  Nothing keeps the text and the tree together.              *)
(*                                                                         *)
(* A path is a sequence of characters; the tree is fixed but for the first *)
(* characters of names, which delete and undelete overwrite.  In FAT, a    *)
(* directory has entries named . and .., and the .. of a directory in the  *)
(* root says cluster 0, which parse_dir does not take for the root.  The   *)
(* names in the root change in memory, and on the device at an umount;     *)
(* those of other directories change on the device at once.                *)
(*                                                                         *)
(* cd does not ask for a device.  After an umount, root_dir dangles, and   *)
(* what cd finds there is anything.                                        *)
(***************************************************************************)
EXTENDS Naturals, Sequences, FiniteSets, SequencesExt

CONSTANTS
  Chars,     \* the characters of paths and names
  Typed,     \* the paths a user may type, sequences of characters
  Folders,   \* the directories of the tree other than the root
  Files,     \* its files
  Entries,   \* for each directory, the sequence of its entries: a name and
             \* what it names
  MaxLength, \* bound on the working directory, so that it does not grow
             \* by B/../B/../ for ever
  MaxLost,   \* the same bound after an umount
  MaxRenamed \* bound on the names delete and undelete leave changed, in
             \* memory and on the device

Root == "root"   \* root_dir
Zero == "zero"   \* what the .. of a directory in the root names
Wild == "wild"   \* what the entry find allocates and does not fill names

\* An entry is the directory it is in and its place there.  find returns None,
\* or for a path with no names the entry it has not filled.
None      == <<"none", 0>>
WildEntry == <<Wild, 0>>

Listed == UNION {{d} \X DOMAIN Entries[d] : d \in DOMAIN Entries}
AtRoot == {e \in Listed : e[1] = Root}

\* The first character of a deleted name, as get_name shows it, and that of
\* the name an entry starts with.
Deleted    == "?"
FirstOf(e) == Head(Entries[e[1]][e[2]].name)

ASSUME SessionAssumption ==
  /\ {"/", ".", "?", "-"} \subseteq Chars
  /\ \A p \in Typed : p \in Seq(Chars \ {"?"}) /\ p # << >>
  /\ {Root, Zero, Wild} \cap (Folders \cup Files) = {} /\ Folders \cap Files = {}
  /\ DOMAIN Entries = Folders \cup {Root}
  /\ \A d \in DOMAIN Entries :
       Entries[d] \in Seq([name : Seq(Chars) \ {<< >>}, of : Folders \cup Files \cup {Zero}])
  /\ MaxLength \in Nat /\ MaxLost \in Nat /\ MaxRenamed \in Nat

VARIABLES
  mounted,        \* a device is open
  dangling,       \* root_dir is what an umount has freed
  current_path,
  first,          \* the first character of the name in each entry
  saved,          \* and on the device, in the entries of the root
  \* history: the entries cd has found on the way to the working directory,
  \* and those whose names have changed since
  passed, renamed,
  act             \* whether the last command was a delete or an undelete, if
                  \* it marked the entry whose clusters it freed or claimed,
                  \* and if its path had two '/' in a row

vars == <<mounted, dangling, current_path, first, saved, passed, renamed, act>>

NoAct == [done |-> FALSE, marked |-> FALSE, doubled |-> FALSE]

-----------------------------------------------------------------------------
(* Text *)

Slash == <<"/">>
EndsIn(p, c) == p # << >> /\ Last(p) = c
Doubled(p) == \E k \in 2..Len(p) : p[k] = "/" /\ p[k - 1] = "/"
Starts(p, prefix) == IsPrefix(prefix, p)
Drop(p, n) == SubSeq(p, n + 1, Len(p))

\* The position both helpers below cut a path at: its last '/' but for one at
\* the end, and its first character when that '/' is there or nowhere.
Chopped(p) == IF EndsIn(p, "/") THEN Front(p) ELSE p
CutAt(q) == LET cuts == {k \in 2..Len(q) : q[k] = "/"}
            IN  IF cuts = {} THEN 1 ELSE CHOOSE k \in cuts : \A j \in cuts : j <= k

\* A slip: the '/' at the end is taken for the last one.
ParentKeepsEnd(path) == SubSeq(path, 1, CutAt(path) - 1) \o Slash

get_parent_path(path) ==
  LET q == Chopped(path) IN SubSeq(q, 1, CutAt(q) - 1) \o Slash

\* The character fix_deleted_char hands back, and the path with a '?' in its
\* place.
DeletedAt(q) == IF CutAt(q) = 1 THEN 1 ELSE CutAt(q) + 1

\* A slip: the '/' is overwritten, not the character after it.
FixAtCut(path) ==
  LET q == Chopped(path)
      k == CutAt(q)
  IN  [char |-> q[k], path |-> [q EXCEPT ![k] = "?"]]

fix_deleted_char(path) ==
  LET q == Chopped(path)
      k == DeletedAt(q)
  IN  IF k > Len(q) THEN [char |-> "", path |-> Append(q, "?")]
                    ELSE [char |-> q[k], path |-> [q EXCEPT ![k] = "?"]]

\* A slip: a path given relative gets no '/' at the end.
ConvertNoSlash(path) ==
  LET close(p) == IF EndsIn(p, "/") THEN p ELSE p \o Slash
      skip(k)  == Drop(path, IF Len(path) > k /\ path[k + 1] = "/" THEN k + 1 ELSE k)
  IN  IF Starts(path, <<".", ".">>)
      THEN close(get_parent_path(current_path) \o skip(2))
      ELSE IF path[1] = "." THEN close(current_path \o skip(1))
      ELSE IF path[1] # "/" THEN current_path \o path
      ELSE close(path)

address_convertor(path) ==
  LET close(p) == IF EndsIn(p, "/") THEN p ELSE p \o Slash
      skip(k)  == Drop(path, IF Len(path) > k /\ path[k + 1] = "/" THEN k + 1 ELSE k)
  IN  IF Starts(path, <<".", ".">>)
      THEN close(get_parent_path(current_path) \o skip(2))
      ELSE IF path[1] = "." THEN close(current_path \o skip(1))
      ELSE IF path[1] # "/" THEN close(current_path \o path)
      ELSE close(path)

\* strtok: the names between the '/'
Tokens(path) ==
  LET names[k \in 0..Len(path)] ==
        IF k = 0 THEN << >>
        ELSE LET before == names[k - 1]
             IN  IF path[k] = "/" THEN before
                 ELSE IF k = 1 \/ path[k - 1] = "/" THEN Append(before, <<path[k]>>)
                 ELSE Append(Front(before), Append(Last(before), path[k]))
  IN  names[Len(path)]

-----------------------------------------------------------------------------
(* The tree *)

Named(entry) == IF entry = WildEntry THEN Wild ELSE Entries[entry[1]][entry[2]].of
NameOf(entry) == <<first[entry]>> \o Tail(Entries[entry[1]][entry[2]].name)

\* The first entry of the directory with this name.
search(dir, name) ==
  LET hits == {k \in DOMAIN Entries[dir] : NameOf(<<dir, k>>) = name}
  IN  IF hits = {} THEN None ELSE <<dir, CHOOSE k \in hits : \A j \in hits : k <= j>>

\* parse_dir returns no entries for what is not a directory or has cluster 0.
Parses(entry) == entry # None /\ Named(entry) \in Folders

\* The entries find comes by, the last the one it returns.
Way(path) ==
  LET tokens == Tokens(path)
      way[k \in 1..Len(tokens)] ==
        IF k = 1 THEN <<search(Root, Head(tokens))>>
        ELSE LET before == way[k - 1]
             IN  Append(before, IF Parses(Last(before))
                                THEN search(Named(Last(before)), tokens[k]) ELSE None)
  IN  IF tokens = << >> THEN <<WildEntry>>
      ELSE IF ~mounted THEN <<None>>
      ELSE way[Len(tokens)]

find(path) == Last(Way(path))

-----------------------------------------------------------------------------
(* Commands *)

Init ==
  /\ mounted = FALSE /\ dangling = FALSE
  /\ current_path = <<"-">>
  /\ first = [e \in Listed |-> FirstOf(e)] /\ saved = [e \in AtRoot |-> FirstOf(e)]
  /\ passed = {} /\ renamed = {} /\ act = NoAct

\* mount reads the root directory, also over a mounted device.
Mount ==
  /\ mounted' = TRUE /\ dangling' = FALSE
  /\ current_path' = Slash
  /\ first' = [e \in Listed |-> IF e \in AtRoot THEN saved[e] ELSE first[e]]
  /\ passed' = {} /\ renamed' = {} /\ act' = NoAct
  /\ UNCHANGED saved

Umount ==
  /\ mounted
  /\ mounted' = FALSE /\ dangling' = TRUE
  /\ current_path' = <<"-">>
  /\ saved' = [e \in AtRoot |-> first[e]]
  /\ passed' = {} /\ renamed' = {} /\ act' = NoAct
  /\ UNCHANGED first

\* A slip: whatever find finds will do.
AcceptsFiles(path) == path = Slash \/ dangling \/ find(path) # None

\* cd goes where find finds a directory; an entry nobody has filled or that
\* lies in freed memory may say it is one.
Accepts(path) ==
  LET found == find(path)
  IN  path = Slash \/ dangling
      \/ (found # None /\ Named(found) \in Folders \cup {Zero, Wild})

cd(path) ==
  LET npath == address_convertor(path)
  IN  /\ Len(npath) <= IF dangling THEN MaxLost ELSE MaxLength
      /\ Accepts(npath)
      /\ current_path' = npath
      /\ passed' = Range(Way(npath)) \cap Listed /\ renamed' = {}
      /\ act' = NoAct
      /\ UNCHANGED <<mounted, dangling, first, saved>>

Changed(chars, entries) == {e \in entries : chars[e] # FirstOf(e)}

\* The part of delete and undelete that paths decide.  They free or claim the
\* clusters of the entry that find returns for the path, and give a character
\* to that entry among those of the directory that find returns for the parent
\* path.  (Where it returns NULL, the process ends.)
ActOn(ndir, char) ==
  LET pndir  == get_parent_path(ndir)
      file   == find(ndir)
      up     == find(pndir)
      parent == IF pndir = Slash THEN Root ELSE Named(up)
      marked == file[1] = parent
  IN  /\ mounted
      /\ file \notin {None, WildEntry}
      /\ pndir = Slash \/ up # None
      /\ act' = [done |-> TRUE, marked |-> marked, doubled |-> Doubled(ndir)]
      /\ first' = IF marked THEN [first EXCEPT ![file] = char] ELSE first
      /\ Cardinality(Changed(first', Listed)) + Cardinality(Changed(saved, AtRoot)) <= MaxRenamed
      /\ renamed' = IF marked THEN renamed \cup {file} ELSE renamed
      /\ UNCHANGED <<mounted, dangling, current_path, saved, passed>>

delete(path) == ActOn(address_convertor(path), Deleted)

undelete(path) ==
  LET fixed == fix_deleted_char(path)
  IN  ActOn(address_convertor(fixed.path), fixed.char)

Next == \/ Mount \/ Umount
        \/ \E path \in Typed : cd(path) \/ delete(path) \/ undelete(path)

Spec == Init /\ [][Next]_vars

-----------------------------------------------------------------------------
(* Properties *)

\* The names of a path, . and .. resolved as far as they can be on paper.
Resolve(names) ==
  LET seen[k \in 0..Len(names)] ==
        IF k = 0 THEN << >>
        ELSE LET before == seen[k - 1]
             IN  IF names[k] = <<".">> THEN before
                 ELSE IF names[k] = <<".", ".">>
                 THEN (IF before = << >> THEN before ELSE Front(before))
                 ELSE Append(before, names[k])
  IN  seen[Len(names)]
Join(names) == Slash \o FlattenSeq([k \in DOMAIN names |-> names[k] \o Slash])
Dots == {<<".">>, <<".", ".">>}

\* cd.c, on change_current_path: "new_path must have '/' at the end".  With a
\* device, the working directory starts with one too, whatever was typed.
CwdIsAPath ==
  mounted => current_path[1] = "/" /\ EndsIn(current_path, "/")

\* The text of the working directory, looked up once more as ls does with it,
\* gives a directory whose entries can be read.
Works == current_path = Slash \/ Parses(find(current_path))

\* It gives an entry of cluster 0 or one that nobody has filled, which cd takes
\* for a directory and parse_dir reads nothing from.
Unread == /\ find(current_path) # None
          /\ Named(find(current_path)) \in {Zero, Wild}

\* The working directory goes on naming a directory until an entry on the way
\* cd took to it loses its name, or undelete gives the same name to another
\* one in front of it: nothing done elsewhere in the tree makes relative paths
\* fail.  Of the root it is so for the text "/" only: through the .. of a
\* directory in it, or by slashes alone, cd comes to where ls and relative
\* paths find nothing, and to nowhere else, but through an entry whose name
\* undelete has made a . or .. of, or has made other than that.
Covers(e, p) == e[1] = p[1] /\ e[2] < p[2] /\ NameOf(e) = NameOf(p)
CwdNamesADirectory ==
  mounted =>
    \/ Works
    \/ /\ Unread
       /\ \/ Resolve(Tokens(current_path)) = << >>
          \/ \E e \in passed : (NameOf(e) \in Dots) # (Entries[e[1]][e[2]].name \in Dots)
    \/ passed \cap renamed # {}
    \/ \E e \in renamed, p \in passed : Covers(e, p)

\* cd .. undoes a cd into a directory: the parent of the working directory is
\* the path without its last name.
UpIsParent ==
  LET names == Tokens(current_path)
  IN  (mounted /\ names # << >> /\ current_path = Join(names)) =>
        address_convertor(<<".", ".">>) = Join(Front(names))

\* delete marks the entry whose clusters it frees, and undelete the one whose
\* cluster it claims, although they find the one by the path and the other by
\* the text of its parent: from any working directory, through . and .. too.
\* Of paths with two '/' in a row, the parent may be wrong.
MarksWhatItFrees == act.done => act.marked \/ act.doubled

\* What undelete should look for: the entry of the completed path, but for
\* the first character of its name, which is handed back.
OneNameAbsolute(path) == path[1] = "/" /\ Len(Tokens(path)) = 1
ChangesLastName(path) ==
  LET names == Tokens(address_convertor(path))
      fixed == fix_deleted_char(path)
  IN  /\ Tokens(address_convertor(fixed.path)) =
           Append(Front(names), [Last(names) EXCEPT ![1] = "?"])
      /\ fixed.char = Last(names)[1]
Fixable ==
  {path \in Typed :
     LET names == Tokens(path)
     IN  /\ names # << >> /\ ~Doubled(path)
         /\ Last(names)[1] # "."
         /\ \A k \in DOMAIN names : names[k][1] = "." => names[k] \in Dots}

\* From whatever working directory, undelete looks for the name that was
\* typed with its first character lost, and puts that character back; an
\* absolute path of one name is the exception.
UndeleteLooksForTyped ==
  mounted => \A path \in Fixable : OneNameAbsolute(path) \/ ChangesLastName(path)

\* fs.h, on fix_deleted_char: "Change first character after last '/'".  (What
\* it goes on to say, "to 0xE5", the code does not do: it writes a '?', which
\* is what get_name makes of 0xE5, and so the name is found.)
FixesAfterLastSlash == mounted => \A path \in Fixable : ChangesLastName(path)

-----------------------------------------------------------------------------
(* The trees for which the working directory is proved to name a directory *)

\* The root has no entries named . and .., those of another directory name
\* itself and the directory it is in, and that is cluster 0 for the root.
TreeIsProper ==
  \A e \in Listed :
    LET entry == Entries[e[1]][e[2]]
    IN  /\ entry.name \in Dots => e[1] \in Folders
        /\ entry.name = <<".">> => entry.of = e[1]
        /\ entry.of = Zero => entry.name = <<".", ".">>
        /\ \A f \in Listed :
             LET above == Entries[f[1]][f[2]]
             IN  entry.name = <<".", ".">> /\ above.name \notin Dots /\ above.of = e[1]
                   => entry.of = IF f[1] = Root THEN Zero ELSE f[1]
=============================================================================
