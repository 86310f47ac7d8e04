------------------------------- MODULE Names -------------------------------
(***************************************************************************)
(* Short names, as ls shows them and as find looks them up.  An entry      *)
(* keeps the characters of its name, padded with blanks, and a flag for    *)
(* each of its two halves that says it is to be shown in lower case.       *)
(* list (user.c) and search (fs.c) each make a text of them; delete and    *)
(* undelete overwrite the first character of what search finds.            *)
(*                                                                         *)
(* Left out: what list prints besides names (long names: LongNames), and   *)
(* paths of more than the one directory (Session).                         *)
(***************************************************************************)
EXTENDS Naturals, Sequences, SequencesExt

CONSTANTS
  Folders,    \* the directories to start with, sequences of entries
  Typeable,   \* the characters a user may type in a name
  tolower     \* the characters, each with its lower case

\* The first characters that mean something: never used, deleted, and a name
\* that really starts with the character that means deleted.
NUL == "00"
E5  == "E5"
X05 == "05"

Chars == DOMAIN tolower
ShortName == [name : Seq(Chars) \ {<< >>}, extention : Seq(Chars),
              lower_name : BOOLEAN, lower_extention : BOOLEAN,
              directory : BOOLEAN, special : BOOLEAN, file_size : Nat]

ASSUME NamesAssumption ==
  /\ {" ", ".", "?", NUL, E5, X05} \subseteq Chars
  /\ tolower \in [Chars -> Chars]
  /\ Folders \subseteq Seq(ShortName)
  /\ Typeable \subseteq Chars \ {" ", "/", "?", NUL}

VARIABLES
  entries,   \* the directory
  given      \* history: the name the last command had undelete look for,
             \* and it found; << >> after any other

namesVars == <<entries, given>>

NamesInit == entries \in Folders /\ given = << >>

-----------------------------------------------------------------------------
(* Texts *)

\* What C takes for the text in an array of characters.
Text(chars) == SubSeq(chars, 1, SelectInSeq(chars \o <<NUL>>, LAMBDA c : c = NUL) - 1)

\* The text without the blanks at its end.
rtrim(text) == SubSeq(text, 1, SelectLastInSeq(text, LAMBDA c : c # " "))

Cased(chars, lower) == [k \in DOMAIN chars |-> IF lower THEN tolower[chars[k]] ELSE chars[k]]

get_extension(e) == rtrim(Text(Cased(e.extention, e.lower_extention)))

\* Of an entry that was never used there is no name.
Used(e) == e.name[1] # NUL
get_name(e) ==
  LET first == CASE e.name[1] = E5  -> <<"?">>
                 [] e.name[1] = X05 -> <<E5>>
                 [] OTHER -> Cased(<<e.name[1]>>, e.lower_name)
  IN  rtrim(Text(first \o Cased(Tail(e.name), e.lower_name)))

-----------------------------------------------------------------------------
(* Listing and looking up *)

is_deleted(e) == e.name[1] = E5

\* The line list prints for an entry that has one: files with their
\* extension, directories without.
Lists(e, show_deleted) ==
  /\ is_deleted(e) => show_deleted
  /\ Used(e) /\ (e.special => e.directory)
Shown(e) == IF e.directory THEN get_name(e) ELSE get_name(e) \o <<".">> \o get_extension(e)

\* A slip: files are looked up without regard to the flags for lower case.
MatchesStored(e, term) ==
  /\ Used(e)
  /\ \/ /\ e.file_size # 0 /\ ~e.special
        /\ term = rtrim(Text(e.name)) \o <<".">> \o rtrim(Text(e.extention))
     \/ e.directory /\ term = get_name(e)

\* search takes anything with a size and no label for a file, directories
\* that have one too, and what is of no bytes for none.
MatchesTerm(e, term) ==
  /\ Used(e)
  /\ \/ /\ e.file_size # 0 /\ ~e.special
        /\ term = get_name(e) \o <<".">> \o get_extension(e)
     \/ e.directory /\ term = get_name(e)

\* The place of the first entry that matches; 0 when none does.
search(term) == SelectInSeq(entries, LAMBDA e : MatchesTerm(e, term))

-----------------------------------------------------------------------------
(* Commands on what has been listed *)

\* What sscanf and strtok take for one name of a path, and find for a name of
\* the directory it is in.
CanType(text) == text # << >> /\ ToSet(text) \subseteq Typeable \cup {"."} /\ text[1] # "."

\* Every entry with the same bytes is given the character.
GiveFirst(k, char) ==
  entries' = [j \in DOMAIN entries |-> IF entries[j] = entries[k]
                                       THEN [entries[j] EXCEPT !.name[1] = char]
                                       ELSE entries[j]]

DeleteName(text) ==
  /\ search(text) # 0
  /\ GiveFirst(search(text), E5)
  /\ given' = << >>

UndeleteName(text) ==
  LET k == search(<<"?">> \o Tail(text))
  IN  /\ k # 0
      /\ GiveFirst(k, text[1])
      /\ given' = text

\* A command that changes no name.
Look == given' = << >> /\ UNCHANGED entries

NamesNext ==
  \/ Look
  \/ \E j \in DOMAIN entries :
       LET text == Shown(entries[j])
       IN  /\ Lists(entries[j], TRUE)
           /\ \/ CanType(text) /\ DeleteName(text)
              \/ \E char \in Typeable :
                   /\ is_deleted(entries[j])
                   /\ CanType(<<char>> \o Tail(text))
                   /\ UndeleteName(<<char>> \o Tail(text))

NamesSpec == NamesInit /\ [][NamesNext]_namesVars
-----------------------------------------------------------------------------
(* What is asked of the constants where a theorem needs it *)

\* The character that stands for the one that means deleted cannot be typed:
\* a name it is given to would show another.
MarkIsNotTyped == X05 \notin Typeable
-----------------------------------------------------------------------------
(* Properties *)

\* Another entry is found for the text: one in front that shows the same, or
\* a directory with a size, which search takes for a file too and whose name
\* and extension, as those of a file are shown, are the text.
Shadowed(j, text) ==
  \E k \in 1..(j - 1) :
    \/ Lists(entries[k], TRUE) /\ Shown(entries[k]) = text
    \/ /\ entries[k].directory /\ entries[k].file_size # 0
       /\ text = get_name(entries[k]) \o <<".">> \o get_extension(entries[k])

\* A name typed as ls shows it finds the entry it was shown for, unless that
\* is a file of no bytes, which nothing finds, or one in front of it shadows
\* it.  And the name that undelete was given finds an entry afterwards,
\* unless its first character is the one that means deleted, or one in upper
\* case that begins the name of an entry shown in lower case.
NamesFindTheirEntries ==
  /\ \A j \in DOMAIN entries :
       LET text == Shown(entries[j])
       IN  Lists(entries[j], TRUE) =>
             \/ search(text) = j \/ Shadowed(j, text)
             \/ ~entries[j].directory /\ entries[j].file_size = 0
  /\ given # << >> =>
       \/ search(given) # 0 \/ given[1] = E5
       \/ tolower[given[1]] # given[1] /\
          \E j \in DOMAIN entries : entries[j].lower_name /\ entries[j].name[1] = given[1]
=============================================================================
