----------------------------- MODULE MCListing -----------------------------
(***************************************************************************)
(* The two sides of a listing, the long names and the short ones.  They    *)
(* share no state: a behaviour takes the steps of one module and leaves    *)
(* the other at its start.                                                 *)
(***************************************************************************)
EXTENDS MCLongNames, Names

\* Lower case differs for one character.  Names are of two characters and
\* extensions of one: with each mark of a first character, with blanks where
\* they are and are not cut, and with a character after the end of the text.
MCtolower == [c \in {" ", ".", "?", "00", "E5", "05", "A", "a"} |-> IF c = "A" THEN "a" ELSE c]
MCNames == {<<"A", "A">>, <<"A", " ">>, <<"a", "A">>, <<" ", "A">>, <<E5, "A">>,
            <<E5, " ">>, <<X05, "A">>, <<NUL, "A">>, <<"A", NUL>>}
MCEntries ==
  {e \in [name : MCNames, extention : {<<" ">>, <<"A">>}, lower_name : BOOLEAN,
          lower_extention : BOOLEAN, directory : BOOLEAN, special : BOOLEAN, file_size : 0..1] :
     (e.directory \/ e.special) => ~e.lower_extention}
Plain(e) == ~e.special /\ ~e.lower_extention /\ e.name[1] \notin {NUL, " "}
MCFolders == {<<e>> : e \in MCEntries}
             \cup {<<e, f>> : e \in {x \in MCEntries : Plain(x)}, f \in {x \in MCEntries : Plain(x)}}

MCFolder == CHOOSE d \in MCFolders : TRUE

\* The theorem about short names is about such keyboards.
ASSUME KeysAreAsAsked == MarkIsNotTyped

VARIABLE part   \* the module whose steps are taken

MCInit == \/ part = "long" /\ Init /\ entries = MCFolder /\ NamesInit
          \/ part = "short" /\ NamesInit /\ Init
MCNext == \/ part = "long" /\ Next /\ UNCHANGED <<part, namesVars>>
          \/ part = "short" /\ NamesNext /\ UNCHANGED <<part, vars>>
MCSpec == MCInit /\ [][MCNext]_<<part, vars, namesVars>>
=============================================================================
