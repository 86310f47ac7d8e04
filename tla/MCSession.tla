----------------------------- MODULE MCSession -----------------------------
(***************************************************************************)
(* A tree of two nested directories, a file and a deleted directory in     *)
(* front of them for the model checker; every path of up to TypedLength    *)
(* characters, and a few longer ones.                                      *)
(***************************************************************************)
EXTENDS Session, TLC

CONSTANTS
  TypedLength,   \* the length of the paths of which all are typed
  Longer         \* type the longer ones too

MCChars == {"/", ".", "A", "B", "?", "-"}
Texts(n) == UNION {[1..k -> MCChars \ {"?", "-"}] : k \in 1..n}
LongTexts ==
  {<<"/", "A", "/", "B">>, <<".", ".", "/", "A">>, <<"A", "/", ".", ".">>,
   <<".", "/", "A", "/">>, <<"/", "/", "A", "/">>, <<"A", "/", "/", "B">>,
   <<"A", "/", "B", "/">>, <<"/", "A", "/", "B", "/">>, <<"/", "B", ".">>,
   <<"/", "A", "/", ".", ".", "/", "B", ".">>,
   <<"/", "A", "/", "B", "/", ".", ".", "/", "B">>}
MCTyped == Texts(TypedLength) \cup (IF Longer THEN LongTexts ELSE {})

MCFolders == {"a", "b", "c"}
MCFiles   == {"f"}

Is(name, of) == [name |-> name, of |-> of]
Dot    == <<".">>
DotDot == <<".", ".">>
MCEntries ==
  [root |-> <<Is(<<"?">>, "c"), Is(<<"A">>, "a"), Is(<<"B", ".">>, "f")>>,
   a    |-> <<Is(Dot, "a"), Is(DotDot, Zero), Is(<<"B">>, "b")>>,
   b    |-> <<Is(Dot, "b"), Is(DotDot, "a")>>,
   c    |-> << >>]

\* The tree is one of those the proofs are about.
ASSUME TreeIsAsAsked == TreeIsProper
=============================================================================
