--------------------------- MODULE MCNormalizedPath ---------------------------
(***************************************************************************)
(* Paths for TLC, of names whose escapes could be confused: '][' inside    *)
(* quotes, which two empty names also show; a slash and the characters of  *)
(* its escape, each followed by a control character and one of three       *)
(* bytes.  BadName stands for a string with a stray byte.                  *)
(***************************************************************************)
EXTENDS NormalizedPath

BadName == <<-1>>

TextNames == { <<>>, <<39, 93, 91, 39>>, <<47, 27, 8364>>, <<126, 49, 27, 8364>> }

AllNames == TextNames \cup {BadName}

SomeIndexes == {-1, 0, 10}
=============================================================================
