------------------------------ MODULE MCJsonText ------------------------------
(* Instances of JsonText for TLC. *)
EXTENDS JsonText

OneName == {<<"a">>}

\* A digit, and a denormal.
FewNumbers == {<<"0">>, <<"-", "5", "e", "-", "9">>}
Denormals == {<<"-", "5", "e", "-", "9">>}

\* Nothing, and both escapes in front of another character.
FewStrings == {<<>>, <<"\"", "\\", "a">>}

\* A string whose last character is escaped.
EscapeLast == {<<"\\">>}
=============================================================================
