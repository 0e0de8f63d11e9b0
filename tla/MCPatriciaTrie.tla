--------------------------- MODULE MCPatriciaTrie ---------------------------
(* Instances of PatriciaTrie for TLC. *)
EXTENDS PatriciaTrie

\* Four prefixes with a fork above a chain: glue comes and goes.
FewPrefixes == {<<0>>, <<0, 0, 1>>, <<0, 1, 0>>, <<1, 1>>}

\* The default route as well.
WithDefault == FewPrefixes \cup {<<>>}

\* A fork of glue under the default route, beside a third prefix.
DefaultAndForks == {<<>>, <<0, 0, 1>>, <<0, 1, 0>>, <<1, 1>>}
=============================================================================
