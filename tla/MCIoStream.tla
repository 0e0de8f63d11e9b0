----------------------------- MODULE MCIoStream -----------------------------
(* Instances of IoStream for TLC. *)
EXTENDS IoStream

\* Whole, empty, cut in the middle, damaged.
MCFiles == {<<1, 2, 3, END>>, <<END>>, <<1, 2>>, <<1, BAD, 2, END>>}

\* One stream behind another, which bzip2 tools that work in parallel write.
MCAppended == {<<1, END, 2, END>>}

All == Kinds
=============================================================================
