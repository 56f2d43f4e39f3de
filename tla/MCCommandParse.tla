---------------------------- MODULE MCCommandParse ----------------------------
EXTENDS CommandParse

\* Stack contents the uninitialised arg_starting_index may hold: before the
\* buffer, its start, inside a four-character command, and past its end.
MCStackJunk == {-1, 0, 2, 9}

\* The one program of the image: the name "a".
MCPrograms == {<<"a">>}
==============================================================================
