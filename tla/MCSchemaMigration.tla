------------------------- MODULE MCSchemaMigration -------------------------
(* Migration directories, for TLC.                                          *)
EXTENDS SchemaMigration

Directory(files) == [files |-> files, manifest |-> {files}]
MCDirectory == {Directory(<<"a", "b">>)}

\* Two releases, a file that was changed after it was applied, and one whose manifest was
\* left behind.
MCDirectories ==
  {Directory(<<"a">>), Directory(<<"a", "b">>), Directory(<<"a2", "b">>),
   [files |-> <<"a", "b2">>, manifest |-> {}], [files |-> <<"a", "b3">>, manifest |-> {<<"a", "b">>}]}
=============================================================================
