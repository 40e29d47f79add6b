----------------------------- MODULE MCDataCache -----------------------------
(* Instances of DataCache. *)
EXTENDS DataCache

\* No file, no row, fewer files than workers, as many, more; batches of two rows that
\* fill a file, leave a rest, or cross the clients' ranges.
SmallTables == {<<>>, <<0>>, <<1>>, <<2, 2>>, <<5, 1>>, <<1, 0, 2>>, <<4, 4, 3, 1>>}
FewTables == {<<2, 2>>, <<3, 1, 1>>}
=============================================================================
