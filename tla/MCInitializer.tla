---------------------------- MODULE MCInitializer ----------------------------
(***************************************************************************)
(* A directory d, an object of that name, a directory d2 whose name begins *)
(* alike, and an object d/x that is in the way of d/x/y.                   *)
(***************************************************************************)
EXTENDS Initializer

MCBases == {<<>>, <<"d">>, <<"d", "x">>}
MCKeys == {<<"d">>, <<"d", "x">>, <<"d", "x", "y">>, <<"d2", "x">>}
MCAllowed == {<<"d", "x">>, <<"d2", "x">>}
MCIgnorable == {{}, {<<"d", "x">>}}
MCLonger(name, longer) == name = "d" /\ longer = "d2"
=============================================================================
