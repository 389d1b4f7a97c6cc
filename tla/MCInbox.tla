------------------------------ MODULE MCInbox ------------------------------
(* Small instances of Inbox: transfers named "a", "a.part" and               *)
(* "a.postamat.json", so that the path of one is a by-product of another.    *)
EXTENDS Inbox, TLC

Plain == <<"a">>

MCNames     == {Plain, Partial(Plain), Metadata(Plain)}
MCUserPaths == {Plain, Metadata(Plain)}
MCNumbers   == <<"(1)", "(2)", "(3)", "(4)">>

Symmetry == Permutations(Transfers)
=============================================================================
