----------------------------- MODULE MCRecording -----------------------------
(* Recording for TLC: two transport plugins, found in the order A, B, and  *)
(* two log directories.                                                    *)
EXTENDS Recording, TLC

CONSTANTS logs, archive

MCPlugins == {"PLUGA", "PLUGB"}
MCRank    == [t \in Builtins \cup MCPlugins |->
               CASE t = "UART" -> 0 [] t = "TCP" -> 1 [] t = "UDP" -> 2
                 [] t = "PLUGA" -> 3 [] t = "PLUGB" -> 4]

MCRoots      == {logs, archive}
RootSymmetry == Permutations(MCRoots)

=============================================================================
