------------------------------- MODULE MCDapps -------------------------------
(* Dapps with a game, its tool, and the capability that stood for it.      *)
EXTENDS Dapps, TLC

CONSTANTS defi, play, game

InfersGames == [c \in {game} |-> {play}]

\* An older entry with the capability: one is AI-driven, by its category.
OldEntry(categories) == [edit |-> 0, categories |-> categories, aiDriven |-> FALSE,
                         tools |-> {}, capabilities |-> {game}]
OldEntries == {OldEntry({defi, AiDriven}), OldEntry({defi})}

Sym == Permutations(Requests) \cup Permutations(Ids)
=============================================================================
