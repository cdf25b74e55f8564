---------------------------- MODULE MCKeyCeremony ----------------------------
(* Small instances of KeyCeremony for TLC.                                  *)
EXTENDS KeyCeremony

CONSTANTS p1, p2

Two == {p1, p2}
AllWorlds == SUBSET Trouble
TornAnswers == {{"torn"}}

=============================================================================
