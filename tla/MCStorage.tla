----------------------------- MODULE MCStorage -----------------------------
(***************************************************************************)
(* What the service keeps, for TLC: one record of the state Space          *)
(* (AppendOnly) and one Space's repository (Repository).  They share no    *)
(* state, so a behaviour exercises one of them, chosen at the start, and   *)
(* the other stays as it is.                                               *)
(***************************************************************************)
EXTENDS AppendOnly, Repository, TLC

CONSTANTS w1, w2, w3, r1, f1, f2
VARIABLE part

\* Appends and files are interchangeable.
Symmetry == Permutations(Writer) \cup Permutations(File)

StorageInit ==
    /\ Init /\ RepoInit
    /\ part \in {"records", "repository"}
    /\ part # "records" => clobbers
    /\ part # "repository" => \A f \in File : live[f] = 0

StorageNext ==
    /\ \/ part = "records" /\ Next /\ UNCHANGED repoVars
       \/ part = "repository" /\ RepoNext /\ UNCHANGED vars
    /\ UNCHANGED part

StorageSpec == StorageInit /\ [][StorageNext]_<<part, vars, repoVars>>
=============================================================================
