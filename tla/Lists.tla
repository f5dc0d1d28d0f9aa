-------------------------------- MODULE Lists --------------------------------
(***************************************************************************)
(* Selections from a list, as the code makes them with a loop that appends *)
(* what it wants to keep.  (SelectSeq of the standard modules says the     *)
(* same, with an operator as its argument; with a set, what it selects can *)
(* be proved.)                                                             *)
(***************************************************************************)
EXTENDS Naturals, Sequences, SequencesExt

(* The members of s at the positions in P, in their order. *)
Pick(s, P) ==
  LET picked[n \in 0..Len(s)] ==
        IF n = 0 THEN <<>>
        ELSE IF n \in P THEN Append(picked[n - 1], s[n]) ELSE picked[n - 1]
  IN  picked[Len(s)]

(* The members of s that are in the set keep. *)
Only(s, keep) == Pick(s, {i \in DOMAIN s : s[i] \in keep})

(* Every member of s once, where it comes first. *)
Unique(s) == Pick(s, {i \in DOMAIN s : \A j \in 1..i - 1 : s[j] # s[i]})

=============================================================================
