---------------------------- MODULE MCChipProgram ----------------------------
(***************************************************************************)
(* The jobs of the model-checking instances of ChipProgram: one partition, *)
(* among them the empty file, one with a blank page in front or in the     *)
(* middle and one that ends inside a sector, or several that are not       *)
(* empty, at every sector and at one address that is not aligned.          *)
(***************************************************************************)
EXTENDS ChipProgram

CONSTANTS Addrs, MaxParts,
  Lens  \* the lengths of the files

Files == {f \in UNION {{<<>>, <<v>>, <<Blank, v>>, <<v, Blank, v>>} : v \in Values} :
            Len(f) \in Lens}

SomePartitions == [addr : Addrs, data : Files]

MCJobs == {j \in UNION {[1 .. n -> SomePartitions] : n \in 1 .. MaxParts} :
             Accepted(j) /\ (Len(j) > 1 => \A k \in DOMAIN j : j[k].data # <<>>)}
=============================================================================
