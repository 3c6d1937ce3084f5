------------------------------ MODULE MCMultiSig ------------------------------
(***************************************************************************)
(* A small instance of MultiSig for TLC.                                    *)
(***************************************************************************)
EXTENDS MultiSig, TLC

CONSTANTS s1, s2, s3, pause, memo

\* Per-kind thresholds a deployer may pass: none, one stricter than most
\* defaults, one above the number of signers, and zero, which init_multisig
\* accepts.
SomeThresholds == {NoEntries} \union {[k \in {pause} |-> n] : n \in {0, 3, 4}}

SomeTimeLocks == {NoEntries, [k \in {pause} |-> 1]}

Symmetry == Permutations({s1, s2, s3})

==============================================================================
