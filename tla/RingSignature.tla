---------------------------- MODULE RingSignature ----------------------------
(***************************************************************************)
(* Ring signatures of the Rust SDK (sdk/rust/src/ring_signature.rs), their *)
(* verification by the SDK and by the contract (ring_signature.rs), and    *)
(* the audit trail contract that records handovers they attest.            *)
(*                                                                         *)
(* The group of prime order is the integers modulo Q, written additively   *)
(* with generator 1; SHA-256, reduced to a scalar, is the constant Hash.   *)
(* A ring is a sequence of public keys, its commitment the ring itself;    *)
(* a public key outside 0 .. Q - 1 stands for a point off the subgroup.    *)
(***************************************************************************)
EXTENDS Integers, Sequences, FiniteSets, Filtering

CONSTANTS
  Q,             \* order of the group
  Hash(_, _, _), \* of a ring, a statement and a point
  Secret,        \* secret keys of the auditors
  Ring,          \* rings that are used
  Statement,
  Scalars,       \* scalars that random_scalar draws
  Handover,      \* ids of products that are handed over
  MinRingSize, MaxRingSize,
  MaxRecords, MaxSignatures

ASSUME RingAssumption ==
  /\ Q \in Nat \ {0, 1} /\ Secret \subseteq 1 .. Q - 1 /\ Scalars \subseteq 0 .. Q - 1
  /\ Ring \subseteq Seq(Nat) /\ MinRingSize \in Nat \ {0} /\ MaxRingSize \in Nat
  /\ \A r \in Ring, m \in Statement, l \in 0 .. Q - 1 : Hash(r, m, l) \in 0 .. Q - 1

\* What is hashed names the ring (its size first, so that no two run together) and the statement;
\* SHA-256 is taken not to collide on them.
ASSUME HashSeparates ==
  \A r1, r2 \in Ring, m1, m2 \in Statement :
    \/ r1 = r2 /\ m1 = m2
    \/ {Hash(r1, m1, l) : l \in 0 .. Q - 1} \intersect {Hash(r2, m2, l) : l \in 0 .. Q - 1} = {}

VARIABLES
  trail_on,        \* AuditKey::MainContract is set
  main_halted,     \* what the main contract answers to is_paused
  signatures,      \* what was signed: [ring, statement, sig, by]
  records,         \* AuditKey::Record(id), id in 1 .. AuditKey::RecordSeq
  product_records  \* AuditKey::ProductRecords(product)

trail_vars == <<trail_on, main_halted, signatures, records, product_records>>

------------------------------------------------------------------------------
(* The scheme. *)

Member == 0 .. Q - 1
PublicKey(x) == x % Q

\* L = s * G + c * P.
Commitment(s, c, p) == (s + c * p) % Q

NextChallenge(ring, m, s, c, p) == Hash(ring, m, Commitment(s, c, p))

ValidRing(ring, sig) ==
  /\ Len(ring) \in MinRingSize .. MaxRingSize
  /\ Len(sig.s) = Len(ring)
  /\ \A i, j \in 1 .. Len(ring) : i # j => ring[i] # ring[j]
  /\ \A i \in 1 .. Len(ring) : ring[i] \in Member

\* Around the ring, from the challenge of the signature.
Challenges(ring, m, sig) ==
  LET c[i \in 0 .. Len(ring)] ==
        IF i = 0 THEN sig.c0 ELSE NextChallenge(ring, m, sig.s[i], c[i - 1], ring[i])
  IN  c

\* Mutant: the loop stops before the last member.
ClosesEarly(ring, m, sig) == Challenges(ring, m, sig)[Len(ring) - 1] = sig.c0

\* It comes back to where it started.
Closes(ring, m, sig) == Challenges(ring, m, sig)[Len(ring)] = sig.c0

\* Mutant: the shape is checked and the signature is not.
ShapeAlone(ring, m, sig) == ValidRing(ring, sig)

VerifyRingSignature(ring, m, sig) == ValidRing(ring, sig) /\ Closes(ring, m, sig)

\* The SDK's verify makes the same checks in another order.
SdkVerify(ring, m, sig) ==
  IF Len(ring) < MinRingSize \/ Len(ring) > MaxRingSize \/ Len(sig.s) # Len(ring) THEN FALSE
  ELSE /\ \A i \in 1 .. Len(ring) : ring[i] \in Member /\ \A j \in 1 .. i - 1 : ring[j] # ring[i]
       /\ Closes(ring, m, sig)

\* What sign asks of its arguments; duplicates it does not notice.
MaySign(ring, k, x) ==
  /\ Len(ring) \in MinRingSize .. MaxRingSize
  /\ k \in 1 .. Len(ring) /\ PublicKey(x) = ring[k]
  /\ \A i \in 1 .. Len(ring) : ring[i] \in Member

\* The j-th member after the k-th, around the ring.
Around(ring, k, j) == ((k - 1 + j) % Len(ring)) + 1

\* From the signer's nonce around the decoys, whose responses are drawn, back to the signer:
\* the challenge of the j-th member after the signer.
SignersChallenges(ring, k, m, alpha, drawn) ==
  LET c[j \in 1 .. Len(ring)] ==
        IF j = 1 THEN Hash(ring, m, PublicKey(alpha))
        ELSE NextChallenge(ring, m, drawn[Around(ring, k, j - 1)], c[j - 1],
                           ring[Around(ring, k, j - 1)])
  IN  c

Sign(ring, k, x, m, alpha, drawn) ==
  LET n == Len(ring)
      c == SignersChallenges(ring, k, m, alpha, drawn)
      first == CHOOSE j \in 1 .. n : Around(ring, k, j) = 1
  IN  [c0 |-> c[first],
       s  |-> [i \in 1 .. n |-> IF i = k THEN (alpha - c[n] * x) % Q ELSE drawn[i]]]

------------------------------------------------------------------------------
(* The audit trail. *)

Record == [product : Handover, ring : Ring, ring_size : Nat, statement : Statement]

AuditorSigns(ring, k, x, m, alpha, drawn) ==
  /\ Cardinality(signatures) < MaxSignatures
  /\ MaySign(ring, k, x)
  /\ signatures' = signatures \union
       {[ring |-> ring, statement |-> m, sig |-> Sign(ring, k, x, m, alpha, drawn), by |-> x]}
  /\ UNCHANGED <<trail_on, main_halted, records, product_records>>

TrailInit ==
  /\ ~trail_on
  /\ trail_on' = TRUE
  /\ UNCHANGED <<main_halted, signatures, records, product_records>>

MainHalts ==
  /\ main_halted' = ~main_halted
  /\ UNCHANGED <<trail_on, signatures, records, product_records>>

NextRecordId == Len(records) + 1

\* Anyone may bring a signature, for any product, ring and statement.
RecordHandover(product, ring, m, sig) ==
  /\ Len(records) < MaxRecords
  /\ trail_on /\ ~main_halted
  /\ VerifyRingSignature(ring, m, sig)
  /\ records' = Append(records, [product |-> product, ring |-> ring, ring_size |-> Len(ring),
                                 statement |-> m])
  /\ product_records' = [product_records EXCEPT ![product] = Append(@, NextRecordId)]
  /\ UNCHANGED <<trail_on, main_halted, signatures>>

RingInit ==
  /\ trail_on = FALSE /\ main_halted = FALSE
  /\ signatures = {} /\ records = <<>>
  /\ product_records = [p \in Handover |-> <<>>]

RingNext ==
  \/ TrailInit \/ MainHalts
  \/ \E ring \in Ring, x \in Secret, m \in Statement, alpha \in Scalars : \E k \in 1 .. Len(ring) :
       \E drawn \in [1 .. Len(ring) -> Scalars] : AuditorSigns(ring, k, x, m, alpha, drawn)
  \/ \E p \in Handover, ring \in Ring, m \in Statement, signed \in signatures :
       RecordHandover(p, ring, m, signed.sig)

RingSpec == RingInit /\ [][RingNext]_trail_vars

------------------------------------------------------------------------------

NoDuplicates(ring) == \A i, j \in 1 .. Len(ring) : i # j => ring[i] # ring[j]

(***************************************************************************)
(* Signer and verifiers agree: what an auditor signs over a ring without   *)
(* duplicates is accepted by the contract and by the SDK, whichever member *)
(* signed and whatever was drawn; with a duplicate both refuse it; and     *)
(* the two verifiers never differ.                                         *)
(***************************************************************************)
SignedVerifies ==
  \A signed \in signatures :
    /\ VerifyRingSignature(signed.ring, signed.statement, signed.sig) = NoDuplicates(signed.ring)
    /\ \A ring \in Ring, m \in Statement :
         VerifyRingSignature(ring, m, signed.sig) = SdkVerify(ring, m, signed.sig)

(***************************************************************************)
(* No handover is on record but for a statement that a member of the very  *)
(* ring signed: a signature shown with another ring or statement is        *)
(* refused.  Ids are dealt in order, each listed once under its product.   *)
(***************************************************************************)
HandoversAttested ==
  /\ \A n \in 1 .. Len(records) :
       /\ \E signed \in signatures :
            /\ signed.ring = records[n].ring /\ signed.statement = records[n].statement
            /\ \E i \in 1 .. records[n].ring_size : signed.ring[i] = PublicKey(signed.by)
  /\ \A p \in Handover :
       product_records[p] = Kept([n \in 1 .. Len(records) |-> n],
                                 {n \in 1 .. Len(records) : records[n].product = p})
==============================================================================
