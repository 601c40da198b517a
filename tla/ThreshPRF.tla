------------------------------ MODULE ThreshPRF ------------------------------
(***************************************************************************)
(* The threshold pseudorandom function (threshprf): a dealer shares a key  *)
(* among n participants, each evaluates the function on its share of the   *)
(* key and proves that it did, and k such shares give the value.           *)
(*                                                                         *)
(* Points of the curve are written as their logarithm to its generator, so *)
(* that the group is that of the numbers below its order.  A hash is       *)
(* written as what was hashed, with any value it may have as a scalar.     *)
(***************************************************************************)
EXTENDS Integers, FiniteSetsExt, Functions

CONSTANTS
  Order,      \* p256.Params().N, a prime
  n, k,       \* participants, and shares that are needed
  Inputs,     \* bound: Hashmap_point(C), for the inputs C
  Nonces,     \* bound: the random s of Compute_share
  Challenges  \* bound: the scalars a hash may be

VARIABLES
  ra,         \* the dealer's random coefficients
  C,          \* the input, as its point
  keyFiles,   \* participant -> sec.key; ver.key follows from it
  shareFiles, \* participant -> the point in its file "share"
  prf         \* the point Compute_prf hashes

prfVars == <<ra, C, keyFiles, shareFiles, prf>>

Scalars == 0..Order - 1
Ids == 0..n - 1
NoPoint == -1

----------------------------------------------------------------------------
(* Scalars and points.                                                     *)

SumOf(f(_), S) == MapThenFoldSet(LAMBDA a, b : (a + b) % Order, 0, f,
                                 LAMBDA T : CHOOSE x \in T : TRUE, S)
ProductOf(f(_), S) == MapThenFoldSet(LAMBDA a, b : (a * b) % Order, 1, f,
                                     LAMBDA T : CHOOSE x \in T : TRUE, S)

ScalarMult(P, a) == (P * a) % Order
ScalarBaseMult(a) == ScalarMult(1, a)
AddPoints(P, R) == (P + R) % Order

\* Variant for a mutant: the sign of the y coordinate is left.
NotNegated(P) == P

Negated(P) == (-P) % Order

\* Variant for a mutant: the product is not inverted.
NotInverted(a) == a

\* ModInverse leaves what has no inverse.
ModInverse(a) ==
  IF a = 0 THEN a ELSE CHOOSE b \in Scalars : (a * b) % Order = 1

----------------------------------------------------------------------------
(* The dealer.                                                             *)

\* Variant for a mutant: i * j for i to the power of j.
Times(i, j) == (i * j) % Order

Exp(i, j) == (i^j) % Order

\* The polynomial at each participant; participant 0 holds the key itself.
Gen_key_dealer(coefficients) ==
  [i \in Ids |-> (coefficients[0]
                  + SumOf(LAMBDA j : coefficients[j] * Exp(i, j), 1..k - 1)) % Order]

\* sec.key, and ver.key.
LoadkeyFromFiles(id) == [sk |-> keyFiles[id], vk |-> ScalarBaseMult(keyFiles[id])]
LoadvkFromFiles(id) == LoadkeyFromFiles(id).vk

----------------------------------------------------------------------------
(* Shares, with the proof that share and ver.key have one logarithm.       *)

Transcript(vk, h, g, share, h_cap) ==
  [vk |-> vk, h |-> h, g |-> g, share |-> share, h_cap |-> h_cap]

Compute_share(g, key, s, c) ==
  LET share == ScalarMult(g, key.sk)
      h_in == Transcript(key.vk, ScalarBaseMult(s), g, share, ScalarMult(g, s))
  IN  [share |-> share, c |-> [hashed |-> h_in, scalar |-> c],
       z |-> (c * key.sk + s) % Order]

Verify_share(g, vk, sh) ==
  LET Commitment(base, P) ==
        AddPoints(ScalarMult(base, sh.z), Negated(ScalarMult(P, sh.c.scalar)))
  IN  sh.c.hashed = Transcript(vk, Commitment(1, vk), g, sh.share,
                               Commitment(g, sh.share))

Verify_share_node(g, nodeid, sh) == Verify_share(g, LoadvkFromFiles(nodeid), sh)

\* What participant id may compute.
SharesOf(id) ==
  { Compute_share(C, LoadkeyFromFiles(id), s, c) : s \in Nonces, c \in Challenges }

----------------------------------------------------------------------------
(* Interpolation.  idarr has k participants, in any order.                 *)

Compute_Lagrangeinter(idarr, id) ==
  [i \in 1..k |->
     LET others == 1..k \ {i}
         top == ProductOf(LAMBDA j : id - idarr[j], others)
         bottom == ProductOf(LAMBDA j : idarr[i] - idarr[j], others)
     IN  (top * ModInverse(bottom)) % Order]

\* The sum Verify_lagrange prints.
Verify_lagrange(idarr, lagrang) ==
  SumOf(LAMBDA i : ScalarMult(LoadvkFromFiles(idarr[i]), lagrang[i]), 1..k)

Compute_prf_from_shares(idarr, shares) ==
  LET lagrang == Compute_Lagrangeinter(idarr, 0)
  IN  SumOf(LAMBDA i : ScalarMult(shares[i], lagrang[i]), 1..k)

LoadshareFromFiles(id) == shareFiles[id]

Compute_prf(idarr) ==
  Compute_prf_from_shares(idarr, [i \in 1..k |-> LoadshareFromFiles(idarr[i])])

----------------------------------------------------------------------------
(* The procedure of test.go.                                               *)

\* Init_key_dealer and Store_key_dealer, before everything else.
PRFInit ==
  /\ ra \in [0..k - 1 -> Scalars]
  /\ C \in Inputs
  /\ keyFiles = Gen_key_dealer(ra)
  /\ shareFiles = [id \in Ids |-> NoPoint]
  /\ prf = NoPoint

\* Store_share replaces a share that was there.
Store_share(id, sh) == shareFiles' = [shareFiles EXCEPT ![id] = sh.share]

\* One participant's share is checked, and stored if it is right.
Participate(id) ==
  /\ prf = NoPoint
  /\ \E sh \in SharesOf(id) :
       IF Verify_share_node(C, id, sh) THEN Store_share(id, sh) ELSE UNCHANGED shareFiles
  /\ UNCHANGED <<ra, C, keyFiles, prf>>

\* A file that is missing stops the program.
Combine(idarr) ==
  /\ prf = NoPoint
  /\ \A i \in 1..k : LoadshareFromFiles(idarr[i]) # NoPoint
  /\ prf' = Compute_prf(idarr)
  /\ UNCHANGED <<ra, C, keyFiles, shareFiles>>

PRFNext ==
  \/ \E id \in Ids : Participate(id)
  \/ \E idarr \in Injection(1..k, Ids) : Combine(idarr)

PRFSpec == PRFInit /\ [][PRFNext]_prfVars

----------------------------------------------------------------------------

\* Whichever k participants answer, in whatever order, the value is that of the
\* dealer's key, which participant 0 holds: test.go prints the two for comparison.
OnePRF == prf \in {NoPoint, ScalarMult(C, keyFiles[0])}

\* The keys are those of the dealer from here on.
KeysDealt == shareFiles = [id \in Ids |-> NoPoint]

\* A share is accepted for a participant exactly when it was computed with the key
\* of that participant, whatever the nonce and the hash are.
VerifiedSharesAreRight ==
  KeysDealt => \A i, j \in Ids : \A sh \in SharesOf(j) :
    Verify_share_node(C, i, sh) <=> keyFiles[i] = keyFiles[j]

\* k keys determine the key of every participant, and k - 1 of them, participant 0
\* apart, are consistent with every key the dealer may have shared.
ThresholdIsK ==
  KeysDealt =>
    /\ \A idarr \in Injection(1..k, Ids), id \in Ids :
         Verify_lagrange(idarr, Compute_Lagrangeinter(idarr, id)) = LoadvkFromFiles(id)
    /\ \A few \in kSubset(k - 1, Ids \ {0}), secret \in Scalars :
         \E other \in { r \in [0..k - 1 -> Scalars] : r[0] = secret } :
           \A id \in few : Gen_key_dealer(other)[id] = keyFiles[id]
=============================================================================
