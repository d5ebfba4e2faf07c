---------------------------- MODULE MCRepository ----------------------------
(***************************************************************************)
(* Model checking of Repository: version 1 of a is built by both           *)
(* repositories, version 2 by the main one, twice.  The main repository    *)
(* signs its index and has two URLs; of its documents the `damaged` copy   *)
(* of `new` is not signed.  The other is unsigned, of lower priority, and  *)
(* claims a higher one in its documents.  b2r has the payload of b2 and    *)
(* another manifest; b1x is listed as a and says it is c; b3 is another    *)
(* payload under b2's manifest, listed with b2's signature.                *)
(***************************************************************************)
EXTENDS Repository, TLC

CONSTANTS a, c, k, old, new, damaged, local, broken, b1, b1x, b2, b2r, b3,
          p1, p1x, p2, p3

Holds(n, v, signer, claimed, payload) ==
    [manifest |-> [name |-> n, version |-> v, signer |-> signer, payload_sha256 |-> claimed],
     payload |-> payload]
MCArchive ==
    [b \in {b1, b1x, b2, b2r, b3} |->
       CASE b = b1          -> Holds(a, 1, None, p1, p1)
         [] b = b1x         -> Holds(c, 1, None, p1x, p1x)
         [] b \in {b2, b2r} -> Holds(a, 2, k, p2, p2)
         [] b = b3          -> Holds(a, 2, k, p2, p3)]

SigOver(x) == [by |-> k, over |-> x]
MCSignature == {SigOver(x) : x \in {old, new, p2}}
Lists(v, b, sig) == {[name |-> a, version |-> v, build |-> b, sig |-> sig, priority |-> 9]}
MCListing ==
    [d \in {old, new, damaged, local, broken} |->
       CASE d = old     -> Lists(1, b1, None)
         [] d = new     -> Lists(2, b2, SigOver(p2))
         [] d = damaged -> Lists(2, b2, None)
         [] d = local   -> Lists(1, b1x, None) \cup Lists(2, b2r, SigOver(p2))
                                               \cup Lists(2, b3, SigOver(p2))
         [] d = broken  -> Unreadable]
MCRepositories == <<[urls |-> 2, signer |-> k, priority |-> 1],
                    [urls |-> 1, signer |-> None, priority |-> 0]>>
MCOffers == <<{old, new, damaged}, {local, broken}>>

Interchangeable == Permutations(Proc)
=============================================================================
