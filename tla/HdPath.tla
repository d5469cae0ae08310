------------------------------- MODULE HdPath -------------------------------
(***************************************************************************)
(* The indices of accounts and addresses: int64 in the requests and in the *)
(* path that CreateAddress hands out, cut to uint32 for the derivation,    *)
(* parsed as uint32 by ParseMPCPath (app/cli_service.go, app/utils.go,     *)
(* mpc/alg_ecdsa/account_derive.go).  A path's text is represented by the  *)
(* numbers it spells; the public key derived from a wallet's root is       *)
(* represented by the indices that go into the derivation.                 *)
(***************************************************************************)
EXTENDS Integers, Sequences

CONSTANTS U,   \* the number of uint32 values (2^32 in the code)
          I    \* half the number of int64 values (2^63 in the code)

ASSUME WidthAssumption == U \in Nat \ {0} /\ I \in Nat /\ U <= I

Int64 == -I .. I - 1

\* Mutant of Plus: numbers without a limit.
PlusUnbounded(x, y) == x + y

\* int64 addition of a non-negative number.
Plus(x, y) == IF x + y < I THEN x + y ELSE x + y - 2 * I

\* uint32(x)
Cut(x) == x % U

\* ckd.DeriveChildKeyFromHierarchy refuses hardened indices: a public parent has
\* no hardened children.
Derivable(path) == \A k \in DOMAIN path : Cut(path[k]) < U \div 2

\* DeriveMPCAccountFromRootPubHex, DeriveMPCAddressPubFromRootPubHex.
Derive(path) == [k \in DOMAIN path |-> Cut(path[k])]

NoIndex == -1

\* strconv.ParseUint(s, 10, 32) refuses a sign and what does not fit.
ParseUint(x) == IF x \in 0 .. U - 1 THEN x ELSE NoIndex

\* Mutant of ParseMPCPath: parsed as 64 bits and cut, as CreateAddress does.
ParseAndCut(path) == [k \in DOMAIN path |-> Cut(path[k])]

\* m/0/accountIndex/change/addressIndex; m/0/accountIndex, an account's path, is refused.
ParseMPCPath(path) == [k \in DOMAIN path |-> ParseUint(path[k])]

Parses(path) == Len(path) = 3 /\ \A k \in DOMAIN path : ParseMPCPath(path)[k] # NoIndex
=============================================================================
