-------------------------- MODULE MCWalletService --------------------------
(***************************************************************************)
(* WalletService for TLC.  uint32 has four values, two of them hardened;   *)
(* int64 runs from -8 to 7.  The inputs hold a negative index, one that is *)
(* cut to the next one's key, and the last int64, after which it wraps.    *)
(***************************************************************************)
EXTENDS WalletService

CONSTANTS w1, t1, t2

OneWallet == {w1}
AccountsIn == {-1, 0, 4}
ChangesIn == {-4, 0}
LastIn == {-1, 3, 7}
CountsIn == {1, 2}
White == {t1}
Black == {t2}

Key(index) == [wallet |-> w1, index |-> index]
Item(path, index, ecdsa) == [path |-> path, pub |-> Key(index), ecdsa |-> ecdsa]

\* An address as CreateAddress hands it out; another; one whose path does not parse;
\* one of another key; a hardened one; one of another curve.
First    == Item(<<0, 0, 0>>, <<0, 0, 0>>, TRUE)
Second   == Item(<<0, 0, 1>>, <<0, 0, 1>>, TRUE)
TooLarge == Item(<<0, 0, 4>>, <<0, 0, 0>>, TRUE)
Foreign  == Item(<<0, 0, 1>>, <<0, 0, 0>>, TRUE)
Hard     == Item(<<0, 0, 2>>, <<0, 0, 2>>, TRUE)
Other    == Item(<<0, 0, 0>>, <<0, 0, 0>>, FALSE)

Tx(type, to, items) == [wallet |-> w1, type |-> type, to |-> to, items |-> items]

TxsIn ==
    {Tx(0, {t1}, {First, Second}), Tx(0, {t1}, {First, Foreign}), Tx(1, {t1}, {First, TooLarge}),
     Tx(1, {t2}, {First}), Tx(0, {t2}, {First}), Tx(1, {t1}, {Hard}), Tx(0, {}, {First, Other})}
=============================================================================
