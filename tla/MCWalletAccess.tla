---------------------------- MODULE MCWalletAccess ----------------------------
\* Finite instances of WalletAccess: two links, one with an error, and two PINs.
EXTENDS WalletAccess

CONSTANTS l1, l2, p1, p2

TwoLinks == {l1, l2}
OneErrorLink == {l2}
TwoPins == {p1, p2}
=============================================================================
