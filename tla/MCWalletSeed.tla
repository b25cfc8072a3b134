---------------------------- MODULE MCWalletSeed ----------------------------
(* WalletSeed on a small instance: accounts, coins and NVM contents are    *)
(* model values; the bound on the power losses is in the .cfg files.       *)
EXTENDS WalletSeed, TLC

\* Accounts are only compared, and so are coins.
Symm == Permutations(Ids) \cup Permutations(Coins)
=============================================================================
