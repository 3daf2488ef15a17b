--------------------------- MODULE MCWalletEngine ---------------------------
(* Up to four bars: orders that can be taken for each other, and a sale. *)
EXTENDS WalletEngine
=============================================================================
