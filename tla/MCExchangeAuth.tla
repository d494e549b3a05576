--------------------------- MODULE MCExchangeAuth ---------------------------
(* A small instance of ExchangeAuth for TLC. *)
EXTENDS ExchangeAuth, TLC

\* Passwords are told apart only by equality.
AuthSymmetry == Permutations(Passwords)
=============================================================================
