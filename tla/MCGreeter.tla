----------------------------- MODULE MCGreeter -----------------------------
(* The greeter with one or two accounts and two attempts.                  *)
EXTENDS Greeter, TLC

CONSTANTS alice, bob

TwoUsers == {alice, bob}
=============================================================================
