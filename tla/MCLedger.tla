------------------------------ MODULE MCLedger ------------------------------
(* Ledger for TLC: two cost classes, two usages, a clock of a few windows. *)
EXTENDS Ledger

MCTimes == 0 .. 4
MCCosts == {[kind |-> "metadata", tokens |-> 0],
            [kind |-> "estimated", tokens |-> 2]}
=============================================================================
