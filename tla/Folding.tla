-------------------------------- MODULE Folding --------------------------------
(***************************************************************************)
(* A loop that passes a value from one element of a sequence to the next.  *)
(* Step(context, value, element) is its body; the context is what the body *)
(* reads and the loop leaves alone.                                        *)
(***************************************************************************)
EXTENDS Integers, Sequences

CONSTANT Step(_, _, _)

(* The value after each number of rounds. *)
Rounds(context, value, sequence) ==
  LET after[n \in Nat] == IF n = 0 THEN value
                          ELSE Step(context, after[n - 1], sequence[n])
  IN after

Fold(context, value, sequence) == Rounds(context, value, sequence)[Len(sequence)]

=============================================================================
