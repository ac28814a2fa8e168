---------------------------- MODULE MCAnswerRelay ----------------------------
(* Instances of AnswerRelay for TLC: usages with everything, with a cached *)
(* prompt and a five-minute write, with reads but no writes, and without   *)
(* any cache (the only one a translated answer can have).                  *)
EXTENDS AnswerRelay

MCUsages == { [fresh |-> 2, read |-> 1, w5 |-> 1, w1 |-> 1, out |-> 2],
              [fresh |-> 0, read |-> 2, w5 |-> 1, w1 |-> 0, out |-> 2],
              [fresh |-> 2, read |-> 1, w5 |-> 0, w1 |-> 0, out |-> 2],
              [fresh |-> 2, read |-> 0, w5 |-> 0, w1 |-> 0, out |-> 2] }
MCPrice == [input |-> 4, cached |-> 1, output |-> 11]

=============================================================================
