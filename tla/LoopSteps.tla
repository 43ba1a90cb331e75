------------------------------ MODULE LoopSteps ------------------------------
(***************************************************************************)
(* The loops and the unrolled carry chains of crypto/curve25519 as folds   *)
(* over the sequence of their indices.                                     *)
(***************************************************************************)
EXTENDS Integers, Sequences
LOCAL INSTANCE SequencesExt

UpTo(m, n) == [k \in 1..(n - m + 1) |-> m + k - 1]
DownTo(m, n) == Reverse(UpTo(n, m))

\* FoldLeft with every intermediate value bound, hence computed once.
InTurn(Step(_, _), start, seq) ==
    CHOOSE end \in {LET at[k \in 0..Len(seq)] ==
                           IF k = 0 THEN s
                           ELSE CHOOSE t \in {Step(u, seq[k]) : u \in {at[k - 1]}} : TRUE
                    IN  at[Len(seq)] : s \in {start}} : TRUE
=============================================================================
