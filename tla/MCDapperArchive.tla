-------------------------- MODULE MCDapperArchive --------------------------
(***************************************************************************)
(* Instances of DapperArchive for TLC.                                     *)
(***************************************************************************)
EXTENDS DapperArchive, TLC

CONSTANTS b1, b2, fa, fb

R(k, f, t) == [key |-> k, field |-> f, time |-> t]

OneMonth == [t \in Times |-> 1]
TwoMonths == [t \in Times |-> t + 1]

\* Two keys in one file each; all fields of a time come in one batch.
AlignedRows == (b1 :> {R(1, fa, 0), R(1, fb, 0)} @@ b2 :> {R(1, fa, 1), R(2, fa, 0)})

\* Key 1 has rows of both times in one batch, key 2 in another.
SpreadRows == (b1 :> {R(1, fa, 0), R(1, fa, 1)} @@ b2 :> {R(2, fa, 0), R(2, fa, 1)})

\* One row now, one later.
LateRow == (b1 :> {R(1, fa, 0)} @@ b2 :> {R(1, fa, 1)})

\* A key that a batch splits in the middle of a time, once its file has both
\* columns.
SplitRows == (b1 :> {R(2, fa, 0), R(2, fb, 0)}
              @@ b2 :> {R(1, fa, 1), R(2, fa, 1), R(2, fb, 1)})

\* The second field of a time comes after the first, and after a row that
\* has both columns.
LateField == (b1 :> {R(1, fa, 0), R(1, fb, 1)} @@ b2 :> {R(1, fb, 0)})

\* The same, and a second key.
MixedRows == (b1 :> {R(1, fa, 0), R(2, fa, 0)} @@ b2 :> {R(1, fb, 0)})
=============================================================================
