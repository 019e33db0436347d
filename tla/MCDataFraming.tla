---------------------------- MODULE MCDataFraming ----------------------------
(* Instances of DataFraming for TLC.                                       *)
EXTENDS DataFraming

\* Bodies of different sizes, one as long as its header, so that a length
\* can be taken for another.
Sizes == <<2, 3, 1>>

\* Anything, and a length that never comes.
AnyLength == 0..4
TooLong == {100}
=============================================================================
