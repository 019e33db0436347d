------------------------------ MODULE MCPlayer ------------------------------
(* Instances of Player for TLC.                                            *)
EXTENDS Player

\* Three streams of the publisher, one of them audio, and one of another node.
FourAnnouncements ==
    <<[stream |-> 1, sender |-> "publisher", audio |-> FALSE],
      [stream |-> 2, sender |-> "other",     audio |-> TRUE],
      [stream |-> 3, sender |-> "publisher", audio |-> TRUE],
      [stream |-> 4, sender |-> "publisher", audio |-> FALSE]>>
=============================================================================
