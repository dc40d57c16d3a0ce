-------------------------- MODULE MCDistributeWork --------------------------
(* Instances of DistributeWork and Apps for TLC: all jobs of up to MaxFiles    *)
(* files of up to MaxLines lines of the first two kinds, of one file of up to  *)
(* MaxLines lines of any kind, and of two files of up to two lines of any kind.*)
EXTENDS Apps

CONSTANTS MaxFiles, MaxLines

\* Two numbers of one key, one of another, a word and a blank as metric, and a
\* line without metric.
Rows == <<Row(TRUE, "a", Number(1), <<"a">>),
          Row(TRUE, "a", Number(-2), <<"a">>),
          Row(TRUE, "b", Number(3), <<"b">>),
          Row(TRUE, "a", Word, <<"a", "x">>),
          Row(TRUE, "b", Blank, <<"b">>),
          Row(FALSE, "b", Blank, <<"b">>)>>

AnyLine == DOMAIN Rows

SmallInputs ==
  BoundedSeq(BoundedSeq({1, 2}, MaxLines), MaxFiles)
    \cup {<<file>> : file \in BoundedSeq(AnyLine, MaxLines)}
    \cup BoundedSeq(BoundedSeq(AnyLine, 2), 2)
=============================================================================
