------------------------------- MODULE MCInput -------------------------------
(* Small input groups for TLC: five columns, two pairs of which share a block. *)
EXTENDS InputRows

MCColumns == <<"Int32", "Numeric", "String", "Int32", "Timestamp">>

Int32(n)  == Value("Int32", n)
Dec(u, s) == Value("Numeric", <<u, s>>)
Text(n)   == Value("String", n)
Null      == NullValue

A == <<Int32(1), Dec(5, 0),  Text(3), Null,   Null>>
B == <<Null,   Dec(-5, 2), Text(2), Int32(4), Null>>
C == <<Int32(2), Dec(9, 0),  Null,    Int32(3), Value("Timestamp", <<-1, 1000000>>)>>

Batch(rows, numbers, bad) == [rows |-> rows, numbers |-> numbers, bad |-> bad]

\* bad: the first text of the string block that is not UTF-8.
MCBatches ==
  {Batch(<<>>, <<>>, 0), Batch(<<A>>, <<7>>, 0), Batch(<<B, C>>, <<3, 4>>, 0),
   Batch(<<C, A, B>>, <<5, 6, 7>>, 0), Batch(<<A, C>>, <<>>, 0),
   Batch(<<B>>, <<9>>, 1), Batch(<<C, A>>, <<1, 2>>, 1)}

\* What BatchesDecode proves of every batch, on these.
ASSUME InputDecodes == DecodesFaithfully
=============================================================================
