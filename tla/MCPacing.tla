------------------------------ MODULE MCPacing ------------------------------
(***************************************************************************)
(* Pacing on small recordings.                                             *)
(***************************************************************************)
EXTENDS Pacing

Rec(first, last, created) == [first |-> first, last |-> last, sealed |-> last, created |-> created]

\* Regular stamps; stamps from the metadata alone; a negative created_at, one
\* that goes back, and a chunk without receive times.
SmallRecordings ==
  { << Rec(1, 3, <<1, 3>>), Rec(4, 6, <<4, 6>>) >>,
    << Rec(1, 4, <<None, None, None>>), Rec(7, 8, <<None>>) >>,
    << Rec(2, 4, <<2, 4, 3>>), [first |-> None, last |-> None, sealed |-> 8, created |-> <<-1, 7>>] >> }

SmallHeaders == {NoHeader, Garbage, NotANumber, -5, 5, 20}
NoHeaders == {NoHeader}

\* Ticks of ten seconds: a chunk of 1000 slots takes 40, and a client starts
\* with the newest one.
HeadRecordings == { << Rec(0, 40, <<0, 20, 39>>), Rec(40, 80, <<40, 60, 79>>) >> }
=============================================================================
