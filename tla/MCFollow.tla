------------------------------ MODULE MCFollow ------------------------------
(***************************************************************************)
(* Follow on small instances: contents for chunks of two slots.            *)
(***************************************************************************)
EXTENDS Follow

\* Received in slot order; the empty chunk has no matching message.
SortedShapes == {<<>>, <<0, 1>>}

\* Also with the second slot's message received first.
MixedShapes == {<<>>, <<0, 1>>, <<1, 0>>}

\* Two streams whose chunks land in any order, and a longer single one.
TwoStreams ==
  [streams |-> {1, 2}, subscribed |-> {1, 2}, indices |-> {0, 1},
   shapes |-> SortedShapes, landInOrder |-> FALSE]

OneStream ==
  [streams |-> {1}, subscribed |-> {1}, indices |-> {0, 1, 2},
   shapes |-> MixedShapes, landInOrder |-> TRUE]

BothScenarios == {TwoStreams, OneStream}

\* One chunk of each of two streams.
TwoChunks == {[TwoStreams EXCEPT !.indices = {0}, !.landInOrder = TRUE]}
=============================================================================
