--------------------------- MODULE MCFeedContents ---------------------------
(***************************************************************************)
(* Three events in the shapes that matter: a chain, two replies to one     *)
(* post, a reply with two tags whose first is the post or the reply, two   *)
(* posts with a reply, and a post that quotes another one with a reply.    *)
(***************************************************************************)
EXTENDS FeedContents

Shape(refs2, refs3, up3, quotes2) ==
  [refs |-> <<{}, refs2, refs3>>,
   up |-> <<1, IF refs2 = {} THEN 2 ELSE 1, up3>>,
   quotes |-> <<{}, quotes2, {}>>]

MCShapes == {Shape({1}, {2}, 2, {}), Shape({1}, {1}, 1, {}), Shape({1}, {1, 2}, 1, {}),
             Shape({1}, {1, 2}, 2, {}), Shape({}, {2}, 2, {}), Shape({}, {1}, 1, {1})}

MCActions == {[id |-> 1, thread |-> TRUE], [id |-> 2, thread |-> FALSE]}
=============================================================================
