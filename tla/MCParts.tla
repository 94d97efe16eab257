-------------------------------- MODULE MCParts -------------------------------
(* A small instance of each part.                                          *)
EXTENDS Parts, TLC

CONSTANTS ann, bob, cyd, art, a1, a2, h1, x, y, colon

(* Follows that may exist, authors of the one article (of another one for   *)
(* the reputations, which take the owner's), and what the screens print.    *)
SomeEdges == {<<ann, bob>>, <<bob, cyd>>, <<ann, cyd>>}
OtherAuthors == art :> {bob, cyd}
OwnAuthors == art :> {ann}
SeedPeers == <<h1>>
ScreenText == (a1 :> <<x, colon>>) @@ (a2 :> <<y>>) @@ (ann :> <<x, colon>>) @@ (bob :> <<x, y>>)
=============================================================================
