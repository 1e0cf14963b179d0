--------------------------- MODULE MCStaticDriver ---------------------------
(* Names of every kind the code tells apart: with the right, another and no *)
(* extension, too short for one, and with a dot in a directory's name only. *)
EXTENDS StaticDriver

MCOutputNames ==
  { <<"module", ".bc">>, <<"module", ".ll">>, <<"module", ".json">>, <<"module">>,
    <<"m">>, <<"m", ".ll">>, <<"out", ".dir", "/module">>,
    <<"out", ".dir", "/module", ".bc">> }

MCDotted == {".bc", ".ll", ".json", ".dir"}
MCSlashed == {"/module"}

MCPieceLength ==
  [piece \in MCDotted \cup MCSlashed \cup {"m", "out", "module"} |->
     CASE piece = "m" -> 1
       [] piece \in {".bc", ".ll", "out"} -> 3
       [] piece = ".dir" -> 4
       [] piece = ".json" -> 5
       [] piece = "module" -> 6
       [] OTHER -> 7]
=============================================================================
