--------------------------- MODULE ExportFolders ---------------------------
(***************************************************************************)
(* A small instance of the export command: two folders, one of them with a *)
(* shot of a raw file and a companion, exported into one of them or into a *)
(* third, on a file system that ignores case.                              *)
(***************************************************************************)
EXTENDS Naturals

Card == "d/card.jpg"

MCNames == {"d/Shot.raw", "d/Shot.JPG", "d/shot.jpg", "e/Shot.raw", Card, "o/shot.jpg",
            "o/card.jpg"}

MCFileOf == [name \in MCNames |-> IF name = "d/Shot.JPG" THEN "d/shot.jpg" ELSE name]

MCFolders == {"d", "e"}

MCShots ==
    [folder \in MCFolders |->
        IF folder = "d"
        THEN <<[primary |-> "d/Shot.raw", companions |-> {"d/Shot.JPG"}],
               [primary |-> Card, companions |-> {}]>>
        ELSE <<[primary |-> "e/Shot.raw", companions |-> {}]>>]

(* The card's name is kept, the raw files' extension is not. *)
MCDestination ==
    [folder \in {"d", "o"} |->
        [input \in {"d/Shot.raw", "e/Shot.raw", Card} |->
            IF folder = "d" THEN IF input = Card THEN Card ELSE "d/shot.jpg"
                            ELSE IF input = Card THEN "o/card.jpg" ELSE "o/shot.jpg"]]

MCCommandLines ==
    UNION {[1 .. n -> {"d/Shot.raw", "e/Shot.raw", Card} \cup MCFolders] : n \in 1 .. 2}
=============================================================================
