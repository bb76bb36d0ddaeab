--------------------------- MODULE MCNearbyCache ---------------------------
(* Small instances of NearbyCache for TLC: a public mystery of u1 nearest,  *)
(* then a private message of u2.                                            *)
EXTENDS NearbyCache

CONSTANTS u1, u2

MCAuthor == [m \in Messages |-> IF m = 1 THEN u1 ELSE u2]
MCPrefix == [u \in Users |-> u]
\* Two users whose ids begin with the same eight characters.
MCSharedPrefix == [u \in Users |-> u1]
MCKind == [m \in Messages |-> CASE m = 1 -> "mystery" [] m = 2 -> "capsule" [] OTHER -> "standard"]
MCVisibility == [m \in Messages |-> IF m = 1 THEN "public" ELSE "private"]
=============================================================================
