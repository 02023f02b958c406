--------------------------- MODULE MCRequestTarget ---------------------------
EXTENDS RequestTarget

a == <<97>>
d == <<100>>
s == <<115>>
w == <<119>>
MCPathPieces == {a, d, w, <<Slash>>, <<Dot>>, <<Dot, Dot>>, <<Percent>>, <<Percent, 54, 49>>,
                 <<Percent, 48, 48>>, <<Percent, 50, 53>>, <<Percent, 51, 70>>}   \* a, NUL, %, ?
MCQueryPieces == {s, <<Ampersand>>, <<Equals>>, <<Plus>>, <<Percent>>, <<Question>>,
                  <<Percent, 50, 54>>, <<Percent, 50, 98>>}                       \* & and +
MCStarts == {<<Slash>>, <<Slash>> \o d \o <<Slash>>, <<Slash, Dot, Dot, Slash>>,
             a \o <<Question>>, <<Question>> \o s \o <<Equals>>}
MCDirs == {<<>>, <<w>>, <<w, d>>}
MCFiles == {<<a>>, <<w, a>>, <<w, Index>>, <<w, d, a>>}
MCRoot == <<w>>
MCRoutes == [method \in Methods |-> IF method = "POST" THEN {<<Slash>> \o a} ELSE {}]
MCForwarded == <<s, a>>
=============================================================================
