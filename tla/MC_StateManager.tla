--------------------------- MODULE MC_StateManager ---------------------------
(***************************************************************************)
(* Two states in order, sA (two objects, e.g. a ConfigMap and the          *)
(* DaemonSet mounting it) and sB (one DaemonSet).  Three custom-resource   *)
(* specs: c1 enables both, c2 drops a1 from sA and disables sB, c3 makes   *)
(* sA's templates fail to render and sB render an empty set.               *)
(***************************************************************************)
EXTENDS StateManager

CONSTANTS sA, sB, a1, a2, b1, c1, c2, c3

MCStateOrder == <<sA, sB>>
MCOwner == [o \in {a1, a2, b1} |-> IF o = b1 THEN sB ELSE sA]

On(objs) == [enabled |-> TRUE, renderOk |-> TRUE, objs |-> objs]
Off == [enabled |-> FALSE, renderOk |-> TRUE, objs |-> <<>>]
Broken == [enabled |-> TRUE, renderOk |-> FALSE, objs |-> <<>>]

\* Specs every state can converge on.
MCRendering ==
    [s \in {sA, sB} |->
        [c \in {c1, c2} |->
            CASE s = sA /\ c = c1 -> On(<<a1, a2>>)
              [] s = sA /\ c = c2 -> On(<<a2>>)
              [] s = sB /\ c = c1 -> On(<<b1>>)
              [] s = sB /\ c = c2 -> Off]]

\* The same, plus c3 where sA fails to render and sB renders nothing.
MCRenderingFaulty ==
    [s \in {sA, sB} |->
        [c \in {c1, c2, c3} |->
            IF c = c3 THEN (IF s = sA THEN Broken ELSE On(<<>>))
                      ELSE MCRendering[s][c]]]
\* c1 and c2, plus c3 where sA renders as in c1 and sB, still enabled,
\* renders no object at all.
MCRenderingEmpty ==
    [s \in {sA, sB} |->
        [c \in {c1, c2, c3} |->
            IF c = c3 THEN (IF s = sA THEN On(<<a1, a2>>) ELSE On(<<>>))
                      ELSE MCRendering[s][c]]]

=============================================================================
