------------------------------ MODULE MCUsages ------------------------------
(* A keyboard of nine keys, two of which are the same, and a sequence that   *)
(* presses a modifier and then the modifier and a key (layers.c:372).        *)
EXTENDS Usages

CONSTANTS a, b, c, ctrl, p, q, ka, kb, kb2, kc, kctrl, kleft, kright, kp, kq

MCUsageOf ==
  [k \in Keys |-> CASE k = ka -> a [] k = kb -> b [] k = kb2 -> b [] k = kc -> c
                    [] k = kctrl -> ctrl [] k = kleft -> LeftShift
                    [] k = kright -> RightShift [] k = kp -> p [] k = kq -> q]

MCSteps == {<<>>, <<LeftShift>>, <<LeftShift, a>>, <<ctrl, a>>}
=============================================================================
