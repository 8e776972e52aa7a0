------------------------- MODULE MCEffectScheduler -------------------------
EXTENDS EffectScheduler
CONSTANTS e1, e2, e3, root, inner
\* e1 and e3 share a zone, so that its queue has an order.
Zones == [e \in Effect |-> IF e = e2 THEN inner ELSE root]
=============================================================================
