------------------------------ MODULE MCOutbox ------------------------------
(* Three events, one of them an extension's, which blocks whatever is committed *)
(* after it.                                                                    *)
EXTENDS Outbox

CONSTANTS e1, e2, x1

WithExt == {e1, e2, x1}
OneExt == {x1}
=============================================================================
