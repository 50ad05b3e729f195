------------------------ MODULE MCLegacyApplication ------------------------
EXTENDS LegacyApplication, TLC

CONSTANTS c1, c2

Symmetric == Permutations(Calls)

Known(kind, hinted) == [kind |-> kind, hinted |-> hinted]
MCForms == {<<Known("plain", TRUE), Known("semantic", TRUE)>>,
            <<Known("upload", TRUE), Known("asked", FALSE)>>,
            <<Known("reviewed", TRUE), Known("legal", TRUE)>>}
=============================================================================
