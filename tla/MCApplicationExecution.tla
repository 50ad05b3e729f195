----------------------- MODULE MCApplicationExecution -----------------------
EXTENDS ApplicationExecution

CONSTANTS f1, f2, f3
OnePage == <<{f1, f2, f3}>>
TwoPages == <<{f1, f3}, {f2}>>
AllFields == {f1, f2, f3}
Hinted == {f1, f2}
=============================================================================
