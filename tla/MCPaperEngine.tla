---------------------------- MODULE MCPaperEngine ----------------------------
(* Days of two, three and one bars with one entry each.  A buy at 2 and a    *)
(* sale at 1 lose the limit of a day, two of them all the cash; the middle  *)
(* day has time for a purchase, a sale and a clock that is set back.        *)
EXTENDS PaperEngine
=============================================================================
