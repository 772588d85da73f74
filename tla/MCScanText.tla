----------------------------- MODULE MCScanText -----------------------------
(* Short texts over the symbols that a scanner reacts to.                  *)
EXTENDS ScanText

MCSymbols == QuoteMarks \cup {"word", "backslash", "(", ")", ",", "#", "newline", "/*"}
=============================================================================
