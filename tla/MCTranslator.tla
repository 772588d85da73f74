---------------------------- MODULE MCTranslator ----------------------------
(* Small instances of Translator.                                         *)
EXTENDS TranslatorInv

CONSTANTS select, show, bad,   \* statements; bad cannot be translated
          selectText, showText

MCTranslateSQL ==
    [s \in SQLs |-> CASE s = select -> selectText [] s = show -> showText [] s = bad -> Failed]
=============================================================================
