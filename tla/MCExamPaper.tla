----------------------------- MODULE MCExamPaper -----------------------------
(* Three questions that may stand in a bank, of two and of three choices, and *)
(* one whose choices differ in nothing but a blank.                        *)
EXTENDS ExamPaper, TLC

CONSTANTS yes, no, maybe, yes_blank

Trimmed(text) == IF text = yes_blank THEN yes ELSE text

Candidates ==
    {[prompt |-> "first", choices |-> <<yes, no>>, correct |-> 2],
     [prompt |-> "second", choices |-> <<no, yes, maybe>>, correct |-> 2],
     [prompt |-> "second", choices |-> <<yes_blank, no>>, correct |-> 1],
     [prompt |-> "third", choices |-> <<yes, yes_blank>>, correct |-> 1]}
=============================================================================
