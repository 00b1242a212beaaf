----------------------------- MODULE MCScoring ------------------------------
(***************************************************************************)
(* Scoring for TLC.  One turn has any text of up to two phrases, or a      *)
(* longer one: abbreviations and initials, runs of terminators, and        *)
(* terminators with a blank, a line break or nothing after them, and a     *)
(* no-break space before an abbreviation.  The other turn repeats part of  *)
(* it.                                                                     *)
(***************************************************************************)
EXTENDS Scoring

NL == "\n"
NBSP == "nbsp"
MCToken == {"a", "b", "Mr", "J", " ", NL, NBSP, ".", "?"}
MCBlank == {" ", NL, NBSP}
MCGap == {" ", NL}
MCMark == {".", "?"}
MCHeld == {<<"Mr">>, <<"J">>}

Phrase == {<<"a", ".">>, <<"b", "?", ".", " ">>, <<"Mr", ".", " ">>, <<"a", ".", NL>>, <<"b">>,
           <<" ", ".">>}

Long == {
    <<"a", ".", " ", "b", "?", " ", "Mr", ".", " ", "a", ".", NL, "b">>,
    <<"J", ".", "J", ".", " ", "a", "?", ".", "b", ".", " ", "a", ".">>,
    <<"a", ".", " ", "a", ".", " ", "b">>,
    <<"b", NBSP, "Mr", ".", " ", "a", ".">>}

Texts == ({TrimSpace(p \o q) : p, q \in Phrase \union {<<>>}} \union Long) \ {<<>>}

MCCorpora == {<<t, <<"a", ".", " ", "b">> >> : t \in Texts}
MCSettings == {[window |-> 2, stride |-> 1], [window |-> 0, stride |-> 3]}
=============================================================================
