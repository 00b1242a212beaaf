------------------------------ MODULE Chunker -------------------------------
(***************************************************************************)
(* How a message becomes chunks: its sentences, and a window that slides   *)
(* over them (internal/chunker/chunker.go).                                *)
(*                                                                         *)
(* A text is a sequence of tokens: blanks, terminators, and whatever words *)
(* are made of.  Of words only those matter that a full stop may follow    *)
(* without ending the sentence.                                            *)
(***************************************************************************)
EXTENDS Integers, Sequences, FiniteSetsExt, SequencesExt

CONSTANTS
    Token,
    Blank,  \* unicode.IsSpace
    Gap,    \* those of them that lastWord splits at: space, tab, CR and LF
    Mark,   \* terminators; "." is one
    Held    \* words: commonAbbreviations, and single capital letters

ASSUME ChunkerAssumption == " " \in Gap /\ Gap \subseteq Blank /\ Blank \subseteq Token

Ink(s) == {i \in DOMAIN s : s[i] \notin Blank}

(* strings.TrimSpace                                                       *)
TrimSpace(s) == IF Ink(s) = {} THEN <<>> ELSE SubSeq(s, Min(Ink(s)), Max(Ink(s)))

(* strings.Contains                                                        *)
Within(s, text) ==
    \E i \in 0..(Len(text) - Len(s)) : SubSeq(text, i + 1, i + Len(s)) = s

-----------------------------------------------------------------------------
(* SplitSentences.  The buffer holds s from index from on.                 *)

LastWord(s) ==
    LET gaps == {i \in DOMAIN s : s[i] \in Gap}
    IN  IF gaps = {} THEN s ELSE SubSeq(s, Max(gaps) + 1, Len(s))

(* The terminators up to index e.                                          *)
RunOfMarks(s, from, e) == {b \in from..e : \A i \in b..e : s[i] \in Mark}

(* A run of terminators ends the sentence, unless its first is a full stop *)
(* and the word before it is held; the last run of the text always does.   *)
Breaks(s, from) ==
    {e \in from..Len(s) :
        /\ s[e] \in Mark
        /\ e < Len(s) => s[e + 1] \notin Mark
        /\ LET first == Min(RunOfMarks(s, from, e)) IN
           \/ e = Len(s)
           \/ s[first] # "."
           \/ LastWord(SubSeq(s, from, first - 1)) \notin Held}

SentenceEnd(s, from) == Min(Breaks(s, from) \union {Len(s)})

(* Blanks between two sentences belong to neither.                         *)
NextStart(s, end) == Min({i \in Ink(s) : i > end} \union {Len(s) + 1})

(* The sentences of s from an index on.                                    *)
SentencesFrom(s) ==
    LET rest[from \in 1..(Len(s) + 1)] ==
            IF from > Len(s) THEN <<>>
            ELSE LET end == SentenceEnd(s, from)
                 IN  <<SubSeq(s, from, end)>> \o rest[NextStart(s, end)]
    IN  rest

SplitSentences(text) == SentencesFrom(TrimSpace(text))[1]

-----------------------------------------------------------------------------
(* Chunkify.                                                               *)

Window(setting) == Max({1, setting.window})

(* Fault: a stride longer than the window.                                 *)
AnyStride(setting) == Max({1, setting.stride})

Stride(setting) == Min({Max({1, setting.stride}), Window(setting)})

(* The windows over n sentences, up to the first that reaches the end.     *)
Spans(n, setting) ==
    LET start(i) == (i - 1) * Stride(setting)
        last == Min({i \in 1..n : start(i) + Window(setting) >= n})
    IN  [i \in 1..last |-> [start |-> start(i), end |-> Min({start(i) + Window(setting), n})]]

Join(sentences) ==
    FoldLeft(LAMBDA text, s : IF text = <<>> THEN s ELSE text \o <<" ">> \o s, <<>>, sentences)

Chunkify(text, setting) ==
    LET sentences == SplitSentences(text)
        spans == Spans(Len(sentences), setting)
    IN  IF sentences = <<>> THEN <<>>
        ELSE [i \in DOMAIN spans |->
                Join(SubSeq(sentences, spans[i].start + 1, spans[i].end))]
=============================================================================
