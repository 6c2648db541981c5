-------------------------------- MODULE Glob --------------------------------
(***************************************************************************)
(* MatchGlob (keytrie/pattern.go): the matcher behind MatchPattern, one    *)
(* step per iteration of its loop, checked against what a glob pattern     *)
(* means.  Characters are numbers, so that ranges have an order; the       *)
(* constants name the special ones.                                        *)
(***************************************************************************)
EXTENDS Integers, Sequences

CONSTANTS Star, Any, Open, Close, Caret, Dash, Escape,   \* * ? [ ] ^ - \
          Letters,      \* ordinary characters
          MaxText, MaxPattern

Special == {Star, Any, Open, Close, Caret, Dash, Escape}

VARIABLES s, pattern,
          si, pi,              \* 0-based, as in the code
          starIdx, matchIdx,
          result,              \* "run", "yes" or "no"
          steps                \* history: iterations so far

vars == <<s, pattern, si, pi, starIdx, matchIdx, result, steps>>

Texts(C, n) == UNION {[1 .. k -> C] : k \in 0 .. n}

Init ==
    /\ s \in Texts(Letters, MaxText) /\ pattern \in Texts(Letters \union Special, MaxPattern)
    /\ si = 0 /\ pi = 0 /\ starIdx = -1 /\ matchIdx = 0
    /\ result = "run" /\ steps = 0

At(i) == pattern[i + 1]

(* matchCharClass: characters and ranges, left to right.                   *)
MatchCharClass(b, class) ==
    LET RECURSIVE From(_)
        From(i) ==
            IF i > Len(class) THEN FALSE
            ELSE IF i + 2 <= Len(class) /\ class[i + 1] = Dash
            THEN (class[i] <= b /\ b <= class[i + 2]) \/ From(i + 3)
            ELSE b = class[i] \/ From(i + 1)
    IN  From(1)

(* The class that opens at i: [from, end, negate]; end = Len(pattern) when *)
(* it is not closed.                                                       *)
ClassAt(i) ==
    LET negate == i + 1 < Len(pattern) /\ At(i + 1) = Caret
        from == IF negate THEN i + 2 ELSE i + 1
        ends == {j \in from .. Len(pattern) - 1 : At(j) = Close}
    IN  [from |-> from, negate |-> negate,
         end |-> IF ends = {} THEN Len(pattern) ELSE CHOOSE j \in ends : \A k \in ends : j <= k]

(* How much of the pattern the token at pi takes when it matches the       *)
(* current character; 0 when it does not.                                  *)
Taken ==
    LET b == s[si + 1]  c == ClassAt(pi) IN
    CASE At(pi) = Any -> 1
      [] At(pi) = Open ->
            IF c.end < Len(pattern)
               /\ MatchCharClass(b, SubSeq(pattern, c.from + 1, c.end)) # c.negate
            THEN c.end + 1 - pi ELSE 0
      [] At(pi) = Escape -> IF pi + 1 < Len(pattern) /\ b = At(pi + 1) THEN 2 ELSE 0
      [] OTHER -> IF b = At(pi) THEN 1 ELSE 0

Looping == result = "run" /\ si < Len(s) /\ steps' = steps + 1
Fixed == UNCHANGED <<s, pattern>>

(* case '*': remember where it stands and try the empty match.             *)
MeetStar ==
    /\ Looping /\ pi < Len(pattern) /\ At(pi) = Star
    /\ starIdx' = pi /\ matchIdx' = si /\ pi' = pi + 1
    /\ Fixed /\ UNCHANGED <<si, result>>

MatchOne ==
    /\ Looping /\ pi < Len(pattern) /\ At(pi) # Star /\ Taken > 0
    /\ si' = si + 1 /\ pi' = pi + Taken
    /\ Fixed /\ UNCHANGED <<starIdx, matchIdx, result>>

Mismatch == pi < Len(pattern) => At(pi) # Star /\ Taken = 0

(* A mismatch gives the last star one character more.                      *)
Backtrack ==
    /\ Looping /\ Mismatch /\ starIdx >= 0
    /\ matchIdx' = matchIdx + 1 /\ si' = matchIdx + 1 /\ pi' = starIdx + 1
    /\ Fixed /\ UNCHANGED <<starIdx, result>>

Refuse ==
    /\ Looping /\ Mismatch /\ starIdx < 0
    /\ result' = "no"
    /\ Fixed /\ UNCHANGED <<si, pi, starIdx, matchIdx>>

(* The text is used up: only stars may be left of the pattern.             *)
Finish ==
    /\ result = "run" /\ si >= Len(s)
    /\ result' = IF \A i \in pi .. Len(pattern) - 1 : At(i) = Star THEN "yes" ELSE "no"
    /\ Fixed /\ UNCHANGED <<si, pi, starIdx, matchIdx, steps>>

Next == MeetStar \/ MatchOne \/ Backtrack \/ Refuse \/ Finish

Spec == Init /\ [][Next]_vars

----------------------------------------------------------------------------
(* What a pattern means.  A token is a star or the set of characters it    *)
(* stands for; a class that is not closed and an escape at the end stand   *)
(* for none.                                                               *)
AnyText == {-1}

Tokens ==
    LET RECURSIVE From(_)
        From(i) ==
            IF i >= Len(pattern) THEN <<>>
            ELSE LET c == ClassAt(i) IN
            CASE At(i) = Star -> <<AnyText>> \o From(i + 1)
              [] At(i) = Any -> <<Letters>> \o From(i + 1)
              [] At(i) = Open /\ c.end < Len(pattern) ->
                    <<{b \in Letters : MatchCharClass(b, SubSeq(pattern, c.from + 1, c.end)) # c.negate}>>
                    \o From(c.end + 1)
              [] At(i) = Open /\ c.end = Len(pattern) -> <<{}>>
              [] At(i) = Escape -> IF i + 1 < Len(pattern) THEN <<{At(i + 1)}>> \o From(i + 2) ELSE <<{}>>
              [] OTHER -> <<{At(i)}>> \o From(i + 1)
    IN  From(0)

(* A text matches when it can be cut into one piece per token: any piece   *)
(* for a star, one of its characters for another token.                    *)
Matches ==
    \E tokens \in {Tokens} : \E cut \in [0 .. Len(tokens) -> 0 .. Len(s)] :
        /\ cut[0] = 0 /\ cut[Len(tokens)] = Len(s)
        /\ \A i \in 1 .. Len(tokens) :
              IF tokens[i] = AnyText THEN cut[i - 1] <= cut[i]
              ELSE cut[i] = cut[i - 1] + 1 /\ s[cut[i]] \in tokens[i]

(* The matcher, which goes back to its last star only, says yes to exactly *)
(* the texts that match: with classes, negation, escapes, unclosed classes *)
(* and stars anywhere (pattern.go, MatchGlob).                             *)
MatchExact == result # "run" => (result = "yes") = Matches

(* "O(n*m) ... avoids exponential backtracking": the loop runs no more     *)
(* often than there are pairs of a position in the text and one in the     *)
(* pattern (pattern.go, MatchGlob).                                        *)
StepsBounded == steps <= (Len(s) + 1) * (Len(pattern) + 1)
=============================================================================
