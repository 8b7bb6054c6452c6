------------------------------ MODULE Detectors -------------------------------
(* The PII detectors (redaction/detectors.py) and one substitution by one of  *)
(* them (redaction/redactor.py), on texts as sequences of characters. What    *)
(* the patterns cannot tell apart is one character here: "1" is any digit,    *)
(* "a" any other word character, "," any character that no pattern mentions,  *)
(* and the label of a token, `EMAIL_` for instance, is a word character, too. *)
EXTENDS Integers, SequencesExt

Kinds == {"EMAIL_", "CREDIT_CARD_", "PHONE_"}

Word == {"1", "a"} \cup Kinds

(* Operators named Bad... are the mistakes the mutation runs make: each is put *)
(* in place of the definition that follows it, and nothing else uses them.    *)

(* "Earlier detectors win on overlapping matches".                            *)
BadOrder == <<"EMAIL_", "PHONE_", "CREDIT_CARD_">>
DETECTORS == <<"EMAIL_", "CREDIT_CARD_", "PHONE_">>

At(t, i) == IF i \in 1..Len(t) THEN t[i] ELSE ""

Occurs(s, t, i) == i + Len(s) - 1 <= Len(t) /\ SubSeq(t, i, i + Len(s) - 1) = s

(* Where the longest run of characters of S that starts at i ends.            *)
RunEnd(t, i, S) ==
    CHOOSE e \in i - 1 .. Len(t) :
        /\ \A k \in i..e : t[k] \in S
        /\ At(t, e + 1) \notin S

DigitsIn(t, i, j) == Cardinality({k \in i..j : At(t, k) = "1"})

(* Each of the next three is the end of the pattern's match at i, or 0.       *)

(* [\w.+-]+@[\w-]+\.[\w.-]+                                                   *)
EmailEnd(t, i) ==
    LET at == RunEnd(t, i, Word \cup {".", "+", "-"}) + 1
        dot == RunEnd(t, at + 1, Word \cup {"-"}) + 1
        end == RunEnd(t, dot + 1, Word \cup {".", "-"})
    IN  IF i < at /\ At(t, at) = "@" /\ at + 1 < dot /\ At(t, dot) = "." /\ dot < end
        THEN end ELSE 0

(* \b(?:\d[ -]*?){13,16}\b, which goes no further than the first digit from   *)
(* the thirteenth on that ends a word.                                        *)
CardEnd(t, i) ==
    LET ends == {e \in i .. RunEnd(t, i, {"1", " ", "-"}) :
                    /\ t[e] = "1"
                    /\ DigitsIn(t, i, e) \in 13..16
                    /\ At(t, e + 1) \notin Word}
    IN  IF At(t, i) = "1" /\ At(t, i - 1) \notin Word /\ ends # {} THEN Min(ends) ELSE 0

Date == <<"1", "1", "1", "1", "-", "1", "1", "-", "1", "1">>

DateAt(t, i) == Occurs(Date, t, i)

(* (?<![-\d]) and (?!_ISO_DATE), the two guards of the phone pattern.         *)
BadMayStart(t, i) == ~DateAt(t, i)
MayStart(t, i) == At(t, i - 1) \notin {"-", "1"} /\ ~DateAt(t, i)

PhoneChars == {"1", " ", "(", ")", ".", "-"}

(* \+?\d[\d\s().-]{6,}\d                                                      *)
PhoneEnd(t, i) ==
    LET first == IF At(t, i) = "+" THEN i + 1 ELSE i
        ends == {e \in first + 7 .. RunEnd(t, first, PhoneChars) : t[e] = "1"}
    IN  IF MayStart(t, i) /\ At(t, first) = "1" /\ ends # {} THEN Max(ends) ELSE 0

MatchEnd(kind, t, i) ==
    CASE kind = "EMAIL_" -> EmailEnd(t, i)
      [] kind = "CREDIT_CARD_" -> CardEnd(t, i)
      [] kind = "PHONE_" -> PhoneEnd(t, i)

(* The matches re.sub replaces: from the left, without overlaps.              *)
Matches(kind, t) ==
    LET from[i \in 1 .. Len(t) + 1] ==
            IF i > Len(t) THEN {}
            ELSE LET end == MatchEnd(kind, t, i)
                 IN  IF end = 0 THEN from[i + 1]
                     ELSE {[first |-> i, last |-> end]} \cup from[end + 1]
    IN  from[1]

(* _token. Eight hexadecimal digits of a hash are all decimal digits for one  *)
(* value in forty-three; "a" stands for all the others.                       *)
Hash(decimal) == IF decimal THEN [i \in 1..8 |-> "1"] ELSE <<"a">>

Token(kind, decimal) == <<"<", kind>> \o Hash(decimal) \o <<">">>

(* pattern.sub with _sub: the matches in decimal get a hash without letters.  *)
Substitute(kind, t, decimal) ==
    LET ms == Matches(kind, t)
        put(i) == LET m == CHOOSE x \in ms : i \in x.first .. x.last
                  IN  IF i = m.first THEN Token(kind, m \in decimal) ELSE <<>>
    IN  FlattenSeq([i \in 1..Len(t) |->
            IF \E m \in ms : i \in m.first .. m.last THEN put(i) ELSE <<t[i]>>])

(* What the diff's _TOKEN_RE finds (and not: a text that is nothing else).    *)
BadTokenAt(t, i) == i = 1 /\ At(t, i) = "<" /\ At(t, Len(t)) = ">"

TokenAt(t, i) ==
    \E kind \in Kinds, decimal \in BOOLEAN : Occurs(Token(kind, decimal), t, i)
==============================================================================
