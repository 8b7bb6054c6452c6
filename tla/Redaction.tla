------------------------------ MODULE Redaction -------------------------------
(* redact_text (redaction/redactor.py): a text is passed through the three    *)
(* detectors in turn, each of which sees the tokens of those before it. It is *)
(* done when a span is written, and again when a replayed model, which was    *)
(* shown the result, repeats it: so a text goes through several passes.       *)
EXTENDS Detectors

CONSTANTS
    Pieces,     \* texts as they occur: words, numbers, addresses, separators
    MaxPieces,  \* bound: how many of them make up a text
    MaxPasses   \* bound: how often it is redacted

ASSUME RedactionAssumption ==
    /\ Pieces \subseteq Seq((Word \ Kinds) \cup PhoneChars \cup {"+", "@", ","})
    /\ MaxPieces \in Nat
    /\ MaxPasses \in Nat

VARIABLES
    original,   \* history: the text as it was before the first pass
    size,       \* how many pieces it has
    text,       \* the text
    todo,       \* the detectors that this pass has still to apply
    passes,     \* how many passes have begun
    events      \* how many events of each kind the passes have noted

vars == <<original, size, text, todo, passes, events>>

Init ==
    /\ original = <<>>
    /\ size = 0
    /\ text = <<>>
    /\ todo = <<>>
    /\ passes = 0
    /\ events = [kind \in Kinds |-> 0]

(* The agent, its model or a tool writes the text.                            *)
Writes ==
    /\ passes = 0
    /\ size < MaxPieces
    /\ size' = size + 1
    /\ \E p \in Pieces : original' = original \o p
    /\ text' = original'
    /\ UNCHANGED <<todo, passes, events>>

StartsPass ==
    /\ todo = <<>>
    /\ passes < MaxPasses
    /\ todo' = DETECTORS
    /\ passes' = passes + 1
    /\ UNCHANGED <<original, size, text, events>>

(* Operators named Bad... are the mistakes the mutation runs make: each is put *)
(* in place of the definition that follows it, and nothing else uses them.    *)

(* Detectors are taken off at the wrong end.                                  *)
BadPopped(found) == Front(todo)

(* The first detector that finds something is the last.                       *)
BadFirstWins(found) == IF found = {} THEN Tail(todo) ELSE <<>>

Remaining(found) == Tail(todo)

(* One turn of the loop over DETECTORS. Which hashes have no letter depends   *)
(* on the values. The code starts a log for each call (a span keeps that of   *)
(* its one pass, the engine drops that of a replay); here events goes on over *)
(* all the passes, so that it can be compared with a text that keeps tokens.  *)
Detects ==
    /\ todo # <<>>
    /\ LET kind == Head(todo)
           found == Matches(kind, text)
       IN  /\ \E decimal \in SUBSET found : text' = Substitute(kind, text, decimal)
           /\ events' = [events EXCEPT ![kind] = @ + Cardinality(found)]
           /\ todo' = Remaining(found)
    /\ UNCHANGED <<original, size, passes>>

Next == Writes \/ StartsPass \/ Detects

Spec == Init /\ [][Next]_vars

Redacted == passes > 0 /\ todo = <<>>

------------------------------------------------------------------------------

Char == Word \cup PhoneChars \cup {"+", "@", ",", "<", ">"}

TypeOK ==
    /\ original \in Seq(Char \ ({"<", ">"} \cup Kinds))
    /\ size \in 0..MaxPieces
    /\ text \in Seq(Char)
    /\ todo \in {SubSeq(DETECTORS, i, 3) : i \in 1..4}
    /\ passes \in 0..MaxPasses
    /\ events \in [Kinds -> Nat]

(* The hash of a token.                                                       *)
IsHash(t, m) == TokenAt(t, m.first - 2) /\ m.last = m.first + 7

(* A date with a sign, right behind a number: the number shields it from the  *)
(* phone pattern, its token does not.                                         *)
IsUnshielded(t, m) == At(t, m.first - 1) = ">" /\ Occurs(<<"+">> \o Date, t, m.first)

(* After a pass no detector finds anything in the text, whatever the text and *)
(* however the tokens of one detector look to the next: nothing personal is   *)
(* left, and redacting again changes nothing. There are two exceptions: a     *)
(* hash without letters, which looks like a telephone number, and a date that *)
(* has lost its shield.                                                       *)
NothingLeft ==
    Redacted =>
        \A kind \in Kinds : \A m \in Matches(kind, text) :
            kind = "PHONE_" /\ (IsHash(text, m) \/ IsUnshielded(text, m))

(* Where a run of digits and separators begins.                               *)
RunStart(t, i) ==
    CHOOSE s \in 1..i : /\ \A k \in s..i : t[k] \in PhoneChars
                        /\ At(t, s - 1) \notin PhoneChars

(* s occurs at i with no digit and no sign before it, and outside addresses.  *)
Alone(s, t, i) ==
    /\ Occurs(s, t, i)
    /\ DigitsIn(t, RunStart(t, i), i - 1) = 0
    /\ At(t, i - 1) # "+"
    /\ At(t, RunStart(t, i) - 1) # "+"
    /\ \A m \in Matches("EMAIL_", t) : m.last < i \/ i + Len(s) <= m.first

(* "Never starting on an ISO-8601 date": a date is left as it is, unless an   *)
(* address or a number goes on into it or it goes on into a number as long as *)
(* a card's.                                                                  *)
DatesSurvive ==
    Cardinality({i \in 1..Len(original) :
        /\ Alone(Date, original, i)
        /\ DigitsIn(original, i, RunEnd(original, i, PhoneChars)) < 13})
    <= Cardinality({i \in 1..Len(text) : DateAt(text, i)})

(* "Credit cards first (before phone) so 13-16 digit runs aren't mislabelled": *)
(* every card number that stands alone is found to be one.                    *)
Card == [i \in 1..19 |-> IF i % 5 = 0 THEN " " ELSE "1"]

CardsAreCards ==
    Redacted =>
        Cardinality({i \in 1..Len(original) :
            /\ Alone(Card, original, i)
            /\ At(original, i - 1) \notin Word
            /\ At(original, i + 19) \notin Word})
        <= events["CREDIT_CARD_"]

(* The events and the text tell the same story, although later detectors and  *)
(* passes rewrite the tokens of earlier ones: as many tokens of each kind     *)
(* in the one as in the other; and the diff, which searches the text, suspects *)
(* redaction exactly when there was some.                                     *)
AuditMatches ==
    /\ \A kind \in Kinds :
          Cardinality({i \in 1..Len(text) : text[i] = kind}) = events[kind]
    /\ (\E kind \in Kinds : events[kind] > 0) <=> \E i \in 1..Len(text) : TokenAt(text, i)
==============================================================================
