-------------------------------- MODULE Redaction --------------------------------
(***************************************************************************)
(* What is shown of a text the server sent (engine/sanitize.rs): every     *)
(* secret of the request is taken out of it first.  Pure: no state.        *)
(*                                                                         *)
(* A text is a sequence of characters: letters in two cases, a mark that   *)
(* is shown but is no letter, and the characters named below.              *)
(***************************************************************************)
EXTENDS Naturals, Sequences, FiniteSets, SequencesExt, Filters

CONSTANT MinFragment    \* MIN_SECRET_FRAGMENT_CHARS

ASSUME RedactionAssumption == MinFragment \in Nat \ {0}

Letters == 1 .. 9    \* and ten more than each, in the other case
Mark == 30
Gap == 31          \* whitespace
Escape_ == 32      \* a control character
Hidden == 33       \* a character that renders as nothing
Lossy == 34        \* U+FFFD, left where a character was cut
Stars == 35        \* REDACTED

IsLetter(c) == c % 10 \in Letters /\ c < 20

\* A text without its longest end of the characters of a set.
WithoutEnd(text, set) ==
  LET kept == {n \in 0 .. Len(text) : n > 0 => text[n] \notin set}
  IN  SubSeq(text, 1, CHOOSE n \in kept : \A i \in n + 1 .. Len(text) : text[i] \in set)
Trim(text) == Reverse(WithoutEnd(Reverse(WithoutEnd(text, {Gap})), {Gap}))

Occurs(secret, text) == \E i \in 1 .. Len(text) - Len(secret) + 1 : SubSeq(text, i, i + Len(secret) - 1) = secret

-----------------------------------------------------------------------------
\* str::replace, character by character: what is written so far, and how many
\* characters are still in the occurrence that was found.
ReplaceNext(text, secret, was, i) ==
  IF was.within > 0 THEN [was EXCEPT !.within = @ - 1]
  ELSE IF i + Len(secret) - 1 <= Len(text) /\ SubSeq(text, i, i + Len(secret) - 1) = secret
       THEN [out |-> Append(was.out, Stars), within |-> Len(secret) - 1]
  ELSE [was EXCEPT !.out = Append(@, text[i])]
Replaced(text, secret) ==
  LET Upto[i \in 0 .. Len(text)] ==
        IF i = 0 THEN [out |-> <<>>, within |-> 0] ELSE ReplaceNext(text, secret, Upto[i - 1], i)
  IN  Upto[Len(text)].out

\* redact_cut_secret_tail: the longest beginning of the secret the text ends with.
CutTailRedacted(text, secret) ==
  LET trimmed == WithoutEnd(text, {Lossy})
      ends == {n \in MinFragment .. Len(secret) : IsSuffix(SubSeq(secret, 1, n), trimmed)}
      n == CHOOSE n \in ends : \A k \in ends : k <= n
  IN  IF ends = {} THEN text ELSE SubSeq(trimmed, 1, Len(trimmed) - n) \o <<Stars>>

\* The end of the text is not looked at.
RedactSecret_NotTheEnd(text, secret) == IF secret = <<>> THEN text ELSE Replaced(text, secret)

\* redact_secret
RedactSecret(text, secret) ==
  IF secret = <<>> THEN text ELSE CutTailRedacted(Replaced(text, secret), secret)

\* redact_all
RedactAll(text, secrets) ==
  LET Upto[i \in 0 .. Len(secrets)] == IF i = 0 THEN text ELSE RedactSecret(Upto[i - 1], secrets[i])
  IN  Upto[Len(secrets)]

\* replace_trailing_runs: a text that was cut ends in something unknown.
DropRun(text) ==
  LET trimmed == WithoutEnd(text, {Gap})
      dropped == WithoutEnd(trimmed, Range(trimmed) \ {Gap})
  IN  IF dropped = trimmed THEN text ELSE dropped
ReplaceTrailingRuns(text) ==
  LET kept == DropRun(DropRun(text))    \* CAPPED_TAIL_RUNS of them
  IN  IF kept = text THEN text ELSE Append(kept, Stars)

\* normalize: what renders as nothing goes, a gap is one character.
Visible(raw) ==
  LET spaced == [i \in 1 .. Len(raw) |-> IF raw[i] = Escape_ THEN Gap ELSE raw[i]]
  IN  Picked(spaced, {i \in 1 .. Len(raw) : raw[i] # Hidden})
Collapsed(text) ==
  Picked(text, {i \in 1 .. Len(text) : i > 1 /\ text[i] = Gap => text[i - 1] # Gap})
Normalize(raw) == Trim(Collapsed(Visible(raw)))

LettersOf(text) == Picked(text, {i \in 1 .. Len(text) : IsLetter(text[i])})
Skeleton(text) ==
  LET letters == LettersOf(text)
  IN  [i \in 1 .. Len(letters) |-> letters[i] % 10]
LeaksFragment(text, secret) ==
  LET s == Skeleton(secret)
  IN  \E i \in 1 .. Len(s) - MinFragment + 1 : Occurs(SubSeq(s, i, i + MinFragment - 1), Skeleton(text))

Shortened(redacted, secrets, cap) ==
  IF \E i \in 1 .. Len(secrets) : LeaksFragment(redacted, secrets[i]) THEN <<Stars>>
  ELSE Trim(SubSeq(redacted, 1, IF cap < Len(redacted) THEN cap ELSE Len(redacted)))
CleanServerText(raw, secrets, truncated, cap) ==
  LET untrusted == IF truncated THEN ReplaceTrailingRuns(raw) ELSE raw
  IN  Shortened(RedactAll(Normalize(RedactAll(untrusted, secrets)), secrets), secrets, cap)

-----------------------------------------------------------------------------
\* The letters of a text as they are read, without their case.
ReadOut(text) == [i \in 1 .. Len(LettersOf(text)) |-> LettersOf(text)[i] % 10]
EndsAsCut(text, secret) ==
  \E n \in MinFragment .. Len(secret) : IsSuffix(SubSeq(secret, 1, n), WithoutEnd(text, {Lossy}))

(* Nothing of a secret is shown: no fragment of it, in any case and whatever*)
(* is between its characters, before or after the text is cut to its limit; *)
(* and nothing is shown that cannot be seen.                                *)
HoldsFragment(text, secret) ==
  \E k, n \in 1 .. Len(ReadOut(secret)) :
    n - k + 1 >= MinFragment /\ Occurs(SubSeq(ReadOut(secret), k, n), ReadOut(text))
FragmentsStayHidden(raw, secrets) ==
  \A truncated \in BOOLEAN, cap \in {MinFragment, Len(raw) + 1} :
    LET shown == CleanServerText(raw, secrets, truncated, cap)
    IN  /\ Range(shown) \cap {Hidden, Escape_} = {}
        /\ \A i \in 1 .. Len(secrets) : ~HoldsFragment(shown, secrets[i])

(* No secret is shown whole, however short, and a text does not end as if it *)
(* was cut in one.                                                          *)
ShowsNoSecret(raw, secrets) ==
  \A truncated \in BOOLEAN, cap \in {MinFragment, Len(raw) + 1} :
    LET shown == CleanServerText(raw, secrets, truncated, cap)
    IN  \A i \in 1 .. Len(secrets) : secrets[i] # <<>> =>
          /\ ~Occurs(secrets[i], shown)
          /\ cap > Len(raw) => ~EndsAsCut(shown, secrets[i])

\* What is shown of a text holds nothing of a secret, nor ends as if cut in it.
Clear(text, secret) ==
  LET shown == Normalize(text)
  IN  ~Occurs(secret, shown) /\ ~LeaksFragment(shown, secret) /\ ~EndsAsCut(shown, secret)

(* A text that has none of them is shown as it is, and one that quotes a     *)
(* whole secret keeps its other words.                                      *)
KeepsHonestText(raw, secrets) ==
  LET ClearOfAll(text, but) == \A k \in 1 .. Len(secrets) \ but : Clear(text, secrets[k])
      Shown(text) == CleanServerText(text, secrets, FALSE, Len(text))
  IN  /\ ClearOfAll(raw, {}) => Shown(raw) = Normalize(raw)
      /\ \A i \in 1 .. Len(secrets) :
           ClearOfAll(raw \o <<Gap>> \o raw, {}) /\ ClearOfAll(secrets[i], {i}) =>
             Shown(raw \o <<Gap>> \o secrets[i] \o <<Gap>> \o raw) = Normalize(raw \o <<Gap, Stars, Gap>> \o raw)

(* Where a read ended inside a secret, what is shown does not tell how much  *)
(* of it was read, in one word or in two.                                   *)
CutTellsNothing(raw, secrets) ==
  \A i \in 1 .. Len(secrets) : \A n \in 1 .. Len(secrets[i]) : \A k \in 0 .. n - 1 :
    LET part == SubSeq(secrets[i], k + 1, n)
        read == IF k = 0 THEN part ELSE SubSeq(secrets[i], 1, k) \o <<Gap>> \o part
        other == IF k = 0 THEN <<Mark>> ELSE <<Mark, Gap, Mark>>
        Shown(text) == CleanServerText(text, secrets, TRUE, Len(raw) + 2)
    IN  Shown(raw \o read) = Shown(raw \o other)

TextIsSafe(raw, secrets) ==
  ShowsNoSecret(raw, secrets) /\ KeepsHonestText(raw, secrets) /\ CutTellsNothing(raw, secrets)
=============================================================================
