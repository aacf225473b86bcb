---------------------------------- MODULE Texts ----------------------------------
(***************************************************************************)
(* Texts as sequences of characters, and what Go's strings package does    *)
(* with them.  Blank characters are the space and the newline.             *)
(***************************************************************************)
EXTENDS Naturals, Integers, Sequences, FiniteSets, SequencesExt, FiniteSetsExt

NL    == "\n"
Blank == {" ", NL}

\* The members of a sequence that are in a set, in their order.
Kept(s, S) == FlattenSeq([i \in DOMAIN s |-> IF s[i] \in S THEN <<s[i]>> ELSE <<>>])

\* strings.Split at one character, of a set of them.
Parted(parts, c, seps) ==
  IF c \in seps THEN Append(parts, <<>>) ELSE Append(Front(parts), Append(Last(parts), c))

SplitAt(s, seps) ==
  LET upTo[k \in 0..Len(s)] == IF k = 0 THEN <<<<>>>> ELSE Parted(upTo[k - 1], s[k], seps)
  IN upTo[Len(s)]

Lines(s) == SplitAt(s, {NL})

\* strings.Join with one character.
JoinedBy(parts, c) == FlattenSeq([i \in DOMAIN parts |-> IF i = 1 THEN parts[i] ELSE <<c>> \o parts[i]])

Joined(lines) == JoinedBy(lines, NL)

\* strings.Fields.
Words(s) == Kept(SplitAt(s, Blank), Range(SplitAt(s, Blank)) \ {<<>>})

\* strings.TrimSpace.
Trim(s) ==
  LET solid == {i \in DOMAIN s : s[i] \notin Blank}
  IN IF solid = {} THEN <<>> ELSE SubSeq(s, Min(solid), Max(solid))

\* Where find begins in s.
Occurrences(s, find) ==
  {i \in 1..Len(s) + 1 - Len(find) : SubSeq(s, i, i + Len(find) - 1) = find}

HasText(s, find) == Occurrences(s, find) # {}

\* The texts of at most n characters over an alphabet.
TextsUpTo(alphabet, n) == UNION {[1..k -> alphabet] : k \in 0..n}
=============================================================================
