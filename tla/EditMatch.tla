-------------------------------- MODULE EditMatch --------------------------------
(***************************************************************************)
(* The Edit tool and the matchers it finds old_string with                 *)
(* (internal/tools/edit, internal/editmatch).                              *)
(*                                                                         *)
(* A matcher takes the file and old_string and offers texts of the file to *)
(* replace, from the exact one to looser ones; the first that is usable    *)
(* wins.  Texts are sequences of characters.                               *)
(***************************************************************************)
EXTENDS Texts

CONSTANTS
  EditFiles,     \* the contents a file may start with
  OldTexts,      \* what the model may give as old_string
  NewTexts,      \* and as new_string
  Slack,         \* characters a longer match may have: 500
  MaxEditCalls   \* bound: calls of the tool

ASSUME EditAssumption ==
  /\ EditFiles \subseteq Seq(STRING) /\ OldTexts \subseteq Seq(STRING)
  /\ NewTexts \subseteq Seq(STRING) /\ Slack \in Nat /\ MaxEditCalls \in Nat

VARIABLES
  content,     \* the file's
  edit,        \* the last call, with the content it read and what it answered
  editCalls    \* calls so far

editVars == <<content, edit, editCalls>>

Trimmed(lines)    == [i \in DOMAIN lines |-> Trim(lines[i])]
Blocks(lines, n)  ==
  IF n > Len(lines) THEN <<>> ELSE [i \in 1..Len(lines) + 1 - n |-> SubSeq(lines, i, i + n - 1)]
JoinedAll(blocks) == [i \in DOMAIN blocks |-> Joined(blocks[i])]
BlocksAs(s, find) == JoinedAll(Blocks(Lines(s), Len(Lines(find))))
NoLastBlank(lines) == IF Last(lines) = <<>> THEN Front(lines) ELSE lines

-----------------------------------------------------------------------------
(* The matchers.                                                           *)

Simple(s, find) == <<find>>

BlocksLike(lines, wanted) ==
  IF wanted = <<>> THEN <<>>
  ELSE LET blocks == Blocks(lines, Len(wanted))
       IN JoinedAll(Kept(blocks, {b \in Range(blocks) : Trimmed(b) = Trimmed(wanted)}))

LineTrimmed(s, find) == BlocksLike(Lines(s), NoLastBlank(Lines(find)))

\* levenshtein.
Distance(a, b) ==
  LET d[i \in 0..Len(a), j \in 0..Len(b)] ==
        IF i = 0 THEN j ELSE IF j = 0 THEN i
        ELSE Min({d[i-1, j] + 1, d[i, j-1] + 1, d[i-1, j-1] + IF a[i] = b[j] THEN 0 ELSE 1})
  IN d[Len(a), Len(b)]

\* The blocks that begin with find's first line and end where its last line next
\* appears, two lines down or more.
Anchored(lines, wanted) ==
  LET closes(i) == {j \in i+2..Len(lines) : Trim(lines[j]) = Trim(Last(wanted))}
      opens == {i \in DOMAIN lines : Trim(lines[i]) = Trim(Head(wanted)) /\ closes(i) # {}}
      from  == Kept([i \in DOMAIN lines |-> i], opens)
  IN [k \in DOMAIN from |-> SubSeq(lines, from[k], Min(closes(from[k])))]

\* midSimilarity, as a fraction: blank pairs count as no similarity.
MidSimilarity(block, wanted) ==
  LET n == Min({Len(block), Len(wanted)}) - 2
      a(j) == Trim(block[j + 1])
      b(j) == Trim(wanted[j + 1])
      longer(j) == Max({Len(a(j)), Len(b(j))})
      Plus(f, j) == IF longer(j) = 0 THEN f
                    ELSE <<f[1] * longer(j) + (longer(j) - Distance(a(j), b(j))) * f[2],
                           f[2] * longer(j)>>
      sum == FoldLeft(Plus, <<0, 1>>, [j \in 1..n |-> j])
  IN IF n <= 0 THEN <<1, 1>> ELSE <<sum[1], sum[2] * n>>

\* Of the blocks the first of the most similar, if that is similar enough.
MostSimilar(blocks, sim) ==
  LET atLeast(i, j) == sim[i][1] * sim[j][2] >= sim[j][1] * sim[i][2]
      best == {i \in DOMAIN blocks : /\ \A j \in DOMAIN blocks : atLeast(i, j)
                                     /\ 100 * sim[i][1] >= 65 * sim[i][2]}
  IN IF best = {} THEN <<>> ELSE <<Joined(blocks[Min(best)])>>

AnchoredNear(lines, wanted) ==
  LET delta == Max({1, Len(wanted) \div 4})
      blocks == Anchored(lines, wanted)
  IN Kept(blocks, {b \in Range(blocks) : Len(b) - Len(wanted) \in -delta..delta})

Similar(blocks, wanted) ==
  MostSimilar(blocks, [i \in DOMAIN blocks |-> MidSimilarity(blocks[i], wanted)])

AnchoredLike(lines, wanted) ==
  IF Len(wanted) < 3 THEN <<>> ELSE Similar(AnchoredNear(lines, wanted), wanted)

BlockAnchor(s, find) == AnchoredLike(Lines(s), NoLastBlank(Lines(find)))

\* normalizeWhitespace.
Squeezed(s) == JoinedBy(Words(s), " ")

\* The first text of a line with find's words: the words as they are, any blanks between.
FirstWords(line, find) ==
  LET ends(i) == {j \in i..Len(line) :
                    /\ line[i] \notin Blank /\ line[j] \notin Blank
                    /\ Words(SubSeq(line, i, j)) = Words(find)}
      from == {i \in DOMAIN line : ends(i) # {}}
  IN IF from = {} THEN <<>> ELSE <<SubSeq(line, Min(from), Min(ends(Min(from))))>>

SpaceNormalized(s, find) ==
  LET OfLine(line) ==
        IF Squeezed(line) = Squeezed(find) THEN <<line>>
        ELSE IF HasText(Squeezed(line), Squeezed(find)) /\ Words(find) # <<>>
        THEN FirstWords(line, find)
        ELSE <<>>
      inLines == FlattenSeq([i \in DOMAIN Lines(s) |-> OfLine(Lines(s)[i])])
      blocks  == BlocksAs(s, find)
  IN IF Len(Lines(find)) = 1 THEN inLines
     ELSE inLines \o Kept(blocks, {b \in Range(blocks) : Squeezed(b) = Squeezed(find)})

\* removeIndentation.
Dedented(s) ==
  LET lines == Lines(s)
      solid == {i \in DOMAIN lines : Trim(lines[i]) # <<>>}
      indent(i) == Min({k \in DOMAIN lines[i] : lines[i][k] \notin Blank}) - 1
      least == IF solid = {} THEN 0 ELSE Min({indent(i) : i \in solid})
  IN Joined([i \in DOMAIN lines |->
       IF i \in solid THEN SubSeq(lines[i], least + 1, Len(lines[i])) ELSE lines[i]])

IndentationFlexible(s, find) ==
  LET blocks == BlocksAs(s, find)
  IN Kept(blocks, {b \in Range(blocks) : Dedented(b) = Dedented(find)})

\* What a backslash and the character after it stand for, of the characters modelled.
Escapes == [c \in {"n", NL, "\\"} |-> IF c = "\\" THEN "\\" ELSE NL]

\* unescapeString.
Unescaped(s) ==
  LET from[i \in 1..Len(s) + 1] ==
        IF i > Len(s) THEN <<>>
        ELSE IF s[i] = "\\" /\ i < Len(s) /\ s[i + 1] \in DOMAIN Escapes
        THEN <<Escapes[s[i + 1]]>> \o from[i + 2]
        ELSE <<s[i]>> \o from[i + 1]
  IN from[1]

Offered(s, text) == IF HasText(s, text) THEN <<text>> ELSE <<>>

EscapeNormalized(s, find) ==
  LET blocks == BlocksAs(s, Unescaped(find))
  IN Offered(s, Unescaped(find))
       \o Kept(blocks, {b \in Range(blocks) : Unescaped(b) = Unescaped(find)})

TrimmedBoundary(s, find) ==
  LET blocks == BlocksAs(s, find)
  IN IF Trim(find) = find THEN <<>>
     ELSE Offered(s, Trim(find)) \o Kept(blocks, {b \in Range(blocks) : Trim(b) = Trim(find)})

ContextAware(s, find) ==
  LET wanted == NoLastBlank(Lines(find))
      inner  == 2..Len(wanted) - 1
      some(b) == {k \in inner : Trim(b[k]) # <<>> \/ Trim(wanted[k]) # <<>>}
      same(b) == {k \in some(b) : Trim(b[k]) = Trim(wanted[k])}
      blocks == Anchored(Lines(s), wanted)
      close  == Kept(blocks, {b \in Range(blocks) :
                  Len(b) = Len(wanted) /\ 2 * Cardinality(same(b)) >= Cardinality(some(b))})
  IN IF Len(wanted) < 3 \/ close = <<>> THEN <<>> ELSE <<Joined(Head(close))>>

MultiOccurrence(s, find) == Offered(s, find)

-----------------------------------------------------------------------------
(* Replace.                                                                *)

\* strategies: what each matcher offers, from the exact one to the loosest.
Strategies(s, find) ==
  <<Simple(s, find), LineTrimmed(s, find), BlockAnchor(s, find), SpaceNormalized(s, find),
    IndentationFlexible(s, find), EscapeNormalized(s, find), TrimmedBoundary(s, find),
    ContextAware(s, find), MultiOccurrence(s, find)>>

Disproportionate(match, find) ==
  LET old == Len(Lines(find))
      size == Len(Trim(find))
  IN \/ Len(Lines(match)) >= Max({old + 3, 2 * old})
     \/ old > 1 /\ Len(Trim(match)) > Max({size + Slack, 4 * size})

\* A test that looks for a second match only on another line.
UniqueOnLines(s, c) == Len(SelectSeq(Lines(s), LAMBDA l : HasText(l, c))) <= 1

\* Whether a match is the only one.
Unique(s, c) == \A i, j \in Occurrences(s, c) : i = j

\* strings.ReplaceAll.
ReplacedAll(s, c, new) ==
  LET from[i \in 1..Len(s) + 1] ==
        IF c = <<>> THEN new \o IF i > Len(s) THEN <<>> ELSE <<s[i]>> \o from[i + 1]
        ELSE IF i > Len(s) THEN <<>>
        ELSE IF i \in Occurrences(s, c) THEN new \o from[i + Len(c)]
        ELSE <<s[i]>> \o from[i + 1]
  IN from[1]

ReplacedOnce(s, c, new) ==
  LET i == Min(Occurrences(s, c))
  IN SubSeq(s, 1, i - 1) \o new \o SubSeq(s, i + Len(c), Len(s))

\* The places of one matcher's candidates that the file has, and of those that end the search.
Found(s, candidates) == {i \in 1..Len(candidates) : HasText(s, candidates[i])}
Deciding(s, find, all, candidates) ==
  {i \in Found(s, candidates) :
     Disproportionate(candidates[i], find) \/ all \/ Unique(s, candidates[i])}

Answer(s, error, match) == [text |-> s, error |-> error, match |-> match]

Settled(s, find, new, all, c) ==
  IF Disproportionate(c, find) THEN Answer(s, "not found", <<>>)
  ELSE Answer(IF all THEN ReplacedAll(s, c, new) ELSE ReplacedOnce(s, c, new), "none", c)

\* The first candidate that decides, of the first matcher that has one.
Replace(s, find, new, all) ==
  LET offers == Strategies(s, find)
      found  == {k \in DOMAIN offers : Found(s, offers[k]) # {}}
      usable == {k \in DOMAIN offers : Deciding(s, find, all, offers[k]) # {}}
      winner == offers[Min(usable)]
  IN IF find = <<>> \/ found = {} THEN Answer(s, "not found", <<>>)
     ELSE IF usable = {} THEN Answer(s, "not unique", <<>>)
     ELSE Settled(s, find, new, all, winner[Min(Deciding(s, find, all, winner))])

-----------------------------------------------------------------------------
(* The Edit tool.                                                          *)

EditInit ==
  /\ content \in EditFiles /\ editCalls = 0
  /\ edit = [before |-> content, old |-> <<>>, new |-> <<>>, all |-> FALSE,
             answer |-> Answer(content, "none", <<>>)]

\* Execute.  A read, a write or its context may fail.
Edit(old, new, all) ==
  /\ editCalls < MaxEditCalls /\ editCalls' = editCalls + 1
  /\ \E answer \in {IF old = new THEN Answer(content, "identical", <<>>)
                    ELSE Replace(content, old, new, all),
                    Answer(content, "failed", <<>>)} :
       /\ content' = answer.text
       /\ edit' = [before |-> content, old |-> old, new |-> new, all |-> all, answer |-> answer]

EditNext == \E old \in OldTexts, new \in NewTexts, all \in BOOLEAN : Edit(old, new, all)

EditSpec == EditInit /\ [][EditNext]_editVars
-----------------------------------------------------------------------------
\* What the model asked for and what was replaced differ in blanks and escapes at most,
\* or are blocks with the same first and last lines.
Alike(match, old) ==
  \/ Words(match) \in {Words(old), Words(Unescaped(old))}
  \/ Unescaped(match) = Unescaped(old)
  \/ /\ Len(Lines(match)) >= 3
     /\ Trim(Head(Lines(match))) = Trim(Head(Lines(old)))
     /\ Trim(Last(Lines(match))) = Trim(Last(NoLastBlank(Lines(old))))

OnlyAt(i, s, text) == Occurrences(s, text) = {i}

\* A successful edit replaces one text of the file, there only once, and old_string
\* itself where that is there once: however loose the matchers get, nothing else of the
\* file changes.
OneTextReplaced ==
  edit.answer.error = "none" /\ ~edit.all /\ edit.old # <<>> =>
    LET match == edit.answer.match
    IN /\ \E i \in Occurrences(edit.before, match) :
            /\ OnlyAt(i, edit.before, match)
            /\ content = SubSeq(edit.before, 1, i - 1) \o edit.new
                            \o SubSeq(edit.before, i + Len(match), Len(edit.before))
       /\ \A i \in Occurrences(edit.before, edit.old) :
            OnlyAt(i, edit.before, edit.old) => match = edit.old

\* And what it replaces is like old_string.
EditsOnePlace ==
  /\ OneTextReplaced
  /\ edit.answer.error = "none" /\ ~edit.all /\ edit.old # <<>> => Alike(edit.answer.match, edit.old)
=============================================================================
