---------------------------------- MODULE Patch ----------------------------------
(***************************************************************************)
(* The apply_patch envelope (internal/patch): parsing it, and applying it  *)
(* in memory to the files it names.                                        *)
(*                                                                         *)
(* A line of the envelope is a record: what it begins with, and the rest,  *)
(* a path or a line of text.  A file is the sequence of its lines, a line  *)
(* a sequence of characters; the text of a file ends with a newline.       *)
(***************************************************************************)
EXTENDS Texts

\* What a line of the envelope can begin with: the "***" lines, "@@", the three marks of
\* a change, or nothing of these.
FileMarks == {"add", "delete", "update"}
Stars     == FileMarks \cup {"begin", "end", "move", "eof"}
Changes   == {" ", "-", "+"}
Marks     == Stars \cup Changes \cup {"@@", "other"}

EnvelopeLines == [mark : Marks, text : Seq(STRING)]

\* The lines whose paths, if they name one, are of a set.
LinesOver(paths) ==
  {l \in EnvelopeLines : l.mark \in FileMarks \cup {"move"} => l.text \in paths \cup {<<>>}}

\* The sections of an envelope over a set of paths.
Chunks == [at : Seq(STRING), old : Seq(Seq(STRING)), new : Seq(Seq(STRING)), eof : BOOLEAN]
HunksOver(paths) ==
  [op : FileMarks, path : paths, move : paths \cup {<<>>},
   content : Seq(Seq(STRING)), chunks : Seq(Chunks)]

NoChunk == [at |-> <<>>, old |-> <<>>, new |-> <<>>, eof |-> FALSE]
Hunk(op, path) == [op |-> op, path |-> path, move |-> <<>>, content |-> <<>>, chunks |-> <<>>]

-----------------------------------------------------------------------------
(* Parsing.  The hunks so far and what the next line can belong to: an     *)
(* update whose body has not begun, the last hunk's body, or nothing.      *)

Replaced(hunks, h) == Append(Front(hunks), h)

\* parseUpdateChunks: a change opens a chunk where none is.
Changed(chunks, mark, text) ==
  LET all == IF chunks = <<>> THEN <<NoChunk>> ELSE chunks
      c   == Last(all)
  IN Append(Front(all),
       [c EXCEPT !.old = IF mark = "+" THEN @ ELSE Append(@, text),
                 !.new = IF mark = "-" THEN @ ELSE Append(@, text)])

\* A line in the body of the last hunk.
BodyLine(h, l) ==
  CASE h.op = "add" /\ l.mark = "+"          -> [h EXCEPT !.content = Append(@, l.text)]
    [] h.op = "update" /\ l.mark = "@@"      -> [h EXCEPT !.chunks = Append(@, [NoChunk EXCEPT !.at = l.text])]
    [] h.op = "update" /\ l.mark \in Changes -> [h EXCEPT !.chunks = Changed(@, l.mark, l.text)]
    [] OTHER                                 -> h

AtEof(h) ==
  IF h.op = "update" /\ h.chunks # <<>>
  THEN [h EXCEPT !.chunks = Append(Front(@), [Last(@) EXCEPT !.eof = TRUE])] ELSE h

\* What the line after a section's first can belong to.
Opens(mark) == CASE mark = "add" -> "body" [] mark = "update" -> "head" [] OTHER -> "none"

\* parseHunks, one line.
ParseLine(p, l) ==
  IF l.mark \in FileMarks
  THEN [hunks |-> Append(p.hunks, Hunk(l.mark, l.text)), in |-> Opens(l.mark)]
  ELSE IF l.mark = "move" /\ p.in = "head"
  THEN [hunks |-> Replaced(p.hunks, [Last(p.hunks) EXCEPT !.move = l.text]), in |-> "body"]
  ELSE IF l.mark = "eof" /\ p.in # "none"
  THEN [hunks |-> Replaced(p.hunks, AtEof(Last(p.hunks))), in |-> "none"]
  ELSE IF l.mark \in Stars \/ p.in = "none" THEN [p EXCEPT !.in = "none"]
  ELSE [hunks |-> Replaced(p.hunks, BodyLine(Last(p.hunks), l)), in |-> "body"]

ReadHunks(body) ==
  LET read[k \in 0..Len(body)] ==
        IF k = 0 THEN [hunks |-> <<>>, in |-> "none"] ELSE ParseLine(read[k - 1], body[k])
  IN read[Len(body)].hunks

Malformed == <<[op |-> "malformed"]>>

\* Parse: from the first Begin line to the last End line.
Parse(lines) ==
  LET begins == {i \in DOMAIN lines : lines[i].mark = "begin"}
      ends   == {i \in DOMAIN lines : lines[i].mark = "end"}
      body   == SubSeq(lines, Min(begins) + 1, Max(ends) - 1)
      hunks  == ReadHunks(body)
  IN IF begins = {} \/ ends = {} \/ Max(ends) <= Min(begins) THEN Malformed
     ELSE IF \E i \in DOMAIN hunks :
               hunks[i].path = <<>> \/ (hunks[i].op = "update" /\ hunks[i].chunks = <<>>)
     THEN Malformed
     ELSE hunks

-----------------------------------------------------------------------------
(* Locating.                                                               *)

TrimEnd(s) ==
  LET solid == {i \in DOMAIN s : s[i] \notin Blank}
  IN IF solid = {} THEN <<>> ELSE SubSeq(s, 1, Max(solid))

\* Typographic characters and what they are folded to, those modelled.
Folds == [c \in {"endash"} |-> "-"]

\* normalize.
Folded(s) == [i \in DOMAIN Trim(s) |-> IF Trim(s)[i] \in DOMAIN Folds THEN Folds[Trim(s)[i]] ELSE Trim(s)[i]]

\* What each matcher compares, from the strictest.
Form(m, s) == CASE m = 1 -> s [] m = 2 -> TrimEnd(s) [] m = 3 -> Trim(s) [] m = 4 -> Folded(s)

\* matchAt.
MatchAt(lines, pattern, i, m) ==
  \A j \in DOMAIN pattern : Form(m, lines[i + j]) = Form(m, pattern[j])

NotFound == 0 - 1

\* seekSequence: the lines before the match, start or more.
Seek(lines, pattern, start, eof) ==
  LET last == Len(lines) - Len(pattern)
      at   == [m \in 1..4 |-> {i \in start..last : MatchAt(lines, pattern, i, m)}]
      ms   == {m \in 1..4 : at[m] # {}}
  IN IF pattern = <<>> THEN start
     ELSE IF ms = {} THEN NotFound
     ELSE IF eof /\ last \in at[Min(ms)] THEN last ELSE Min(at[Min(ms)])

\* A pattern, or the added lines with it, without a trailing empty line.
Unended(lines) == IF lines # <<>> /\ Last(lines) = <<>> THEN Front(lines) ELSE lines

Rep(start, len, new) == [start |-> start, len |-> len, new |-> new]

\* A search that begins again at the region just found.
SameCursor(found, len) == found

\* Where the search for the next chunk begins, after a region.
NextCursor(found, len) == found + len

\* computeReplacements, one chunk.
Locate(lines, acc, c) ==
  LET heading == IF c.at = <<>> THEN acc.cursor - 1 ELSE Seek(lines, <<c.at>>, acc.cursor, FALSE)
      cursor  == heading + 1
      end     == IF lines # <<>> /\ Last(lines) = <<>> THEN Len(lines) - 1 ELSE Len(lines)
      whole   == Seek(lines, c.old, cursor, c.eof)
      cut     == whole = NotFound /\ Last(c.old) = <<>>
      old     == IF cut THEN Unended(c.old) ELSE c.old
      new     == IF cut THEN Unended(c.new) ELSE c.new
      found   == IF cut THEN Seek(lines, old, cursor, c.eof) ELSE whole
  IN IF ~acc.ok \/ (c.at # <<>> /\ heading = NotFound) THEN [acc EXCEPT !.ok = FALSE]
     ELSE IF c.old = <<>>
     THEN [acc EXCEPT !.reps = Append(@, Rep(end, 0, c.new)), !.cursor = cursor]
     ELSE IF found = NotFound THEN [acc EXCEPT !.ok = FALSE]
     ELSE [acc EXCEPT !.reps = Append(@, Rep(found, Len(old), new)),
                      !.cursor = NextCursor(found, Len(old))]

Located(lines, chunks) ==
  LET upTo[k \in 0..Len(chunks)] ==
        IF k = 0 THEN [reps |-> <<>>, cursor |-> 0, ok |-> TRUE]
        ELSE Locate(lines, upTo[k - 1], chunks[k])
  IN upTo[Len(chunks)]

\* The insertion sort by position: a region goes before the first that starts later.
Inserted(sorted, r) ==
  InsertAt(sorted, Min({k \in DOMAIN sorted : sorted[k].start > r.start} \cup {Len(sorted) + 1}), r)

ByPosition(reps) ==
  LET sorted[k \in 0..Len(reps)] ==
        IF k = 0 THEN <<>> ELSE Inserted(sorted[k - 1], reps[k])
  IN sorted[Len(reps)]

\* applyReplacements: the last region first.
Spliced(out, r) == SubSeq(out, 1, r.start) \o r.new \o SubSeq(out, r.start + r.len + 1, Len(out))

ApplyReplacements(lines, reps) ==
  LET from[k \in 1..Len(reps) + 1] ==
        IF k = Len(reps) + 1 THEN lines ELSE Spliced(from[k + 1], reps[k])
  IN from[1]

-----------------------------------------------------------------------------
(* Applying.                                                               *)

\* deriveNewContent: one newline ends the text, so an empty last line goes.
NewContent(lines, chunks) ==
  Unended(ApplyReplacements(lines, ByPosition(Located(lines, chunks).reps)))

\* The paths whose content a patch needs.
PatchFiles(hunks) == {hunks[i].path : i \in {k \in DOMAIN hunks : hunks[k].op # "add"}}

\* Apply, one hunk: what it does to the files, if it can be applied.
Applies(h, current) ==
  CASE h.op = "add"    -> h.path \notin DOMAIN current
    [] h.op = "delete" -> h.path \in DOMAIN current
    [] h.op = "update" -> h.path \in DOMAIN current /\ Located(current[h.path], h.chunks).ok

Result(h, current) ==
  LET moved == h.op = "update" /\ h.move # <<>>
  IN [op |-> h.op, path |-> IF moved THEN h.move ELSE h.path,
      from |-> IF moved THEN h.path ELSE <<>>,
      content |-> CASE h.op = "add"    -> h.content
                    [] h.op = "delete" -> <<>>
                    [] h.op = "update" -> NewContent(current[h.path], h.chunks)]

CanApply(hunks, current) == hunks # Malformed /\ \A i \in DOMAIN hunks : Applies(hunks[i], current)
Results(hunks, current)  == [i \in DOMAIN hunks |-> Result(hunks[i], current)]
=============================================================================
