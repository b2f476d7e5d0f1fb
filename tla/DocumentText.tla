----------------------------- MODULE DocumentText -----------------------------
(***************************************************************************)
(* From the text of a source to its chunks: the margins that repeat on     *)
(* most pages of a PDF are removed, headings cut the text into sections,   *)
(* and a section with too many tokens is cut into windows that overlap.    *)
(* A document is [pdf, pages]; a page is a sequence of lines, a line is    *)
(* [kind, level, text, tokens].  One step per page, line and window.       *)
(***************************************************************************)
EXTENDS Integers, Sequences, FiniteSets, SequencesExt

CONSTANTS
  Uploads,       \* the documents that are ingested
  MaxChunkTokens, Overlap

\* Only a hash heading has a level, the number of its hashes.
LineType ==
  [kind : {"hash"}, level : 1 .. 6, text : STRING, tokens : Nat]
  \cup [kind : {"text", "numbered"}, level : {0}, text : STRING, tokens : Nat]

ASSUME TextAssumption ==
  /\ MaxChunkTokens \in Nat /\ Overlap \in Nat /\ Overlap < MaxChunkTokens
  /\ \A d \in Uploads : d.pages \in Seq(Seq(LineType))

VARIABLES
  document, parsing,
  page, line,           \* where the parser is
  stack, heading,       \* heading_stack and current_heading
  buffer, tokens,       \* lines collected, and their tokens
  sections,             \* sections flushed
  section, start,       \* where the chunker is
  windows               \* [section, first, last], in tokens of the section

textVars == <<document, parsing, page, line, stack, heading, buffer, tokens, sections,
              section, start, windows>>

\* The title and the page stand in for a heading that is missing.
Fallback == "fallback"

TextInit ==
  /\ document \in Uploads /\ parsing = "page" /\ page = 1 /\ line = 1
  /\ stack = <<>> /\ heading = <<Fallback>> /\ buffer = <<>> /\ tokens = 0 /\ sections = <<>>
  /\ section = 1 /\ start = 0 /\ windows = <<>>

-----------------------------------------------------------------------------
(* Pages and margins                                                       *)

\* The pages that have lines, with the text of the first and of the last one.
Written == {k \in DOMAIN document.pages : document.pages[k] # <<>>}
Headers == [k \in Written |-> Head(document.pages[k]).text]
Footers == [k \in Written |-> Last(document.pages[k]).text]

\* A text is in the margin of at least two pages, and of six in ten.
Repeats(text, margin) ==
  LET n == Cardinality({k \in DOMAIN margin : margin[k] = text})
  IN n >= 2 /\ 10 * n >= 6 * Len(document.pages)

Body(lines) ==
  LET tail == IF lines # <<>> /\ Repeats(Head(lines).text, Headers)
              THEN Tail(lines) ELSE lines
  IN IF tail # <<>> /\ Repeats(Last(tail).text, Footers) THEN Front(tail) ELSE tail

Lines == Body(document.pages[page])

\* The text of a page cannot be extracted, or its file cannot be read.
Unreadable ==
  /\ parsing = "page" /\ parsing' = "failed"
  /\ UNCHANGED <<document, page, line, stack, heading, buffer, tokens, sections,
                 section, start, windows>>

\* A PDF page of which only margins are left is an error.
OpenPage ==
  /\ parsing = "page" /\ page <= Len(document.pages)
  /\ parsing' = IF document.pdf /\ Lines = <<>> THEN "failed" ELSE "line"
  /\ line' = 1 /\ stack' = <<>> /\ heading' = <<Fallback>>
  /\ buffer' = <<>> /\ tokens' = 0
  /\ UNCHANGED <<document, page, sections, section, start, windows>>

LastPage ==
  /\ parsing = "page" /\ page > Len(document.pages)
  /\ parsing' = IF sections = <<>> THEN "failed" ELSE "cut"
  /\ UNCHANGED <<document, page, line, stack, heading, buffer, tokens, sections,
                 section, start, windows>>

-----------------------------------------------------------------------------
(* Headings and sections                                                   *)

\* flush(): lines without any text make no section.
Flushed ==
  IF \E k \in DOMAIN buffer : buffer[k].text # ""
  THEN Append(sections, [page |-> page, heading |-> heading, lines |-> buffer,
                          tokens |-> tokens])
  ELSE sections

\* Fault: the heading of the same level stays.
EnclosingToo(level) == SubSeq(stack, 1, IF level < Len(stack) THEN level ELSE Len(stack))

\* The enclosing headings of a heading of this level.
Enclosing(level) ==
  [k \in 1 .. level - 1 |-> IF k <= Len(stack) THEN stack[k] ELSE Fallback]

Current == Lines[line]

HashHeading ==
  /\ Current.kind = "hash"
  /\ stack' = Append(Enclosing(Current.level), Current.text)
  /\ heading' = stack' /\ sections' = Flushed /\ buffer' = <<>> /\ tokens' = 0

\* A numbered line is a heading of its own and leaves the stack alone.
NumberedHeading ==
  /\ Current.kind = "numbered"
  /\ heading' = <<Current.text>> /\ sections' = Flushed /\ buffer' = <<>> /\ tokens' = 0
  /\ UNCHANGED stack

TextLine ==
  /\ Current.kind = "text"
  /\ buffer' = Append(buffer, Current) /\ tokens' = tokens + Current.tokens
  /\ UNCHANGED <<stack, heading, sections>>

ReadLine ==
  /\ parsing = "line" /\ line <= Len(Lines)
  /\ HashHeading \/ NumberedHeading \/ TextLine
  /\ line' = line + 1
  /\ UNCHANGED <<document, parsing, page, section, start, windows>>

ClosePage ==
  /\ parsing = "line" /\ line > Len(Lines)
  /\ sections' = Flushed /\ buffer' = <<>> /\ tokens' = 0
  /\ page' = page + 1 /\ parsing' = "page"
  /\ UNCHANGED <<document, line, stack, heading, section, start, windows>>

-----------------------------------------------------------------------------
(* Windows                                                                 *)

Size(s) == sections[s].tokens

LastToken ==
  IF start + MaxChunkTokens < Size(section) THEN start + MaxChunkTokens
  ELSE Size(section)

\* A window that reaches the end is the last one of its section.
EndsSection == LastToken = Size(section)

\* A section without a token has no chunk.
SkipSection ==
  /\ parsing = "cut" /\ section <= Len(sections) /\ Size(section) = 0
  /\ section' = section + 1 /\ start' = 0
  /\ UNCHANGED <<document, parsing, page, line, stack, heading, buffer, tokens, sections,
                 windows>>

CutWindow ==
  /\ parsing = "cut" /\ section <= Len(sections) /\ Size(section) > 0
  /\ windows' = Append(windows, [section |-> section, first |-> start + 1, last |-> LastToken])
  /\ IF EndsSection THEN section' = section + 1 /\ start' = 0
     ELSE section' = section /\ start' = LastToken - Overlap
  /\ UNCHANGED <<document, parsing, page, line, stack, heading, buffer, tokens, sections>>

Finish ==
  /\ parsing = "cut" /\ section > Len(sections) /\ parsing' = "done"
  /\ UNCHANGED <<document, page, line, stack, heading, buffer, tokens, sections,
                 section, start, windows>>

TextNext == \/ Unreadable \/ OpenPage \/ LastPage \/ ReadLine \/ ClosePage
            \/ SkipSection \/ CutWindow \/ Finish

TextSpec == TextInit /\ [][TextNext]_textVars

-----------------------------------------------------------------------------
(* What must hold                                                          *)

\* The heading a text line stands under, said without the parser's stack:
\* the nearest heading above it; above a hash heading, the nearest one of
\* each smaller level that no heading of a still smaller level cuts off.
Nearest(lines, k, P(_)) == LET js == {j \in 1 .. k - 1 : P(lines[j])}
                           IN IF js = {} THEN 0 ELSE CHOOSE j \in js : \A i \in js : i <= j

HeadingAbove(lines, k) ==
  LET j == Nearest(lines, k, LAMBDA l : l.kind # "text")
      Up(level) == LET a == Nearest(lines, j, LAMBDA l : l.kind = "hash" /\ l.level <= level)
                   IN IF a > 0 /\ lines[a].level = level THEN lines[a].text ELSE Fallback
  IN IF j = 0 THEN <<Fallback>>
     ELSE IF lines[j].kind = "numbered" THEN <<lines[j].text>>
     ELSE Append([level \in 1 .. lines[j].level - 1 |-> Up(level)], lines[j].text)

\* Every section carries the path of headings that encloses each of its
\* lines on its page, however deep the headings jump and fall back.
HeadingsEnclose ==
  parsing \in {"cut", "done"} =>
    \A s \in DOMAIN sections : \A l \in DOMAIN sections[s].lines :
      LET body == Body(document.pages[sections[s].page])
          here == {k \in DOMAIN body : body[k] = sections[s].lines[l]}
      IN \E k \in here : HeadingAbove(body, k) = sections[s].heading

\* The chunks of a section cover its tokens in order, none is longer than the
\* limit, two neighbours share exactly the overlap, and each brings tokens
\* that the one before it did not have.
WindowsCover ==
  /\ \A k \in DOMAIN windows :
       LET w == windows[k] IN
       /\ w.last - w.first < MaxChunkTokens
       /\ IF k > 1 /\ windows[k - 1].section = w.section
          THEN /\ w.first = windows[k - 1].last - Overlap + 1
               /\ w.last > windows[k - 1].last
          ELSE w.first = 1
  /\ \A s \in 1 .. section - 1 :
       Size(s) > 0 => \E k \in DOMAIN windows : /\ windows[k].section = s
                                                /\ windows[k].last = Size(s)

\* Every token of a document is in a chunk that names the headings it is under.
ChunksAreFaithful == HeadingsEnclose /\ WindowsCover

=============================================================================
