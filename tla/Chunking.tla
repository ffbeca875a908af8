------------------------------ MODULE Chunking ------------------------------
(***************************************************************************)
(* HierarchicalChunker: sections by root headings, parents that fill token *)
(* and character budgets without overlap, and overlapping children of each *)
(* parent.  Tokens are separated by one character.                         *)
(***************************************************************************)
EXTENDS Naturals, FiniteSets, FiniteSetsExt, SequencesExt

CONSTANTS
    TokenLengths,   \* bound: characters of a token
    MaxTokens,      \* bound: tokens of a document
    ParentTokens, ParentCharacters, ChildTokens, ChildCharacters,
    ChildOverlap    \* child_overlap_tokens, less than ChildTokens

VARIABLE chunking   \* the document and what the chunker made of it

chunkingVars == <<chunking>>

(* A text: its tokens, and the depth of the heading each begins (0: none). *)
Texts == UNION {[1..n -> [length : TokenLengths, heading : 0..2]] : n \in 0..MaxTokens}

(* Where each token starts: behind those before it. *)
Starts(text) ==
    LET start[i \in 0..Len(text)] == IF i = 0 THEN 0 ELSE start[i - 1] + text[i].length + 1
    IN  start

TokenSpans(text) ==
    [i \in 1..Len(text) |->
        [start |-> Starts(text)[i - 1], end |-> Starts(text)[i] - 1, heading |-> text[i].heading]]

Characters(doc, i, j) == doc[j].end - doc[i].start

-----------------------------------------------------------------------------
(* Sections: tokens from one root heading to the next. *)
Headings(doc) == {i \in 1..Len(doc) : doc[i].heading > 0}
Roots(doc)    == {i \in Headings(doc) : doc[i].heading = Min({doc[j].heading : j \in Headings(doc)})}

(* The section that starts at a token: up to the next root heading. *)
Section(doc, i) ==
    [first |-> i, last |-> Min({r \in Roots(doc) : r > i} \cup {Len(doc) + 1}) - 1]

(* The most tokens from the cursor that fit both budgets, 0 for none. *)
Fitting(doc, cursor, last, tokens, characters) ==
    Max({0} \cup {n \in 1..Min({tokens, last - cursor + 1}) :
                    Characters(doc, cursor, cursor + n - 1) <= characters})

(* Mutant: the overlap is counted from behind the window. *)
NextCursorSkips(cursor, n, overlap) == cursor + n - Min({overlap, n - 1}) + 1

NextCursor(cursor, n, overlap) == cursor + n - Min({overlap, n - 1})

TooLong == [first |-> 0, last |-> 0]

(* Where the cursor is before each turn of the loop of _window_ranges. *)
Cursors(doc, section, tokens, characters, overlap) ==
    LET After(c) == NextCursor(c, Fitting(doc, c, section.last, tokens, characters), overlap)
        at[k \in 0..section.last - section.first] == IF k = 0 THEN section.first ELSE After(at[k - 1])
    IN  at

(* The window at a cursor, TooLong if its first token does not fit. *)
WindowFrom(doc, section, tokens, characters, cursor) ==
    LET n == Fitting(doc, cursor, section.last, tokens, characters)
    IN  IF n = 0 THEN TooLong ELSE [first |-> cursor, last |-> cursor + n - 1]

(* _window_ranges: up to the window that ends the section or is TooLong. *)
Windows(doc, section, tokens, characters, overlap) ==
    LET at   == Cursors(doc, section, tokens, characters, overlap)
        w(k) == WindowFrom(doc, section, tokens, characters, at[k - 1])
    IN  [k \in 1..Min({n \in 1..section.last - section.first + 1 : w(n).last \in {0, section.last}}) |-> w(k)]

(* The parents of the sections that start at or before each token. *)
ParentsTo(doc) ==
    LET upTo[i \in 0..Len(doc)] ==
          IF i = 0 THEN <<>>
          ELSE IF i \in Roots(doc) \cup {1}
          THEN upTo[i - 1] \o Windows(doc, Section(doc, i), ParentTokens, ParentCharacters, 0)
          ELSE upTo[i - 1]
    IN  upTo

Parents(doc) == ParentsTo(doc)[Len(doc)]

Children(doc, parent) ==
    IF parent = TooLong THEN <<TooLong>>
    ELSE Windows(doc, parent, ChildTokens, ChildCharacters, ChildOverlap)

-----------------------------------------------------------------------------
Init == chunking = [pc |-> "idle"]

(* An empty document and a token that fits no window fail the whole. *)
Chunk(doc) ==
    /\ \E parents \in {Parents(doc)} :
         \E children \in {[p \in 1..Len(parents) |-> Children(doc, parents[p])]} :
             chunking' = IF doc = <<>> \/ \E p \in 1..Len(parents) : TooLong \in ToSet(children[p])
                         THEN [pc |-> "failed", doc |-> doc]
                         ELSE [pc |-> "done", doc |-> doc, parents |-> parents, children |-> children]

Next == chunking.pc = "idle" /\ \E text \in Texts : \E doc \in {TokenSpans(text)} : Chunk(doc)

Spec == Init /\ [][Next]_chunkingVars

-----------------------------------------------------------------------------
Within(doc, window, tokens, characters) ==
    /\ window.last - window.first < tokens
    /\ Characters(doc, window.first, window.last) <= characters

(* Windows cover the tokens from first to last in order, each reaches the  *)
(* one before or joins it, and overlaps it at most by what is configured.  *)
Cover(windows, first, last, overlap) ==
    /\ Head(windows).first = first /\ Last(windows).last = last
    /\ \A i \in 1..Len(windows) - 1 :
         LET shared == windows[i].last + 1 - windows[i + 1].first IN
         /\ shared \in 0..overlap
         /\ windows[i].first < windows[i + 1].first /\ windows[i].last <= windows[i + 1].last

(* No token is lost or in two parents, no parent crosses a root heading,   *)
(* the children cover their parent with no more overlap than configured,   *)
(* all keep their budgets, and chunking fails only for a document without  *)
(* tokens or with a token longer than a budget.                            *)
ChunksCover ==
    /\ chunking.pc = "done" =>
         LET doc == chunking.doc
             parents == chunking.parents
         IN  /\ Cover(parents, 1, Len(doc), 0)
             /\ \A p \in 1..Len(parents) :
                  /\ Within(doc, parents[p], ParentTokens, ParentCharacters)
                  /\ \A r \in Roots(doc) : r \notin parents[p].first + 1 .. parents[p].last
                  /\ Cover(chunking.children[p], parents[p].first, parents[p].last, ChildOverlap)
                  /\ \A c \in ToSet(chunking.children[p]) : Within(doc, c, ChildTokens, ChildCharacters)
    /\ chunking.pc = "failed" =>
         \/ chunking.doc = <<>>
         \/ \E i \in 1..Len(chunking.doc) : Characters(chunking.doc, i, i) > Min({ParentCharacters, ChildCharacters})
=============================================================================
