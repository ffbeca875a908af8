---------------------------- MODULE SourceProofs ----------------------------
(***************************************************************************)
(* From a file to the chunks that are searched: every extracted document   *)
(* traces to its source (Extraction), the chunks cover every document      *)
(* within their budgets (Chunking), for texts of every length.  Last, what *)
(* the composition of the services guarantees.                             *)
(***************************************************************************)
EXTENDS ServiceProofs, ArtifactStoreProofs, WellFoundedInduction

-----------------------------------------------------------------------------
(* Recursion and induction up to a number, with sets and functions for the *)
(* formulas and operators that the provers cannot take as parameters.      *)

(* A set of numbers that is not empty has a least one. *)
LEMMA LeastNumber ==
    ASSUME NEW S \in SUBSET Nat, S # {}
    PROVE  \E x \in S : \A y \in S : x <= y
<1> DEFINE R == OpToRel(<, Nat)
<1>1. IsWellFoundedOn(R, Nat)
    BY NatLessThanWellFounded
<1>2. \A x, y \in Nat : x < y => <<x, y>> \in R
    BY DEF OpToRel
<1> HIDE DEF R
<1>3. PICK x \in S : \A y \in S : ~(<<y, x>> \in R)
    BY <1>1, WFMin
<1>4. \A y \in S : ~(y < x)
    BY <1>2, <1>3
<1> QED BY <1>4

(* Induction up to n, for the property that defines the set P. *)
LEMMA InductionTo ==
    ASSUME NEW n \in Nat, NEW P, 0 \in P,
           \A k \in 0..n : k < n /\ k \in P => k + 1 \in P
    PROVE  0..n \subseteq P
<1> DEFINE bad == {k \in 0..n : k \notin P}
<1> SUFFICES ASSUME bad # {} PROVE FALSE
    OBVIOUS
<1>1. bad \in SUBSET Nat
    OBVIOUS
<1> HIDE DEF bad
<1>2. PICK x \in bad : \A y \in bad : x <= y
    BY <1>1, LeastNumber
<1>3. x \in 0..n /\ x \notin P
    BY <1>2 DEF bad
<1>4. x # 0 /\ x - 1 \in 0..n /\ x - 1 < n /\ x - 1 + 1 = x
    BY <1>3
<1>5. x - 1 \in bad
    BY <1>3, <1>4 DEF bad
<1> QED BY <1>2, <1>4, <1>5

(* A function that starts with a and goes on by the steps given for each i. *)
Recurs(f, n, S, a, step) ==
    f \in [0..n -> S] /\ f[0] = a /\ \A i \in 1..n : f[i] = step[i][f[i - 1]]

(* There is a function with a given start and given steps. *)
LEMMA RecursionTo ==
    ASSUME NEW n \in Nat, NEW S, NEW a \in S, NEW step \in [1..n -> [S -> S]]
    PROVE  \E f : Recurs(f, n, S, a, step)
<1> USE DEF Recurs
<1> DEFINE Is(f, m) == Recurs(f, m, S, a, step)
           P == {m \in 0..n : \E f : Is(f, m)}
<1>1. 0 \in P
  <2>1. Is([i \in 0..0 |-> a], 0) /\ 0 \in 0..n
      OBVIOUS
  <2> HIDE DEF Is
  <2> QED BY <2>1
<1>2. ASSUME NEW k \in 0..n, k < n, k \in P PROVE k + 1 \in P
  <2>1. PICK f : Is(f, k)
      BY <1>2
  <2> DEFINE g == [i \in 0..k + 1 |-> IF i = k + 1 THEN step[k + 1][f[k]] ELSE f[i]]
  <2>2. k + 1 \in 1..n /\ k \in 0..k /\ k \in Nat
      BY <1>2
  <2>3. step[k + 1] \in [S -> S] /\ f[k] \in S
      BY <2>1, <2>2
  <2>4. g \in [0..k + 1 -> S]
    <3>1. ASSUME NEW i \in 0..k + 1 PROVE g[i] \in S
      <4>1. CASE i = k + 1
          BY <4>1, <2>3
      <4>2. CASE i # k + 1
          BY <4>2, <2>1, <2>2
      <4> QED BY <4>1, <4>2
    <3> QED BY <3>1
  <2>5. ASSUME NEW i \in 1..k + 1 PROVE g[i] = step[i][g[i - 1]]
    <3>1. CASE i = k + 1
        BY <3>1, <2>2
    <3>2. CASE i # k + 1
        BY <3>2, <2>1, <2>2
    <3> QED BY <3>1, <3>2
  <2>6. g[0] = a
      BY <2>1, <2>2
  <2> HIDE DEF g
  <2>7. Is(g, k + 1)
      BY <2>4, <2>5, <2>6
  <2> QED BY <2>2, <2>7
<1> HIDE DEF P
<1>3. \A k \in 0..n : k < n /\ k \in P => k + 1 \in P
    BY <1>2
<1>4. 0..n \subseteq P
    BY <1>1, <1>3, InductionTo
<1>5. n \in P
    BY <1>4
<1> QED BY <1>5 DEF P

(* A function with that start and those steps has its values in the set.   *)
LEMMA RecursTyped ==
    ASSUME NEW n \in Nat, NEW S, NEW a \in S, NEW step \in [1..n -> [S -> S]],
           NEW f, f = [i \in 0..n |-> f[i]], f[0] = a,
           \A i \in 1..n : f[i - 1] \in S => f[i] = step[i][f[i - 1]]
    PROVE  Recurs(f, n, S, a, step)
<1> DEFINE P == {i \in 0..n : f[i] \in S}
<1>1. 0 \in P
    OBVIOUS
<1>2. ASSUME NEW k \in 0..n, k < n, k \in P PROVE k + 1 \in P
  <2>1. PICK i \in 1..n : i = k + 1
      BY <1>2
  <2>2. i - 1 = k /\ f[k] \in S /\ i \in 0..n
      BY <1>2, <2>1
  <2>3. f[i] = step[i][f[k]] /\ step[i] \in [S -> S]
      BY <2>1, <2>2
  <2>4. f[i] \in S
      BY <2>2, <2>3
  <2> QED BY <2>1, <2>2, <2>4
<1> HIDE DEF P
<1>3. 0..n \subseteq P
    BY <1>1, <1>2, InductionTo
<1>4. \A i \in 0..n : f[i] \in S
    BY <1>3 DEF P
<1>5. f \in [0..n -> S]
    BY <1>4
<1>6. ASSUME NEW i \in 1..n PROVE f[i] = step[i][f[i - 1]]
  <2>1. i - 1 \in 0..n
      OBVIOUS
  <2> QED BY <1>4, <2>1
<1> QED BY <1>5, <1>6 DEF Recurs

-----------------------------------------------------------------------------
(* Extraction. *)

(* A line of a text has characters, be it those of its ending.             *)
LEMMA TextsAre ==
    ASSUME NEW lines \in Extract!Texts
    PROVE  /\ Len(lines) \in Nat
           /\ \A i \in 1..Len(lines) : Extract!Normalized(lines)[i] \in Nat \ {0}
           /\ \A i \in 1..Len(lines) : Extract!Source(lines)[i] \in Nat \ {0}
           /\ Len(Extract!Normalized(lines)) = Len(lines) /\ Len(Extract!Source(lines)) = Len(lines)
<1> DEFINE Lined == \A i \in 1..Len(lines) : /\ lines[i].text \in Nat /\ lines[i].ending \in Nat
                                             /\ lines[i].text > 0 \/ lines[i].ending > 0
<1>1. Len(lines) \in Nat /\ Lined
  <2>1. CASE lines = <<>>
      BY <2>1
  <2>2. ASSUME NEW n \in 1..MaxLines, lines \in [1..n -> Extract!Line] PROVE Len(lines) \in Nat /\ Lined
    <3>1. n \in Nat /\ Len(lines) = n
        BY <2>2, ExtractionAssumption
    <3> QED BY <2>2, <3>1 DEF Extract!Line
  <2>3. ASSUME NEW n \in 1..MaxLines, NEW s \in [1..n - 1 -> Extract!Line], NEW l \in Extract!Rest,
               lines = Append(s, l)
        PROVE  Len(lines) \in Nat /\ Lined
    <3>1. n \in Nat /\ n > 0
        BY <2>3, ExtractionAssumption
    <3>2. Len(s) = n - 1 /\ Len(lines) = n
        BY <2>3, <3>1
    <3>3. lines[n] = l /\ \A i \in 1..n - 1 : lines[i] = s[i]
        BY <2>3, <3>1, <3>2
    <3>4. \A i \in 1..n - 1 : s[i] \in Extract!Line
        OBVIOUS
    <3>5. l.text = 1 /\ l.ending = 0
        BY DEF Extract!Rest
    <3>6. ASSUME NEW i \in 1..n
          PROVE  /\ lines[i].text \in Nat /\ lines[i].ending \in Nat
                 /\ lines[i].text > 0 \/ lines[i].ending > 0
      <4>1. CASE i = n
          BY <3>3, <3>5, <4>1
      <4>2. CASE i # n
        <5>1. i \in 1..n - 1
            BY <3>1, <4>2
        <5>2. lines[i] \in Extract!Line
            BY <3>3, <3>4, <5>1
        <5> QED BY <5>2 DEF Extract!Line
      <4> QED BY <4>1, <4>2
    <3> QED BY <3>1, <3>2, <3>6
  <2>4. \/ lines = <<>>
        \/ \E n \in 1..MaxLines : lines \in [1..n -> Extract!Line]
        \/ \E n \in 1..MaxLines : lines \in {Append(s, l) : s \in [1..n - 1 -> Extract!Line], l \in Extract!Rest}
    <3> DEFINE ended == {[1..n -> Extract!Line] : n \in 1..MaxLines}
               Open(n) == {Append(s, l) : s \in [1..n - 1 -> Extract!Line], l \in Extract!Rest}
               open  == {Open(n) : n \in 1..MaxLines}
    <3>1. lines \in {<<>>} \cup (UNION ended) \cup (UNION open)
        BY DEF Extract!Texts
    <3>2. ASSUME NEW T \in ended, lines \in T PROVE \E n \in 1..MaxLines : lines \in [1..n -> Extract!Line]
        BY Zenon, <3>2
    <3>3. ASSUME NEW T \in open, lines \in T
          PROVE  \E n \in 1..MaxLines :
                   lines \in {Append(s, l) : s \in [1..n - 1 -> Extract!Line], l \in Extract!Rest}
      <4>1. PICK n \in 1..MaxLines : T = Open(n)
        <5> HIDE DEF Open
        <5> QED OBVIOUS
      <4> QED BY <3>3, <4>1
    <3> HIDE DEF ended, open, Lined
    <3> QED BY <3>1, <3>2, <3>3
  <2> HIDE DEF Lined
  <2> QED BY <2>1, <2>2, <2>3, <2>4
<1>2. \A i \in 1..Len(lines) : Extract!Normalized(lines)[i] \in Nat \ {0} /\ Extract!Source(lines)[i] \in Nat \ {0}
    BY <1>1 DEF Extract!Normalized, Extract!Source
<1>3. Len(Extract!Normalized(lines)) = Len(lines) /\ Len(Extract!Source(lines)) = Len(lines)
    BY <1>1 DEF Extract!Normalized, Extract!Source
<1> QED BY <1>1, <1>2, <1>3

(* Each line ends behind where it starts, and the next one starts there.   *)
LEMMA OffsetsAre ==
    ASSUME NEW lengths, Len(lengths) \in Nat, \A i \in 1..Len(lengths) : lengths[i] \in Nat \ {0}
    PROVE  /\ Extract!Offsets(lengths) \in [0..Len(lengths) -> Nat]
           /\ Extract!Offsets(lengths)[0] = 0
           /\ \A i \in 1..Len(lengths) : Extract!Offsets(lengths)[i - 1] < Extract!Offsets(lengths)[i]
           /\ Extract!Total(lengths) = Extract!Offsets(lengths)[Len(lengths)]
<1> DEFINE n == Len(lengths)
           Is(f) == f = [i \in 0..n |-> IF i = 0 THEN 0 ELSE f[i - 1] + lengths[i]]
           step == [i \in 1..n |-> [s \in Nat |-> s + lengths[i]]]
           B == Extract!Offsets(lengths)
<1>1. step \in [1..n -> [Nat -> Nat]]
    OBVIOUS
<1>2. PICK f : Recurs(f, n, Nat, 0, step)
  <2> HIDE DEF step
  <2> QED BY <1>1, RecursionTo
<1>3. ASSUME NEW i \in 1..n PROVE f[i] = f[i - 1] + lengths[i]
  <2>1. i - 1 \in 0..n
      OBVIOUS
  <2>2. f[i] = step[i][f[i - 1]] /\ f[i - 1] \in Nat
    <3> HIDE DEF step, n
    <3> QED BY <1>2, <2>1 DEF Recurs
  <2> QED BY <2>2
<1>4. Is(f)
    BY <1>2, <1>3 DEF Recurs
<1>5. B = CHOOSE g : Is(g)
    BY DEF Extract!Offsets
<1>6. Is(B)
  <2> HIDE DEF Is, B
  <2> QED BY <1>4, <1>5
<1> HIDE DEF B
<1>7. B = [i \in 0..n |-> B[i]] /\ B[0] = 0 /\ \A i \in 1..n : B[i - 1] \in Nat => B[i] = step[i][B[i - 1]]
  <2>1. B = [i \in 0..n |-> B[i]] /\ B[0] = 0
      BY <1>6
  <2>2. ASSUME NEW i \in 1..n, B[i - 1] \in Nat PROVE B[i] = step[i][B[i - 1]]
    <3>1. i \in 0..n /\ i # 0
        OBVIOUS
    <3>2. B[i] = B[i - 1] + lengths[i]
        BY <1>6, <3>1
    <3> QED BY <2>2, <3>2
  <2> HIDE DEF Is, step, n
  <2> QED BY <2>1, <2>2
<1>8. Recurs(B, n, Nat, 0, step)
  <2> HIDE DEF step, n
  <2>1. n \in Nat
      BY DEF n
  <2> QED BY <1>1, <1>7, <2>1, RecursTyped
<1>9. B \in [0..n -> Nat] /\ B[0] = 0
  <2> HIDE DEF step
  <2> QED BY <1>8 DEF Recurs
<1>10. ASSUME NEW i \in 1..n PROVE B[i - 1] < B[i]
  <2>1. i - 1 \in 0..n /\ i \in 0..n /\ i # 0
      OBVIOUS
  <2>2. B[i] = B[i - 1] + lengths[i]
      BY <1>6, <2>1
  <2> QED BY <1>9, <2>1, <2>2
<1> QED BY <1>9, <1>10 DEF B, Extract!Total

Kinds     == {"text", "digital", "ocr"}
Spans     == [start : Nat, end : Nat, from : Nat, to : Nat, page : Nat, kind : Kinds]
Documents == [length : Nat, spans : Seq(Spans)]
PageTypes == [number : Nat, lines : Extract!Texts, kind : Kinds]

(* The spans of a page lie side by side, in the document and in the source *)
(* of the page, from the given offset on.                                  *)
PageSpansFrom(spans, page, offset, boundary) ==
    /\ spans \in Seq(Spans) /\ Len(spans) = Len(page.lines)
    /\ \A k \in 1..Len(spans) :
         /\ spans[k].page = page.number /\ spans[k].kind = page.kind
         /\ spans[k].start < spans[k].end /\ spans[k].from < spans[k].to
    /\ \A k \in 1..Len(spans) : spans[k].start = IF k = 1 THEN offset ELSE spans[k - 1].end
    /\ \A k \in 1..Len(spans) : spans[k].from = IF k = 1 THEN 0 ELSE spans[k - 1].to
    /\ Len(spans) > 0 =>
         /\ spans[Len(spans)].end = offset + Extract!Total(Extract!Normalized(page.lines)) + boundary
         /\ spans[Len(spans)].to = Extract!Total(Extract!Source(page.lines))

(* _page_spans puts the spans of a page side by side. *)
LEMMA PageSpansAre ==
    ASSUME NEW page \in PageTypes, NEW offset \in Nat, NEW boundary \in {0, 1}
    PROVE  /\ PageSpansFrom(Extract!PageSpans(page, offset, boundary), page, offset, boundary)
           /\ Extract!Total(Extract!Normalized(page.lines)) \in Nat
<1> DEFINE n == Len(page.lines)
           A == Extract!Offsets(Extract!Normalized(page.lines))
           B == Extract!Offsets(Extract!Source(page.lines))
           spans == Extract!PageSpans(page, offset, boundary)
<1>1. page.lines \in Extract!Texts /\ page.number \in Nat /\ page.kind \in Kinds
    BY DEF PageTypes
<1>2. n \in Nat
    BY <1>1, TextsAre
<1>3. /\ A \in [0..n -> Nat] /\ A[0] = 0 /\ \A i \in 1..n : A[i - 1] < A[i]
      /\ Extract!Total(Extract!Normalized(page.lines)) = A[n]
  <2>1. /\ Len(Extract!Normalized(page.lines)) = n
        /\ \A i \in 1..n : Extract!Normalized(page.lines)[i] \in Nat \ {0}
      BY <1>1, TextsAre
  <2> QED BY <1>2, <2>1, OffsetsAre
<1>4. /\ B \in [0..n -> Nat] /\ B[0] = 0 /\ \A i \in 1..n : B[i - 1] < B[i]
      /\ Extract!Total(Extract!Source(page.lines)) = B[n]
  <2>1. /\ Len(Extract!Source(page.lines)) = n
        /\ \A i \in 1..n : Extract!Source(page.lines)[i] \in Nat \ {0}
      BY <1>1, TextsAre
  <2> QED BY <1>2, <2>1, OffsetsAre
<1>5. spans = [k \in 1..n |-> [start |-> offset + A[k - 1],
                               end   |-> offset + A[k] + (IF k = n THEN boundary ELSE 0),
                               from  |-> B[k - 1], to |-> B[k], page |-> page.number, kind |-> page.kind]]
  <2> DEFINE segments == Extract!Segments(page.lines)
  <2>1. segments = [k \in 1..n |-> [start |-> A[k - 1], end |-> A[k], from |-> B[k - 1], to |-> B[k]]]
      BY DEF Extract!Segments
  <2> HIDE DEF segments, A, B, n
  <2>2. Len(segments) = n
      BY <1>2, <2>1
  <2>3. spans = [k \in 1..Len(segments) |->
                   [start |-> offset + segments[k].start,
                    end   |-> offset + segments[k].end + (IF k = Len(segments) THEN boundary ELSE 0),
                    from  |-> segments[k].from, to |-> segments[k].to, page |-> page.number, kind |-> page.kind]]
      BY DEF Extract!PageSpans, segments
  <2> HIDE DEF spans
  <2> QED BY <2>1, <2>2, <2>3
<1> HIDE DEF n, A, B, spans
<1>6. ASSUME NEW k \in 1..n
      PROVE  /\ k \in 0..n /\ k - 1 \in 0..n
             /\ A[k] \in Nat /\ A[k - 1] \in Nat /\ A[k - 1] < A[k]
             /\ B[k] \in Nat /\ B[k - 1] \in Nat /\ B[k - 1] < B[k]
  <2>1. k \in 0..n /\ k - 1 \in 0..n
      BY <1>2
  <2> QED BY <1>3, <1>4, <2>1
<1>7. ASSUME NEW k \in 1..n
      PROVE  /\ spans[k].start = offset + A[k - 1]
             /\ spans[k].end = offset + A[k] + (IF k = n THEN boundary ELSE 0)
             /\ spans[k].from = B[k - 1] /\ spans[k].to = B[k]
             /\ spans[k].page = page.number /\ spans[k].kind = page.kind
             /\ spans[k] \in Spans
  <2>1. spans[k] = [start |-> offset + A[k - 1], end |-> offset + A[k] + (IF k = n THEN boundary ELSE 0),
                    from  |-> B[k - 1], to |-> B[k], page |-> page.number, kind |-> page.kind]
      BY <1>5
  <2>2. offset + A[k - 1] \in Nat /\ offset + A[k] + (IF k = n THEN boundary ELSE 0) \in Nat
      BY <1>6
  <2>3. spans[k] \in Spans
      BY <1>1, <1>6, <2>1, <2>2 DEF Spans
  <2> QED BY <2>1, <2>3
<1>8. spans \in Seq(Spans) /\ Len(spans) = n
  <2>1. spans = [k \in 1..n |-> spans[k]]
      BY <1>5
  <2>2. spans \in [1..n -> Spans]
      BY <1>7, <2>1
  <2> QED BY <1>2, <2>2
<1>9. ASSUME NEW k \in 1..n PROVE spans[k].start < spans[k].end /\ spans[k].from < spans[k].to
    BY <1>6, <1>7
<1>10. ASSUME NEW k \in 1..n
       PROVE  /\ spans[k].start = IF k = 1 THEN offset ELSE spans[k - 1].end
              /\ spans[k].from = IF k = 1 THEN 0 ELSE spans[k - 1].to
  <2>1. CASE k = 1
    <3>1. k - 1 = 0
        BY <2>1
    <3> QED BY <1>3, <1>4, <1>7, <2>1, <3>1
  <2>2. CASE k # 1
    <3>1. k - 1 \in 1..n /\ k - 1 # n
        BY <1>2, <2>2
    <3>2. spans[k - 1].end = offset + A[k - 1] + 0 /\ spans[k - 1].to = B[k - 1]
        BY <1>7, <3>1
    <3>3. offset + A[k - 1] + 0 = offset + A[k - 1]
        BY <1>6
    <3>4. spans[k].start = offset + A[k - 1] /\ spans[k].from = B[k - 1]
        BY <1>7
    <3> QED BY <2>2, <3>2, <3>3, <3>4
  <2> QED BY <2>1, <2>2
<1>11. ASSUME n > 0 PROVE spans[n].end = offset + A[n] + boundary /\ spans[n].to = B[n]
    BY <1>2, <1>7, <1>11
<1>12. A[n] \in Nat
    BY <1>2, <1>3
<1>13. /\ Extract!Total(Extract!Normalized(page.lines)) = A[n]
       /\ Extract!Total(Extract!Source(page.lines)) = B[n]
    BY <1>3, <1>4
<1>14. PageSpansFrom(spans, page, offset, boundary)
    BY <1>7, <1>8, <1>9, <1>10, <1>11, <1>13 DEF PageSpansFrom, n
<1> QED BY <1>12, <1>13, <1>14 DEF spans

(* The spans of a document: each starts where the one before ends, and it  *)
(* ends with the last.                                                     *)
Chained(document) ==
    LET spans == document.spans IN
    /\ \A j \in 1..Len(spans) : spans[j].start = IF j = 1 THEN 0 ELSE spans[j - 1].end
    /\ \A j \in 1..Len(spans) : spans[j].start < spans[j].end /\ spans[j].from < spans[j].to
    /\ document.length = IF Len(spans) = 0 THEN 0 ELSE spans[Len(spans)].end

(* Those of a page follow its source from its first character to its last. *)
Follows(spans) ==
    /\ \A j \in 1..Len(spans) :
         spans[j].from = IF j = 1 \/ spans[j - 1].page # spans[j].page THEN 0 ELSE spans[j - 1].to
    /\ \A j \in 1..Len(spans) - 1 : spans[j].page <= spans[j + 1].page

Complete(spans, texts) ==
    \A j \in 1..Len(spans) :
      (j = Len(spans) \/ spans[j + 1].page # spans[j].page) =>
         spans[j].to = Extract!Total(Extract!Source(texts[spans[j].page]))

(* Pages with text, in order, each of them with the text it has.           *)
PagesOf(pages, texts, missing) ==
    /\ pages \in Seq(PageTypes)
    /\ \A h \in 1..Len(pages) :
         /\ Len(pages[h].lines) > 0 /\ pages[h].lines = texts[pages[h].number]
         /\ pages[h].kind = "ocr" <=> pages[h].number \in missing
    /\ \A g, h \in 1..Len(pages) : g < h => pages[g].number < pages[h].number

(* The document of the first i pages.                                      *)
TracedTo(document, pages, texts, missing, i) ==
    LET spans == document.spans IN
    /\ document \in Documents
    /\ Chained(document) /\ Follows(spans) /\ Complete(spans, texts)
    /\ \A j \in 1..Len(spans) :
         /\ spans[j].kind = "ocr" <=> spans[j].page \in missing
         /\ \E h \in 1..i : spans[j].page = pages[h].number
    /\ \A h \in 1..i : \E j \in 1..Len(spans) : spans[j].page = pages[h].number

(* One more page keeps the document traced. *)
LEMMA AddPageTraces ==
    ASSUME NEW pages, NEW texts, NEW missing, PagesOf(pages, texts, missing),
           NEW k \in Nat, NEW i \in 1..Len(pages), i = k + 1, NEW boundary \in {0, 1},
           NEW document, TracedTo(document, pages, texts, missing, k)
    PROVE  TracedTo(Extract!AddPage(document, pages[i], boundary), pages, texts, missing, i)
<1> DEFINE page   == pages[i]
           p      == page.number
           A      == document.spans
           offset == document.length
           B      == Extract!PageSpans(page, offset, boundary)
           total  == Extract!Total(Extract!Normalized(page.lines))
           a      == Len(A)
           b      == Len(B)
           C      == A \o B
           to     == Extract!Total(Extract!Source(page.lines))
           result == Extract!AddPage(document, page, boundary)
<1>1. /\ page \in PageTypes /\ Len(page.lines) > 0 /\ page.lines = texts[p] /\ p \in Nat
      /\ page.kind = "ocr" <=> p \in missing
      /\ Len(pages) \in Nat
  <2>1. pages \in Seq(PageTypes)
      BY DEF PagesOf
  <2>2. page \in PageTypes /\ Len(pages) \in Nat
      BY <2>1
  <2>3. /\ Len(page.lines) > 0 /\ page.lines = texts[p]
        /\ page.kind = "ocr" <=> p \in missing
      BY DEF PagesOf
  <2> HIDE DEF page
  <2> QED BY <2>2, <2>3 DEF PageTypes
<1>2. offset \in Nat /\ A \in Seq(Spans)
    BY DEF TracedTo, Documents
<1>3. PageSpansFrom(B, page, offset, boundary) /\ total \in Nat
  <2> HIDE DEF B, page, offset, total
  <2> QED BY <1>1, <1>2, PageSpansAre DEF B, total
<1>4. result = [length |-> offset + total + boundary, spans |-> C]
    BY DEF Extract!AddPage
<1>5. \A j \in 1..Len(A) : /\ A[j].kind = "ocr" <=> A[j].page \in missing
                           /\ \E h \in 1..k : A[j].page = pages[h].number
    BY DEF TracedTo
<1>6. \A h \in 1..k : \E j \in 1..Len(A) : A[j].page = pages[h].number
    BY DEF TracedTo
<1>7. /\ \A j \in 1..Len(A) : A[j].start = IF j = 1 THEN 0 ELSE A[j - 1].end
      /\ \A j \in 1..Len(A) : A[j].start < A[j].end /\ A[j].from < A[j].to
      /\ offset = IF Len(A) = 0 THEN 0 ELSE A[Len(A)].end
    BY DEF TracedTo, Chained
<1>8. /\ \A j \in 1..Len(A) : A[j].from = IF j = 1 \/ A[j - 1].page # A[j].page THEN 0 ELSE A[j - 1].to
      /\ \A j \in 1..Len(A) - 1 : A[j].page <= A[j + 1].page
    BY DEF TracedTo, Follows
<1>9. \A j \in 1..Len(A) : (j = Len(A) \/ A[j + 1].page # A[j].page) =>
                             A[j].to = Extract!Total(Extract!Source(texts[A[j].page]))
    BY DEF TracedTo, Complete
<1>10. /\ B \in Seq(Spans) /\ Len(B) > 0
       /\ \A j \in 1..Len(B) : /\ B[j].page = p /\ B[j].kind = page.kind
                               /\ B[j].start < B[j].end /\ B[j].from < B[j].to
                               /\ B[j].start = IF j = 1 THEN offset ELSE B[j - 1].end
                               /\ B[j].from = IF j = 1 THEN 0 ELSE B[j - 1].to
       /\ B[Len(B)].end = offset + total + boundary /\ B[Len(B)].to = to
  <2> HIDE DEF B, offset, total
  <2> QED BY <1>1, <1>3 DEF PageSpansFrom, total
<1>11. \A h \in 1..k : pages[h].number \in Nat /\ pages[h].number < p
  <2>1. ASSUME NEW h \in 1..k PROVE pages[h].number \in Nat /\ pages[h].number < p
    <3>1. h \in 1..Len(pages) /\ h < i
        BY <1>1
    <3>2. pages \in Seq(PageTypes) /\ pages[h].number < pages[i].number
        BY <3>1 DEF PagesOf
    <3>3. pages[h] \in PageTypes
        BY <3>1, <3>2
    <3>4. pages[h].number \in Nat
        BY <3>3 DEF PageTypes
    <3> QED BY <3>2, <3>4 DEF p, page
  <2> QED BY <2>1
<1> HIDE DEF A, B, offset, total, p, to, page
<1>12. a \in Nat /\ b \in Nat /\ b > 0
    BY <1>2, <1>10
<1>13. C \in Seq(Spans) /\ Len(C) = a + b
       /\ \A j \in 1..a + b : C[j] = IF j <= a THEN A[j] ELSE B[j - a]
    BY <1>2, <1>10, ConcatProperties
<1> HIDE DEF C
<1>14. \A j \in 1..a : j \in 1..a + b /\ C[j] = A[j]
    BY <1>12, <1>13
<1>15. ASSUME NEW j \in 1..b PROVE a + j \in 1..a + b /\ C[a + j] = B[j]
  <2>1. a + j \in 1..a + b /\ ~(a + j <= a) /\ a + j - a = j
      BY <1>12
  <2> QED BY <1>13, <2>1
<1>16. ASSUME NEW j \in 1..a + b, ~(j <= a)
       PROVE  \E h \in 1..b : j = a + h /\ C[j] = B[h]
  <2>1. j - a \in 1..b /\ j = a + (j - a)
      BY <1>12, <1>16
  <2> QED BY <1>13, <1>16, <2>1
<1>17. \A j \in 1..a : A[j].page \in Nat /\ A[j].page < p
    BY <1>5, <1>11
<1> HIDE DEF a, b
<1>18. ASSUME NEW j \in 1..a + b
       PROVE  /\ C[j].start = IF j = 1 THEN 0 ELSE C[j - 1].end
              /\ C[j].from = IF j = 1 \/ C[j - 1].page # C[j].page THEN 0 ELSE C[j - 1].to
              /\ j > 1 => C[j - 1].page <= C[j].page
              /\ C[j].start < C[j].end /\ C[j].from < C[j].to
  <2>1. CASE j <= a
    <3>1. j \in 1..a /\ C[j] = A[j]
        BY <1>12, <1>14, <2>1
    <3>2. C[j].start < C[j].end /\ C[j].from < C[j].to
        BY <1>7, <3>1 DEF a
    <3>3. CASE j = 1
        BY <1>7, <1>8, <3>1, <3>2, <3>3 DEF a
    <3>4. CASE j # 1
      <4>1. PICK h \in 1..a : h = j - 1 /\ h + 1 = j
          BY <1>12, <3>1, <3>4
      <4>2. C[h] = A[h] /\ h \in 1..a - 1
          BY <1>12, <1>14, <3>1, <4>1
      <4>3. A[h].page <= A[j].page
          BY <1>8, <4>1, <4>2 DEF a
      <4>4. A[j].start = A[h].end /\ A[j].from = IF A[h].page # A[j].page THEN 0 ELSE A[h].to
          BY <1>7, <1>8, <3>1, <3>4, <4>1 DEF a
      <4> QED BY <3>1, <3>2, <3>4, <4>1, <4>2, <4>3, <4>4
    <3> QED BY <3>3, <3>4
  <2>2. CASE ~(j <= a)
    <3>1. PICK h \in 1..b : j = a + h /\ C[j] = B[h]
        BY <1>16, <2>2
    <3>2. /\ B[h].page = p /\ B[h].start < B[h].end /\ B[h].from < B[h].to
          /\ B[h].start = IF h = 1 THEN offset ELSE B[h - 1].end
          /\ B[h].from = IF h = 1 THEN 0 ELSE B[h - 1].to
        BY <1>10 DEF b
    <3>3. CASE h = 1
      <4>1. CASE a = 0
        <5>1. j = 1 /\ offset = 0
            BY <1>7, <3>1, <3>3, <4>1 DEF a
        <5> QED BY <3>1, <3>2, <3>3, <5>1
      <4>2. CASE a # 0
        <5>1. j - 1 = a /\ a \in 1..a /\ j # 1
            BY <1>12, <3>1, <3>3, <4>2
        <5>2. C[a] = A[a] /\ offset = A[a].end /\ A[a].page < p /\ A[a].page \in Nat
            BY <1>7, <1>14, <1>17, <4>2, <5>1 DEF a
        <5>3. C[j - 1].page # C[j].page /\ C[j - 1].page <= C[j].page
            BY <1>1, <3>1, <3>2, <5>1, <5>2 DEF p
        <5>4. C[j].start = C[j - 1].end /\ C[j].from = 0
            BY <3>1, <3>2, <3>3, <5>1, <5>2
        <5> QED BY <3>1, <3>2, <5>1, <5>3, <5>4
      <4> QED BY <4>1, <4>2
    <3>4. CASE h # 1
      <4>1. PICK g \in 1..b : g = h - 1 /\ j - 1 = a + g /\ j # 1
          BY <1>12, <3>1, <3>4
      <4>2. C[j - 1] = B[g] /\ B[g].page = p
          BY <1>10, <1>15, <4>1 DEF b
      <4>3. C[j].start = C[j - 1].end /\ C[j].from = C[j - 1].to /\ C[j - 1].page = p /\ C[j].page = p
          BY <3>1, <3>2, <3>4, <4>1, <4>2
      <4> QED BY <1>1, <3>1, <3>2, <4>1, <4>3 DEF p
    <3> QED BY <3>3, <3>4
  <2> QED BY <2>1, <2>2
<1>19. ASSUME NEW j \in 1..a + b, j = a + b \/ C[j + 1].page # C[j].page
       PROVE  C[j].to = Extract!Total(Extract!Source(texts[C[j].page]))
  <2>1. CASE j <= a
    <3>1. j \in 1..a /\ C[j] = A[j] /\ j # a + b
        BY <1>12, <1>14, <2>1
    <3>2. j = a \/ A[j + 1].page # A[j].page
      <4>1. CASE j # a
        <5>1. j + 1 \in 1..a
            BY <1>12, <3>1, <4>1
        <5> QED BY <1>14, <1>19, <3>1, <5>1
      <4> QED BY <4>1
    <3> QED BY <1>9, <3>1, <3>2 DEF a
  <2>2. CASE ~(j <= a)
    <3>1. PICK h \in 1..b : j = a + h /\ C[j] = B[h]
        BY <1>16, <2>2
    <3>2. h = b
      <4>1. CASE h # b
        <5>1. PICK g \in 1..b : g = h + 1 /\ j + 1 = a + g /\ j # a + b
            BY <1>12, <3>1, <4>1
        <5>2. C[j + 1].page = p /\ C[j].page = p
            BY <1>10, <1>15, <3>1, <5>1 DEF b
        <5> QED BY <1>19, <5>1, <5>2
      <4> QED BY <4>1
    <3>3. C[j].to = to /\ C[j].page = p
        BY <1>10, <3>1, <3>2 DEF b
    <3> QED BY <1>1, <3>3 DEF to
  <2> QED BY <2>1, <2>2
<1>20. ASSUME NEW j \in 1..a + b
       PROVE  /\ C[j].kind = "ocr" <=> C[j].page \in missing
              /\ \E h \in 1..i : C[j].page = pages[h].number
  <2>1. CASE j <= a
    <3>1. j \in 1..a /\ C[j] = A[j]
        BY <1>12, <1>14, <2>1
    <3>2. PICK h \in 1..k : A[j].page = pages[h].number
        BY <1>5, <3>1 DEF a
    <3>3. h \in 1..i
        BY <3>2
    <3> QED BY <1>5, <3>1, <3>2, <3>3 DEF a
  <2>2. CASE ~(j <= a)
    <3>1. PICK h \in 1..b : j = a + h /\ C[j] = B[h]
        BY <1>16, <2>2
    <3>2. C[j].page = p /\ C[j].kind = page.kind /\ p = pages[i].number /\ i \in 1..i
        BY <1>10, <3>1 DEF b, p, page
    <3> QED BY <1>1, <3>2
  <2> QED BY <2>1, <2>2
<1>21. ASSUME NEW h \in 1..i PROVE \E j \in 1..a + b : C[j].page = pages[h].number
  <2>1. CASE h = i
    <3>1. 1 \in 1..b
        BY <1>12
    <3>2. a + 1 \in 1..a + b /\ C[a + 1].page = p
        BY <1>10, <1>15, <3>1 DEF b
    <3> QED BY <2>1, <3>2 DEF p, page
  <2>2. CASE h # i
    <3>1. h \in 1..k
        BY <2>2
    <3> QED BY <1>6, <1>14, <3>1 DEF a
  <2> QED BY <2>1, <2>2
<1>22. C[a + b].end = offset + total + boundary /\ a + b # 0
  <2>1. b \in 1..b
      BY <1>12
  <2> QED BY <1>10, <1>12, <1>15, <2>1 DEF b
<1>23. ASSUME NEW j \in 1..Len(C) - 1 PROVE C[j].page <= C[j + 1].page
  <2>1. j + 1 \in 1..a + b /\ j + 1 > 1 /\ j + 1 - 1 = j
      BY <1>12, <1>13
  <2> QED BY <1>18, <2>1
<1>24. result.spans = C /\ result.length = offset + total + boundary
    BY <1>4
<1>25. result \in Documents
  <2>1. offset + total + boundary \in Nat
      BY <1>2, <1>3
  <2> QED BY <1>4, <1>13, <2>1 DEF Documents
<1> HIDE DEF result
<1>26. Chained(result)
    BY <1>13, <1>18, <1>22, <1>24 DEF Chained
<1>27. Follows(C) /\ Complete(C, texts)
    BY <1>13, <1>18, <1>19, <1>23 DEF Follows, Complete
<1>28. TracedTo(result, pages, texts, missing, i)
    BY <1>13, <1>20, <1>21, <1>24, <1>25, <1>26, <1>27 DEF TracedTo
<1> QED BY <1>28 DEF result, page

(* A document with one more page is a document. *)
LEMMA AddPageType ==
    ASSUME NEW document \in Documents, NEW page \in PageTypes, NEW boundary \in {0, 1}
    PROVE  Extract!AddPage(document, page, boundary) \in Documents
<1> DEFINE offset == document.length
           B == Extract!PageSpans(page, offset, boundary)
           total == Extract!Total(Extract!Normalized(page.lines))
<1>1. offset \in Nat /\ document.spans \in Seq(Spans)
    BY DEF Documents
<1>2. B \in Seq(Spans) /\ total \in Nat
  <2> HIDE DEF offset
  <2> QED BY <1>1, PageSpansAre DEF PageSpansFrom
<1>3. Extract!AddPage(document, page, boundary) = [length |-> offset + total + boundary, spans |-> document.spans \o B]
    BY DEF Extract!AddPage
<1> HIDE DEF offset, B, total
<1>4. offset + total + boundary \in Nat /\ document.spans \o B \in Seq(Spans)
    BY <1>1, <1>2
<1> QED BY <1>3, <1>4 DEF Documents

(* What the loop over the pages computes. *)
LEMMA AssembledIs ==
    ASSUME NEW pages \in Seq(PageTypes)
    PROVE  LET upTo == Extract!Assembled(pages) IN
           /\ upTo[0] = Extract!Empty
           /\ \A i \in 1..Len(pages) :
                upTo[i] = Extract!AddPage(upTo[i - 1], pages[i], Extract!Boundary(pages, i))
<1> DEFINE n == Len(pages)
           S == Documents
           Goes(i, d) == Extract!AddPage(d, pages[i], Extract!Boundary(pages, i))
           Is(f) == f = [i \in 0..n |-> IF i = 0 THEN Extract!Empty
                                        ELSE Extract!AddPage(f[i - 1], pages[i], Extract!Boundary(pages, i))]
           step == [i \in 1..n |-> [d \in S |-> Goes(i, d)]]
           upTo == Extract!Assembled(pages)
<1>1. n \in Nat /\ Extract!Empty \in S
  <2>1. <<>> \in Seq(Spans)
      OBVIOUS
  <2> QED BY <2>1 DEF Extract!Empty, Documents
<1>2. step \in [1..n -> [S -> S]]
  <2>1. ASSUME NEW i \in 1..n, NEW d \in S PROVE Goes(i, d) \in S
    <3>1. pages[i] \in PageTypes /\ Extract!Boundary(pages, i) \in {0, 1}
        BY DEF Extract!Boundary
    <3> QED BY <3>1, AddPageType
  <2> HIDE DEF Goes, S, n
  <2> QED BY <2>1
<1>3. PICK f : Recurs(f, n, S, Extract!Empty, step)
  <2> HIDE DEF step, n, S
  <2> QED BY <1>1, <1>2, RecursionTo
<1>4. ASSUME NEW i \in 1..n PROVE f[i] = Goes(i, f[i - 1])
  <2>1. i - 1 \in 0..n
      BY <1>1
  <2>2. f[i] = step[i][f[i - 1]] /\ f[i - 1] \in S
    <3> HIDE DEF step, n, S
    <3> QED BY <1>3, <2>1 DEF Recurs
  <2> HIDE DEF Goes, S, n
  <2> QED BY <2>2
<1>5. f = [i \in 0..n |-> f[i]] /\ f[0] = Extract!Empty
  <2> HIDE DEF step, n, S
  <2> QED BY <1>3 DEF Recurs
<1>6. Is(f)
  <2> DEFINE g == [i \in 0..n |-> IF i = 0 THEN Extract!Empty
                                  ELSE Extract!AddPage(f[i - 1], pages[i], Extract!Boundary(pages, i))]
  <2>1. ASSUME NEW i \in 0..n PROVE f[i] = g[i]
    <3>1. CASE i = 0
        BY <1>5, <3>1
    <3>2. CASE i # 0
      <4>1. i \in 1..n
          BY <1>1, <3>2
      <4> HIDE DEF n
      <4> QED BY <1>4, <4>1, <3>2
    <3> QED BY <3>1, <3>2
  <2> HIDE DEF n
  <2> QED BY <1>5, <2>1
<1>7. upTo = CHOOSE g : Is(g)
    BY DEF Extract!Assembled
<1>8. Is(upTo)
  <2> HIDE DEF Is, upTo
  <2> QED BY <1>6, <1>7
<1> HIDE DEF upTo, n
<1>9. upTo[0] = Extract!Empty
    BY <1>1, <1>8
<1>10. ASSUME NEW i \in 1..n
       PROVE  upTo[i] = Extract!AddPage(upTo[i - 1], pages[i], Extract!Boundary(pages, i))
  <2>1. i \in 0..n /\ i # 0
      BY <1>1
  <2> QED BY <1>8, <2>1
<1> QED BY <1>9, <1>10 DEF upTo, n

(* The document of a sequence of pages traces to them. *)
LEMMA PdfTraced ==
    ASSUME NEW pages, NEW texts, NEW missing, PagesOf(pages, texts, missing)
    PROVE  TracedTo(Extract!PdfDocument(pages), pages, texts, missing, Len(pages))
<1> DEFINE n == Len(pages)
           upTo == Extract!Assembled(pages)
           P == {i \in 0..n : TracedTo(upTo[i], pages, texts, missing, i)}
<1>1. pages \in Seq(PageTypes) /\ n \in Nat
    BY DEF PagesOf
<1>2. /\ upTo[0] = Extract!Empty
      /\ \A i \in 1..n : upTo[i] = Extract!AddPage(upTo[i - 1], pages[i], Extract!Boundary(pages, i))
    BY <1>1, AssembledIs
<1> HIDE DEF upTo
<1>3. 0 \in P
  <2>1. upTo[0].length = 0 /\ upTo[0].spans = <<>> /\ upTo[0] \in Documents
    <3>1. <<>> \in Seq(Spans)
        OBVIOUS
    <3> QED BY <1>2, <3>1 DEF Extract!Empty, Documents
  <2>2. Len(upTo[0].spans) = 0
      BY <2>1
  <2>3. TracedTo(upTo[0], pages, texts, missing, 0)
      BY <2>1, <2>2 DEF TracedTo, Chained, Follows, Complete
  <2> QED BY <1>1, <2>3
<1>4. ASSUME NEW k \in 0..n, k < n, k \in P PROVE k + 1 \in P
  <2>1. PICK i \in 1..n : i = k + 1
      BY <1>4
  <2>2. i - 1 = k /\ k \in Nat /\ TracedTo(upTo[k], pages, texts, missing, k)
      BY <1>4, <2>1
  <2>3. Extract!Boundary(pages, i) \in {0, 1}
      BY DEF Extract!Boundary
  <2>4. TracedTo(Extract!AddPage(upTo[k], pages[i], Extract!Boundary(pages, i)), pages, texts, missing, i)
      BY <2>1, <2>2, <2>3, AddPageTraces
  <2>5. upTo[i] = Extract!AddPage(upTo[k], pages[i], Extract!Boundary(pages, i))
      BY <1>2, <2>2
  <2> QED BY <2>1, <2>4, <2>5
<1> HIDE DEF P, n
<1>5. 0..n \subseteq P
    BY <1>1, <1>3, <1>4, InductionTo
<1>6. n \in P
    BY <1>1, <1>5
<1> QED BY <1>6 DEF P, Extract!PdfDocument, n, upTo

(* A text that is not blank has lines. *)
LEMMA HasLines ==
    ASSUME NEW lines \in Extract!Texts, ~Extract!Blank(lines)
    PROVE  Len(lines) > 0
<1>1. Len(lines) \in Nat
    BY TextsAre
<1>2. PICK i \in 1..Len(lines) : lines[i].text # 0
    BY DEF Extract!Blank
<1> QED BY <1>1, <1>2

(* The pages with text, among those up to a number, and no others.         *)
KeptOf(pages, texts, missing, i) ==
    /\ PagesOf(pages, texts, missing)
    /\ \A h \in 1..Len(pages) : pages[h].number \in 1..i /\ ~Extract!Blank(texts[pages[h].number])
    /\ \A g \in 1..i : ~Extract!Blank(texts[g]) => \E h \in 1..Len(pages) : pages[h].number = g

PageAt(texts, missing, i) ==
    [number |-> i, lines |-> texts[i], kind |-> IF i \in missing THEN "ocr" ELSE "digital"]

(* What the loop over the extracted texts computes. *)
LEMMA KeptToIs ==
    ASSUME NEW texts \in Seq(Extract!Texts), NEW missing
    PROVE  LET upTo == Extract!KeptTo(texts, missing) IN
           /\ upTo[0] = <<>>
           /\ \A i \in 1..Len(texts) :
                upTo[i] = IF Extract!Blank(texts[i]) THEN upTo[i - 1]
                          ELSE Append(upTo[i - 1], PageAt(texts, missing, i))
<1> DEFINE n == Len(texts)
           S == Seq(PageTypes)
           Page(i) == [number |-> i, lines |-> texts[i], kind |-> IF i \in missing THEN "ocr" ELSE "digital"]
           Goes(i, w) == IF Extract!Blank(texts[i]) THEN w ELSE Append(w, Page(i))
           Is(f) == f = [i \in 0..n |-> IF i = 0 THEN <<>> ELSE IF Extract!Blank(texts[i]) THEN f[i - 1]
                                        ELSE Append(f[i - 1], Page(i))]
           step == [i \in 1..n |-> [w \in S |-> Goes(i, w)]]
           upTo == Extract!KeptTo(texts, missing)
<1>1. n \in Nat /\ <<>> \in S
    OBVIOUS
<1>2. step \in [1..n -> [S -> S]]
  <2>1. ASSUME NEW i \in 1..n, NEW w \in S PROVE Goes(i, w) \in S
    <3>1. texts[i] \in Extract!Texts /\ i \in Nat
        BY <1>1
    <3>2. (IF i \in missing THEN "ocr" ELSE "digital") \in Kinds
        BY DEF Kinds
    <3>3. Page(i) \in PageTypes
        BY <3>1, <3>2 DEF PageTypes
    <3> HIDE DEF Page
    <3> QED BY <3>3
  <2> HIDE DEF Goes, S, n
  <2> QED BY <2>1
<1>3. PICK f : Recurs(f, n, S, <<>>, step)
  <2> HIDE DEF step, n, S
  <2> QED BY <1>1, <1>2, RecursionTo
<1>4. ASSUME NEW i \in 1..n PROVE f[i] = Goes(i, f[i - 1])
  <2>1. i - 1 \in 0..n
      BY <1>1
  <2>2. f[i] = step[i][f[i - 1]] /\ f[i - 1] \in S
    <3> HIDE DEF step, n, S
    <3> QED BY <1>3, <2>1 DEF Recurs
  <2> HIDE DEF Goes, S, n
  <2> QED BY <2>2
<1>5. f = [i \in 0..n |-> f[i]] /\ f[0] = <<>>
  <2> HIDE DEF step, n, S
  <2> QED BY <1>3 DEF Recurs
<1>6. Is(f)
  <2> DEFINE g == [i \in 0..n |-> IF i = 0 THEN <<>> ELSE IF Extract!Blank(texts[i]) THEN f[i - 1]
                                  ELSE Append(f[i - 1], Page(i))]
  <2>1. ASSUME NEW i \in 0..n PROVE f[i] = g[i]
    <3> HIDE DEF Page
    <3>1. CASE i = 0
        BY <1>5, <3>1
    <3>2. CASE i # 0
      <4>1. i \in 1..n
          BY <1>1, <3>2
      <4> HIDE DEF n
      <4> QED BY <1>4, <4>1, <3>2
    <3> QED BY <3>1, <3>2
  <2> HIDE DEF n, Page
  <2> QED BY <1>5, <2>1
<1>7. upTo = CHOOSE g : Is(g)
    BY DEF Extract!KeptTo
<1>8. Is(upTo)
  <2> HIDE DEF Is, upTo
  <2> QED BY <1>6, <1>7
<1> HIDE DEF upTo, n
<1>9. upTo[0] = <<>>
    BY <1>1, <1>8
<1>10. ASSUME NEW i \in 1..n
       PROVE  upTo[i] = IF Extract!Blank(texts[i]) THEN upTo[i - 1] ELSE Append(upTo[i - 1], PageAt(texts, missing, i))
  <2>1. i \in 0..n /\ i # 0
      BY <1>1
  <2>2. Page(i) = PageAt(texts, missing, i)
      BY DEF PageAt
  <2> HIDE DEF Page
  <2> QED BY <1>8, <2>1, <2>2
<1> QED BY <1>9, <1>10 DEF upTo, n

(* One more page with text is kept behind the others. *)
LEMMA AppendKeeps ==
    ASSUME NEW texts \in Seq(Extract!Texts), NEW missing, NEW k \in 0..Len(texts), NEW i \in 1..Len(texts), i = k + 1,
           NEW pages, KeptOf(pages, texts, missing, k), ~Extract!Blank(texts[i])
    PROVE  KeptOf(Append(pages, PageAt(texts, missing, i)), texts, missing, i)
<1> DEFINE page == PageAt(texts, missing, i)
           m == Len(pages)
           C == Append(pages, page)
<1>1. /\ pages \in Seq(PageTypes) /\ m \in Nat /\ k \in Nat
      /\ \A h \in 1..m : /\ Len(pages[h].lines) > 0 /\ pages[h].lines = texts[pages[h].number]
                         /\ pages[h].kind = "ocr" <=> pages[h].number \in missing
                         /\ pages[h].number \in 1..k /\ ~Extract!Blank(texts[pages[h].number])
      /\ \A g, h \in 1..m : g < h => pages[g].number < pages[h].number
  <2>1. PagesOf(pages, texts, missing)
      BY DEF KeptOf
  <2>2. \A h \in 1..m : pages[h].number \in 1..k /\ ~Extract!Blank(texts[pages[h].number])
      BY DEF KeptOf
  <2>3. pages \in Seq(PageTypes) /\ \A g, h \in 1..m : g < h => pages[g].number < pages[h].number
      BY <2>1 DEF PagesOf
  <2>4. \A h \in 1..m : /\ Len(pages[h].lines) > 0 /\ pages[h].lines = texts[pages[h].number]
                        /\ pages[h].kind = "ocr" <=> pages[h].number \in missing
      BY <2>1 DEF PagesOf
  <2>5. m \in Nat /\ k \in Nat
      BY <2>3
  <2> HIDE DEF m
  <2> QED BY <2>2, <2>3, <2>4, <2>5
<1>2. \A g \in 1..k : ~Extract!Blank(texts[g]) => \E h \in 1..m : pages[h].number = g
    BY DEF KeptOf
<1>3. texts[i] \in Extract!Texts /\ i \in Nat
    BY <1>1
<1>4. /\ page.number = i /\ page.lines = texts[i] /\ Len(page.lines) > 0
      /\ page.kind = "ocr" <=> i \in missing
    BY <1>3, HasLines DEF PageAt
<1>5. page \in PageTypes
  <2>1. (IF i \in missing THEN "ocr" ELSE "digital") \in Kinds
      BY DEF Kinds
  <2> QED BY <1>3, <2>1 DEF PageAt, PageTypes
<1> HIDE DEF page
<1>6. C \in Seq(PageTypes) /\ Len(C) = m + 1 /\ C[m + 1] = page /\ \A h \in 1..m : C[h] = pages[h]
    BY <1>1, <1>5
<1> HIDE DEF C, m
<1>7. ASSUME NEW h \in 1..m + 1 PROVE (h \in 1..m /\ C[h] = pages[h]) \/ (h = m + 1 /\ C[h] = page)
    BY <1>1, <1>6
<1>8. ASSUME NEW h \in 1..m + 1
      PROVE  /\ Len(C[h].lines) > 0 /\ C[h].lines = texts[C[h].number]
             /\ C[h].kind = "ocr" <=> C[h].number \in missing
             /\ C[h].number \in 1..i /\ ~Extract!Blank(texts[C[h].number])
  <2>1. CASE h \in 1..m /\ C[h] = pages[h]
    <3>1. pages[h].number \in 1..i
        BY <1>1, <2>1
    <3> QED BY <1>1, <2>1, <3>1
  <2>2. CASE h = m + 1 /\ C[h] = page
    <3>1. i \in 1..i
        BY <1>3
    <3> QED BY <1>4, <2>2, <3>1
  <2> QED BY <1>7, <2>1, <2>2
<1>9. ASSUME NEW g \in 1..m + 1, NEW h \in 1..m + 1, g < h PROVE C[g].number < C[h].number
  <2>1. g \in 1..m /\ C[g] = pages[g]
      BY <1>1, <1>6, <1>9
  <2>2. CASE h \in 1..m /\ C[h] = pages[h]
      BY <1>1, <1>9, <2>1, <2>2
  <2>3. CASE h = m + 1 /\ C[h] = page
    <3>1. pages[g].number \in 1..k
        BY <1>1, <2>1
    <3> QED BY <1>1, <1>4, <2>1, <2>3, <3>1
  <2> QED BY <1>7, <2>2, <2>3
<1>10. ASSUME NEW g \in 1..i, ~Extract!Blank(texts[g]) PROVE \E h \in 1..m + 1 : C[h].number = g
  <2>1. CASE g = i
    <3>1. m + 1 \in 1..m + 1
        BY <1>1
    <3> QED BY <1>4, <1>6, <2>1, <3>1
  <2>2. CASE g # i
    <3>1. g \in 1..k
        BY <1>1, <2>2
    <3>2. PICK h \in 1..m : pages[h].number = g
        BY <1>2, <1>10, <3>1
    <3>3. h \in 1..m + 1
        BY <1>1
    <3> QED BY <1>6, <3>2, <3>3
  <2> QED BY <2>1, <2>2
<1>11. PagesOf(C, texts, missing)
    BY <1>6, <1>8, <1>9 DEF PagesOf
<1>12. KeptOf(C, texts, missing, i)
    BY <1>6, <1>8, <1>10, <1>11 DEF KeptOf
<1> QED BY <1>12 DEF C, page

(* The pages kept are those with text. *)
LEMMA KeptAre ==
    ASSUME NEW texts \in Seq(Extract!Texts), NEW missing
    PROVE  KeptOf(Extract!Kept(texts, missing), texts, missing, Len(texts))
<1> DEFINE n == Len(texts)
           upTo == Extract!KeptTo(texts, missing)
           P == {i \in 0..n : KeptOf(upTo[i], texts, missing, i)}
<1>1. n \in Nat
    OBVIOUS
<1>2. /\ upTo[0] = <<>>
      /\ \A i \in 1..n : upTo[i] = IF Extract!Blank(texts[i]) THEN upTo[i - 1]
                                   ELSE Append(upTo[i - 1], PageAt(texts, missing, i))
    BY KeptToIs
<1> HIDE DEF upTo
<1>3. 0 \in P
  <2>1. <<>> \in Seq(PageTypes) /\ Len(<<>>) = 0
      OBVIOUS
  <2>2. KeptOf(<<>>, texts, missing, 0)
      BY <2>1 DEF KeptOf, PagesOf
  <2> QED BY <1>1, <1>2, <2>2
<1>4. ASSUME NEW k \in 0..n, k < n, k \in P PROVE k + 1 \in P
  <2>1. PICK i \in 1..n : i = k + 1
      BY <1>4
  <2>2. i - 1 = k /\ k \in Nat /\ KeptOf(upTo[k], texts, missing, k)
      BY <1>4, <2>1
  <2>3. upTo[i] = IF Extract!Blank(texts[i]) THEN upTo[k] ELSE Append(upTo[k], PageAt(texts, missing, i))
      BY <1>2, <2>2
  <2>4. CASE Extract!Blank(texts[i])
    <3> DEFINE pages == upTo[k]
    <3>1. KeptOf(pages, texts, missing, k) /\ pages = upTo[i]
        BY <2>2, <2>3, <2>4
    <3> HIDE DEF pages
    <3>2. \A h \in 1..Len(pages) : pages[h].number \in 1..i
        BY <2>1, <2>2, <3>1 DEF KeptOf
    <3>3. \A g \in 1..i : ~Extract!Blank(texts[g]) => g \in 1..k
        BY <2>1, <2>2, <2>4
    <3>4. KeptOf(pages, texts, missing, i)
        BY <3>1, <3>2, <3>3 DEF KeptOf
    <3> QED BY <2>1, <3>1, <3>4
  <2>5. CASE ~Extract!Blank(texts[i])
    <3>1. KeptOf(Append(upTo[k], PageAt(texts, missing, i)), texts, missing, i)
        BY <2>1, <2>2, <2>5, AppendKeeps
    <3>2. upTo[i] = Append(upTo[k], PageAt(texts, missing, i))
        BY <2>3, <2>5
    <3>3. KeptOf(upTo[i], texts, missing, i) /\ i \in 0..n
        BY <3>1, <3>2
    <3> QED BY <2>1, <3>3
  <2> QED BY <2>4, <2>5
<1> HIDE DEF P, n
<1>5. 0..n \subseteq P
    BY <1>1, <1>3, <1>4, InductionTo
<1>6. n \in P
    BY <1>1, <1>5
<1> QED BY <1>6 DEF P, Extract!Kept, n, upTo

(* The document that NormalizedDocument accepts.                           *)
LEMMA ChainedTiles ==
    ASSUME NEW document \in Documents, Chained(document), Len(document.spans) > 0
    PROVE  Extract!Tiles(document)
<1> DEFINE spans == document.spans
<1>1. spans \in Seq(Spans)
    BY DEF Documents
<1>2. /\ \A j \in 1..Len(spans) : spans[j].start = IF j = 1 THEN 0 ELSE spans[j - 1].end
      /\ \A j \in 1..Len(spans) : spans[j].start < spans[j].end /\ spans[j].from < spans[j].to
      /\ document.length = spans[Len(spans)].end
    BY DEF Chained
<1>3. spans # <<>> /\ Extract!Last(spans) = spans[Len(spans)]
    BY <1>1 DEF Extract!Last
<1> HIDE DEF spans
<1> QED BY <1>2, <1>3 DEF Extract!Tiles, spans

(* What ExtractionTraced says of a document of pages.                      *)
SpansTraced(spans, texts, missing) ==
    LET First(j) == j = 1 \/ spans[j - 1].page # spans[j].page
        Final(j) == j = Len(spans) \/ spans[j + 1].page # spans[j].page
        Numbers  == {spans[j].page : j \in 1..Len(spans)}
    IN  /\ \A j \in 1..Len(spans) - 1 : spans[j].page <= spans[j + 1].page
        /\ \A j \in 1..Len(spans) :
             /\ spans[j].from = IF First(j) THEN 0 ELSE spans[j - 1].to
             /\ Final(j) => spans[j].to = Extract!Total(Extract!Source(texts[spans[j].page]))
             /\ spans[j].kind = "ocr" <=> spans[j].page \in missing
        /\ Numbers = {i \in 1..Len(texts) : ~Extract!Blank(texts[i])}

(* A document of the pages with text is accepted and traced. *)
LEMMA TracedSpans ==
    ASSUME NEW document, NEW pages, NEW texts, NEW missing, KeptOf(pages, texts, missing, Len(texts)),
           TracedTo(document, pages, texts, missing, Len(pages)), pages # <<>>
    PROVE  Extract!Tiles(document) /\ SpansTraced(document.spans, texts, missing)
<1> DEFINE spans == document.spans
           m == Len(pages)
           Textual == {i \in 1..Len(texts) : ~Extract!Blank(texts[i])}
<1>1. document \in Documents /\ Chained(document) /\ Follows(spans) /\ Complete(spans, texts)
    BY DEF TracedTo
<1>2. \A j \in 1..Len(spans) : spans[j].kind = "ocr" <=> spans[j].page \in missing
    BY DEF TracedTo
<1>3. \A j \in 1..Len(spans) : \E h \in 1..m : spans[j].page = pages[h].number
    BY DEF TracedTo
<1>4. \A h \in 1..m : \E j \in 1..Len(spans) : spans[j].page = pages[h].number
    BY DEF TracedTo
<1>5. pages \in Seq(PageTypes)
    BY DEF KeptOf, PagesOf
<1>6. m \in Nat /\ m > 0
    BY <1>5
<1>7. /\ \A h \in 1..m : pages[h].number \in Textual
      /\ \A g \in Textual : \E h \in 1..m : pages[h].number = g
    BY DEF KeptOf
<1> HIDE DEF Textual, m, spans
<1>8. Len(spans) > 0
  <2>1. spans \in Seq(Spans)
      BY <1>1 DEF Documents, spans
  <2>2. 1 \in 1..m
      BY <1>6
  <2>3. PICK j \in 1..Len(spans) : spans[j].page = pages[1].number
      BY <1>4, <2>2
  <2> QED BY <2>1, <2>3
<1>9. Extract!Tiles(document)
    BY <1>1, <1>8, ChainedTiles DEF spans
<1>10. {spans[j].page : j \in 1..Len(spans)} = Textual
    BY <1>3, <1>4, <1>7
<1>11. SpansTraced(spans, texts, missing)
    BY <1>1, <1>2, <1>10 DEF SpansTraced, Follows, Complete, Textual
<1> QED BY <1>9, <1>11 DEF spans

(* A plain text is a document of one page.                                 *)
LEMMA TextTraced ==
    ASSUME NEW lines \in Extract!Texts, ~Extract!Blank(lines)
    PROVE  /\ Extract!Tiles(Extract!TextDocument(lines))
           /\ SpansTraced(Extract!TextDocument(lines).spans, <<lines>>, {})
<1> DEFINE page == [number |-> 1, lines |-> lines, kind |-> "text"]
           pages == <<page>>
           texts == <<lines>>
<1>1. page \in PageTypes /\ page.number = 1 /\ page.lines = lines /\ page.kind = "text"
  <2>1. "text" \in Kinds
      BY DEF Kinds
  <2> QED BY <2>1 DEF PageTypes
<1>2. texts[1] = lines /\ Len(texts) = 1
    OBVIOUS
<1> HIDE DEF page
<1>3. pages \in Seq(PageTypes) /\ Len(pages) = 1 /\ pages[1] = page /\ pages # <<>>
    BY <1>1
<1> HIDE DEF pages, texts
<1>4. \A h \in 1..Len(pages) : h = 1 /\ pages[h] = page
    BY <1>3
<1>5. PagesOf(pages, texts, {})
  <2>1. Len(lines) > 0
      BY HasLines
  <2>2. \A h \in 1..Len(pages) : /\ Len(pages[h].lines) > 0 /\ pages[h].lines = texts[pages[h].number]
                                 /\ pages[h].kind = "ocr" <=> pages[h].number \in {}
      BY <1>1, <1>2, <1>4, <2>1
  <2>3. \A g, h \in 1..Len(pages) : g < h => pages[g].number < pages[h].number
      BY <1>4
  <2> QED BY <1>3, <2>2, <2>3 DEF PagesOf
<1>6. KeptOf(pages, texts, {}, Len(texts))
  <2>1. \A h \in 1..Len(pages) : pages[h].number \in 1..Len(texts) /\ ~Extract!Blank(texts[pages[h].number])
      BY <1>1, <1>2, <1>4
  <2>2. \A g \in 1..Len(texts) : \E h \in 1..Len(pages) : pages[h].number = g
      BY <1>1, <1>2, <1>3
  <2> QED BY <1>5, <2>1, <2>2 DEF KeptOf
<1>7. TracedTo(Extract!PdfDocument(pages), pages, texts, {}, Len(pages))
    BY <1>5, PdfTraced
<1>8. Extract!Tiles(Extract!PdfDocument(pages)) /\ SpansTraced(Extract!PdfDocument(pages).spans, texts, {})
    BY <1>3, <1>6, <1>7, TracedSpans
<1> QED BY <1>8 DEF Extract!TextDocument, pages, page, texts

(* One more paragraph keeps the spans of the document chained. *)
LEMMA AddParagraphIs ==
    ASSUME NEW document \in Documents, NEW count \in Nat
    PROVE  LET result == Extract!AddParagraph(document, count) IN
           /\ result \in Documents
           /\ Chained(document) => Chained(result)
           /\ Len(result.spans) >= Len(document.spans) /\ (count # 0 => Len(result.spans) > 0)
<1> DEFINE A == document.spans
           start == document.length
           end == start + count + (IF A = <<>> THEN 0 ELSE 1)
           span == [start |-> start, end |-> end, from |-> start, to |-> end, page |-> 1, kind |-> "text"]
           C == Append(A, span)
           result == Extract!AddParagraph(document, count)
           a == Len(A)
<1>1. A \in Seq(Spans) /\ start \in Nat /\ a \in Nat
    BY DEF Documents
<1>2. CASE count = 0
  <2>1. result = document
      BY <1>2 DEF Extract!AddParagraph
  <2> QED BY <1>1, <1>2, <2>1
<1>3. CASE count # 0
  <2>1. result = [length |-> end, spans |-> C]
      BY <1>3 DEF Extract!AddParagraph
  <2>2. end \in Nat /\ start < end
      BY <1>1, <1>3
  <2>3. "text" \in Kinds
      BY DEF Kinds
  <2> HIDE DEF end
  <2>4. span \in Spans
      BY <1>1, <2>2, <2>3 DEF Spans
  <2>5. span.start = start /\ span.end = end /\ span.from = start /\ span.to = end
      OBVIOUS
  <2> HIDE DEF span, A, start, result
  <2>6. C \in Seq(Spans) /\ Len(C) = a + 1 /\ C[a + 1] = span /\ \A j \in 1..a : C[j] = A[j]
      BY <1>1, <2>4
  <2> HIDE DEF C, a
  <2>7. result \in Documents /\ result.length = end /\ result.spans = C
      BY <2>1, <2>2, <2>6 DEF Documents
  <2>8. ASSUME Chained(document) PROVE Chained(result)
    <3>1. /\ \A j \in 1..a : A[j].start = IF j = 1 THEN 0 ELSE A[j - 1].end
          /\ \A j \in 1..a : A[j].start < A[j].end /\ A[j].from < A[j].to
          /\ start = IF a = 0 THEN 0 ELSE A[a].end
        BY <2>8 DEF Chained, A, a, start
    <3>2. ASSUME NEW j \in 1..a + 1
          PROVE  /\ C[j].start = IF j = 1 THEN 0 ELSE C[j - 1].end
                 /\ C[j].start < C[j].end /\ C[j].from < C[j].to
      <4>1. CASE j \in 1..a
        <5>1. CASE j = 1
            BY <2>6, <3>1, <4>1, <5>1
        <5>2. CASE j # 1
          <6>1. j - 1 \in 1..a
              BY <1>1, <4>1, <5>2
          <6>2. C[j - 1] = A[j - 1] /\ C[j] = A[j]
              BY <2>6, <4>1, <6>1
          <6> QED BY <3>1, <4>1, <5>2, <6>2
        <5> QED BY <5>1, <5>2
      <4>2. CASE ~(j \in 1..a)
        <5>1. j = a + 1 /\ C[j] = span /\ j - 1 = a
            BY <1>1, <2>6, <4>2
        <5>2. CASE a = 0
            BY <2>2, <2>5, <3>1, <5>1, <5>2
        <5>3. CASE a # 0
          <6>1. a \in 1..a /\ j # 1
              BY <1>1, <5>1, <5>3
          <6>2. C[j - 1] = A[a]
              BY <2>6, <5>1, <6>1
          <6> QED BY <2>2, <2>5, <3>1, <5>1, <5>3, <6>1, <6>2
        <5> QED BY <5>2, <5>3
      <4> QED BY <4>1, <4>2
    <3>3. C[a + 1].end = end /\ a + 1 # 0
        BY <1>1, <2>5, <2>6
    <3> QED BY <2>6, <2>7, <3>2, <3>3 DEF Chained
  <2>9. Len(C) >= a /\ Len(C) > 0
      BY <1>1, <2>6
  <2> QED BY <2>7, <2>8, <2>9 DEF result, a, A
<1> QED BY <1>2, <1>3

(* What the loop over the paragraphs computes. *)
LEMMA BuiltIs ==
    ASSUME NEW paragraphs, Len(paragraphs) \in Nat, \A i \in 1..Len(paragraphs) : paragraphs[i] \in Nat
    PROVE  LET upTo == Extract!Built(paragraphs) IN
           /\ upTo[0] = Extract!Empty
           /\ \A i \in 1..Len(paragraphs) : upTo[i] = Extract!AddParagraph(upTo[i - 1], paragraphs[i])
<1> DEFINE n == Len(paragraphs)
           S == Documents
           Goes(i, d) == Extract!AddParagraph(d, paragraphs[i])
           Is(f) == f = [i \in 0..n |-> IF i = 0 THEN Extract!Empty ELSE Extract!AddParagraph(f[i - 1], paragraphs[i])]
           step == [i \in 1..n |-> [d \in S |-> Goes(i, d)]]
           upTo == Extract!Built(paragraphs)
<1>1. n \in Nat /\ Extract!Empty \in S
  <2>1. <<>> \in Seq(Spans)
      OBVIOUS
  <2> QED BY <2>1 DEF Extract!Empty, Documents
<1>2. step \in [1..n -> [S -> S]]
  <2>1. ASSUME NEW i \in 1..n, NEW d \in S PROVE Goes(i, d) \in S
      BY AddParagraphIs
  <2> HIDE DEF Goes, S, n
  <2> QED BY <2>1
<1>3. PICK f : Recurs(f, n, S, Extract!Empty, step)
  <2> HIDE DEF step, n, S
  <2> QED BY <1>1, <1>2, RecursionTo
<1>4. ASSUME NEW i \in 1..n PROVE f[i] = Goes(i, f[i - 1])
  <2>1. i - 1 \in 0..n
      BY <1>1
  <2>2. f[i] = step[i][f[i - 1]] /\ f[i - 1] \in S
    <3> HIDE DEF step, n, S
    <3> QED BY <1>3, <2>1 DEF Recurs
  <2> HIDE DEF Goes, S, n
  <2> QED BY <2>2
<1>5. f = [i \in 0..n |-> f[i]] /\ f[0] = Extract!Empty
  <2> HIDE DEF step, n, S
  <2> QED BY <1>3 DEF Recurs
<1>6. Is(f)
  <2> DEFINE g == [i \in 0..n |-> IF i = 0 THEN Extract!Empty ELSE Extract!AddParagraph(f[i - 1], paragraphs[i])]
  <2>1. ASSUME NEW i \in 0..n PROVE f[i] = g[i]
    <3>1. CASE i = 0
        BY <1>5, <3>1
    <3>2. CASE i # 0
      <4>1. i \in 1..n
          BY <1>1, <3>2
      <4> HIDE DEF n
      <4> QED BY <1>4, <4>1, <3>2
    <3> QED BY <3>1, <3>2
  <2> HIDE DEF n
  <2> QED BY <1>5, <2>1
<1>7. upTo = CHOOSE g : Is(g)
    BY DEF Extract!Built
<1>8. Is(upTo)
  <2> HIDE DEF Is, upTo
  <2> QED BY <1>6, <1>7
<1> HIDE DEF upTo, n
<1>9. upTo[0] = Extract!Empty
    BY <1>1, <1>8
<1>10. ASSUME NEW i \in 1..n PROVE upTo[i] = Extract!AddParagraph(upTo[i - 1], paragraphs[i])
  <2>1. i \in 0..n /\ i # 0
      BY <1>1
  <2> QED BY <1>8, <2>1
<1> QED BY <1>9, <1>10 DEF upTo, n

(* A document of paragraphs that are not all blank is accepted.            *)
LEMMA DocxTiles ==
    ASSUME NEW paragraphs, Len(paragraphs) \in Nat, \A i \in 1..Len(paragraphs) : paragraphs[i] \in Nat,
           NEW x \in 1..Len(paragraphs), paragraphs[x] # 0
    PROVE  Extract!Tiles(Extract!DocxDocument(paragraphs))
<1> DEFINE n == Len(paragraphs)
           upTo == Extract!Built(paragraphs)
           P == {i \in 0..n : upTo[i] \in Documents /\ Chained(upTo[i]) /\ (x <= i => Len(upTo[i].spans) > 0)}
<1>1. n \in Nat
    OBVIOUS
<1>2. upTo[0] = Extract!Empty /\ \A i \in 1..n : upTo[i] = Extract!AddParagraph(upTo[i - 1], paragraphs[i])
    BY BuiltIs
<1> HIDE DEF upTo
<1>3. 0 \in P
  <2>1. upTo[0].length = 0 /\ upTo[0].spans = <<>> /\ upTo[0] \in Documents
    <3>1. <<>> \in Seq(Spans)
        OBVIOUS
    <3> QED BY <1>2, <3>1 DEF Extract!Empty, Documents
  <2>2. Len(upTo[0].spans) = 0
      BY <2>1
  <2>3. Chained(upTo[0])
      BY <2>1, <2>2 DEF Chained
  <2> QED BY <1>1, <2>1, <2>3
<1>4. ASSUME NEW k \in 0..n, k < n, k \in P PROVE k + 1 \in P
  <2>1. PICK i \in 1..n : i = k + 1
      BY <1>4
  <2>2. i - 1 = k /\ upTo[k] \in Documents /\ Chained(upTo[k]) /\ (x <= k => Len(upTo[k].spans) > 0)
      BY <1>4, <2>1
  <2>3. upTo[i] = Extract!AddParagraph(upTo[k], paragraphs[i]) /\ paragraphs[i] \in Nat
      BY <1>2, <2>2
  <2>4. /\ upTo[i] \in Documents /\ Chained(upTo[i])
        /\ Len(upTo[i].spans) >= Len(upTo[k].spans) /\ (paragraphs[i] # 0 => Len(upTo[i].spans) > 0)
      BY <2>2, <2>3, AddParagraphIs
  <2>5. Len(upTo[i].spans) \in Nat /\ Len(upTo[k].spans) \in Nat
      BY <2>2, <2>4 DEF Documents
  <2>6. ASSUME x <= i PROVE Len(upTo[i].spans) > 0
    <3>1. CASE x = i
        BY <2>4, <3>1
    <3>2. CASE x # i
      <4>1. x <= k
          BY <2>1, <2>6, <3>2
      <4> QED BY <2>2, <2>4, <2>5, <4>1
    <3> QED BY <3>1, <3>2
  <2> QED BY <2>1, <2>4, <2>6
<1> HIDE DEF P
<1>5. 0..n \subseteq P
  <2> HIDE DEF n
  <2> QED BY <1>1, <1>3, <1>4, InductionTo
<1>6. n \in P /\ x <= n
    BY <1>1, <1>5
<1>7. upTo[n] \in Documents /\ Chained(upTo[n]) /\ Len(upTo[n].spans) > 0
    BY <1>6 DEF P
<1>8. Extract!Tiles(upTo[n])
    BY <1>7, ChainedTiles
<1> QED BY <1>8 DEF Extract!DocxDocument, n, upTo

(* Before the document is made: pages to be recognized are pages, and OCR  *)
(* is only entered for pages without text.                                 *)
Recognizing ==
    [pc : {"ocr"}, texts : Seq(Extract!Texts), found : Seq(Extract!Texts), todo : SUBSET Nat, missing : SUBSET Nat]

ExtractInv ==
    \/ parse = [pc |-> "idle"]
    \/ /\ parse \in Recognizing
       /\ parse.todo \subseteq 1..Len(parse.found) /\ parse.todo \cup parse.missing # {}
    \/ parse.pc = "assemble" /\ parse.found \in Seq(Extract!Texts)
    \/ parse.pc \in {"done", "failed"} /\ ExtractionTraced

(* ExtractionTraced, of any state of an extraction. *)
Told(p) ==
    /\ p.pc = "done" /\ p.source # "docx" =>
         /\ SpansTraced(p.document.spans, p.texts, p.missing)
         /\ p.text_page_count = Extract!Cardinality({p.document.spans[j].page : j \in 1..Len(p.document.spans)})
    /\ p.pc = "failed" /\ p.reason = "provenance" =>
         p.attempted # {} /\ p.attempted \subseteq Extract!Missing(p.found)

(* ExtractionTraced, of this state and of the next. *)
LEMMA ToldIs == (ExtractionTraced <=> Told(parse)) /\ (ExtractionTraced' <=> Told(parse'))
BY DEF Told, SpansTraced, ExtractionTraced, Extract!ExtractionTraced

(* No extraction has begun. *)
LEMMA ExtractInit == Extract!Init => ExtractInv
BY DEF Extract!Init, ExtractInv

(* A refused file leaves no document to trace. *)
LEMMA FailKeeps ==
    ASSUME NEW reason, reason # "provenance", Extract!Fail(reason)
    PROVE  ExtractInv'
<1>1. parse' = [pc |-> "failed", reason |-> reason]
    BY DEF Extract!Fail
<1>2. parse'.pc = "failed" /\ parse'.reason = reason
    BY <1>1
<1> QED BY <1>2 DEF ExtractInv, ExtractionTraced, Extract!ExtractionTraced

(* A document that is accepted and traced ends the extraction. *)
LEMMA FinishKeeps ==
    ASSUME NEW source, NEW texts, NEW document, NEW missing, Extract!Tiles(document),
           source = "docx" \/ SpansTraced(document.spans, texts, missing),
           Extract!Finish(source, texts, document, missing)
    PROVE  ExtractInv'
<1> DEFINE count == Extract!Cardinality({i \in 1..Len(texts) : ~Extract!Blank(texts[i])})
<1>1. parse' = [pc |-> "done", source |-> source, texts |-> texts, document |-> document, missing |-> missing,
                text_page_count |-> count]
    BY DEF Extract!Finish
<1> HIDE DEF count
<1>2. /\ parse'.pc = "done" /\ parse'.source = source /\ parse'.texts = texts /\ parse'.document = document
      /\ parse'.missing = missing /\ parse'.text_page_count = count
    BY <1>1
<1>3. CASE source = "docx"
    BY <1>2, <1>3 DEF ExtractInv, ExtractionTraced, Extract!ExtractionTraced
<1>4. CASE SpansTraced(document.spans, texts, missing)
  <2> DEFINE spans == document.spans
  <2>1. SpansTraced(spans, texts, missing)
      BY <1>4
  <2>2. parse'.document.spans = spans
      BY <1>2
  <2> HIDE DEF spans
  <2>3. count = Extract!Cardinality({spans[j].page : j \in 1..Len(spans)})
      BY <2>1 DEF SpansTraced, count
  <2>4. Told(parse')
      BY <1>2, <2>1, <2>2, <2>3 DEF Told
  <2> QED BY <1>2, <2>4, ToldIs DEF ExtractInv
<1> QED BY <1>3, <1>4

(* Every step of an extraction keeps its invariant. *)
LEMMA ExtractStep == ExtractInv /\ [Extract!Next]_(Extract!extractionVars) => ExtractInv'
<1> SUFFICES ASSUME ExtractInv, [Extract!Next]_(Extract!extractionVars) PROVE ExtractInv'
    OBVIOUS
<1>1. CASE UNCHANGED Extract!extractionVars
  <2>1. parse' = parse
      BY <1>1 DEF Extract!extractionVars
  <2>2. ExtractionTraced => ExtractionTraced'
      BY <2>1, ToldIs
  <2> QED BY <2>1, <2>2 DEF ExtractInv
<1>2. ASSUME Extract!Malformed PROVE ExtractInv'
  <2>1. "malformed" # "provenance"
      OBVIOUS
  <2> QED BY <1>2, <2>1, FailKeeps DEF Extract!Malformed
<1>3. ASSUME NEW lines \in Extract!Texts, Extract!ExtractText(lines) PROVE ExtractInv'
  <2>1. CASE Extract!Blank(lines)
    <3>1. Extract!Fail("no text") /\ "no text" # "provenance"
        BY <1>3, <2>1 DEF Extract!ExtractText
    <3> QED BY <3>1, FailKeeps
  <2>2. CASE ~Extract!Blank(lines)
    <3>1. Extract!Finish("text", <<lines>>, Extract!TextDocument(lines), {})
        BY <1>3, <2>2 DEF Extract!ExtractText
    <3>2. Extract!Tiles(Extract!TextDocument(lines)) /\ SpansTraced(Extract!TextDocument(lines).spans, <<lines>>, {})
        BY <2>2, TextTraced
    <3> QED BY <3>1, <3>2, FinishKeeps
  <2> QED BY <2>1, <2>2
<1>4. ASSUME NEW paragraphs \in Extract!Paragraphs, Extract!ExtractDocx(paragraphs) PROVE ExtractInv'
  <2>1. CASE \A i \in 1..Len(paragraphs) : paragraphs[i] = 0
    <3>1. Extract!Fail("no text") /\ "no text" # "provenance"
        BY <1>4, <2>1 DEF Extract!ExtractDocx
    <3> QED BY <3>1, FailKeeps
  <2>2. CASE ~(\A i \in 1..Len(paragraphs) : paragraphs[i] = 0)
    <3>1. Extract!Finish("docx", <<>>, Extract!DocxDocument(paragraphs), {})
        BY <1>4, <2>2 DEF Extract!ExtractDocx
    <3>2. PICK m \in 0..MaxPages : paragraphs \in [1..m -> 0..2]
        BY DEF Extract!Paragraphs
    <3>3. Len(paragraphs) \in Nat /\ \A i \in 1..Len(paragraphs) : paragraphs[i] \in Nat
        BY <3>2, ExtractionAssumption
    <3>4. PICK x \in 1..Len(paragraphs) : paragraphs[x] # 0
        BY <2>2
    <3>5. Extract!Tiles(Extract!DocxDocument(paragraphs))
        BY <3>3, <3>4, DocxTiles
    <3> QED BY <3>1, <3>5, FinishKeeps
  <2> QED BY <2>1, <2>2
<1>5. ASSUME NEW texts \in Extract!PageTexts, NEW fallback \in BOOLEAN, Extract!ExtractPdf(texts, fallback)
      PROVE  ExtractInv'
  <2>1. CASE fallback /\ Extract!Cardinality(Extract!Missing(texts)) > MaxOcrPages
    <3>1. Extract!Fail("ocr") /\ "ocr" # "provenance"
        BY <1>5, <2>1 DEF Extract!ExtractPdf
    <3> QED BY <3>1, FailKeeps
  <2>2. CASE ~(fallback /\ Extract!Cardinality(Extract!Missing(texts)) > MaxOcrPages)
    <3> DEFINE M == Extract!Missing(texts)
    <3>1. PICK m \in 0..MaxPages : texts \in [1..m -> Extract!Texts]
        BY DEF Extract!PageTexts
    <3>2. texts \in Seq(Extract!Texts)
        BY <3>1, ExtractionAssumption
    <3>3. M \in SUBSET Nat /\ M \subseteq 1..Len(texts)
        BY DEF Extract!Missing
    <3>4. parse' = [pc |-> IF fallback /\ M # {} THEN "ocr" ELSE "assemble",
                    texts |-> texts, found |-> texts, todo |-> M, missing |-> {}]
        BY <1>5, <2>2 DEF Extract!ExtractPdf
    <3> HIDE DEF M
    <3>5. CASE fallback /\ M # {}
      <4>1. parse' = [pc |-> "ocr", texts |-> texts, found |-> texts, todo |-> M, missing |-> {}]
          BY <3>4, <3>5
      <4>2. parse' \in Recognizing
          BY <3>2, <3>3, <4>1 DEF Recognizing
      <4>3. parse'.todo = M /\ parse'.found = texts /\ parse'.missing = {}
          BY <4>1
      <4> QED BY <3>3, <3>5, <4>2, <4>3 DEF ExtractInv
    <3>6. CASE ~(fallback /\ M # {})
      <4>1. parse'.pc = "assemble" /\ parse'.found = texts
          BY <3>4, <3>6
      <4> QED BY <3>2, <4>1 DEF ExtractInv
    <3> QED BY <3>5, <3>6
  <2> QED BY <2>1, <2>2
<1>6. ASSUME Extract!Ocr PROVE ExtractInv'
  <2>1. parse.pc = "ocr"
      BY <1>6 DEF Extract!Ocr
  <2>2. parse \in Recognizing /\ parse.todo \subseteq 1..Len(parse.found) /\ parse.todo \cup parse.missing # {}
      BY <2>1 DEF ExtractInv
  <2>3. /\ parse.texts \in Seq(Extract!Texts) /\ parse.found \in Seq(Extract!Texts)
        /\ parse.todo \in SUBSET Nat /\ parse.missing \in SUBSET Nat
      BY <2>2 DEF Recognizing
  <2>4. ASSUME NEW lines \in Extract!Texts, Extract!RecognizePage(lines) PROVE ExtractInv'
    <3> DEFINE i == Extract!Min(parse.todo)
               todo == parse.todo \ {i}
               found == [parse.found EXCEPT ![i] = lines]
               missing == parse.missing \cup {i}
    <3>1. parse.todo # {} /\ parse' = [parse EXCEPT !.todo = todo, !.found = found, !.missing = missing]
        BY <2>4 DEF Extract!RecognizePage
    <3>2. i \in parse.todo
      <4>1. \E x \in parse.todo : \A y \in parse.todo : x <= y
          BY <2>3, <3>1, LeastNumber
      <4> QED BY <4>1 DEF Extract!Min
    <3> HIDE DEF i
    <3>3. i \in 1..Len(parse.found) /\ i \in Nat
        BY <2>2, <2>3, <3>2
    <3>4. found \in Seq(Extract!Texts) /\ Len(found) = Len(parse.found)
        BY <2>3, <3>3
    <3>5. todo \in SUBSET Nat /\ missing \in SUBSET Nat /\ todo \subseteq 1..Len(found) /\ missing # {}
        BY <2>2, <2>3, <3>3, <3>4
    <3> HIDE DEF todo, found, missing
    <3>6. /\ parse'.todo = todo /\ parse'.found = found /\ parse'.missing = missing
          /\ parse' \in Recognizing
        BY <2>2, <3>1, <3>4, <3>5 DEF Recognizing
    <3> QED BY <3>5, <3>6 DEF ExtractInv
  <2>5. ASSUME Extract!OcrFails PROVE ExtractInv'
    <3>1. Extract!Fail("ocr") /\ "ocr" # "provenance"
        BY <2>5 DEF Extract!OcrFails
    <3> QED BY <3>1, FailKeeps
  <2>6. ASSUME Extract!OcrDone PROVE ExtractInv'
    <3>1. parse.todo = {} /\ parse.missing # {}
        BY <2>2, <2>6 DEF Extract!OcrDone
    <3>2. CASE parse.missing \subseteq Extract!Missing(parse.found)
      <4>1. parse' = [pc |-> "failed", reason |-> "provenance", texts |-> parse.texts, found |-> parse.found,
                      attempted |-> parse.missing]
          BY <2>6, <3>2 DEF Extract!OcrDone, Extract!FailProvenance
      <4>2. parse'.pc = "failed" /\ parse'.found = parse.found /\ parse'.attempted = parse.missing
          BY <4>1
      <4> QED BY <3>1, <3>2, <4>2 DEF ExtractInv, ExtractionTraced, Extract!ExtractionTraced
    <3>3. CASE ~(parse.missing \subseteq Extract!Missing(parse.found))
      <4>1. parse' = [parse EXCEPT !.pc = "assemble"]
          BY <2>6, <3>3 DEF Extract!OcrDone
      <4>2. parse'.pc = "assemble" /\ parse'.found = parse.found
          BY <2>2, <4>1 DEF Recognizing
      <4> QED BY <2>3, <4>2 DEF ExtractInv
    <3> QED BY <3>2, <3>3
  <2> QED BY <1>6, <2>4, <2>5, <2>6 DEF Extract!Ocr
<1>7. ASSUME Extract!Assemble PROVE ExtractInv'
  <2> DEFINE texts == parse.found
             missing == parse.missing
             pages == Extract!Kept(texts, missing)
  <2>1. parse.pc = "assemble"
      BY <1>7 DEF Extract!Assemble
  <2>2. texts \in Seq(Extract!Texts)
    <3>1. ~(parse = [pc |-> "idle"]) /\ parse \notin Recognizing
        BY <2>1 DEF Recognizing
    <3> QED BY <2>1, <3>1 DEF ExtractInv
  <2>3. IF pages = <<>> THEN Extract!Fail("no text")
        ELSE Extract!Finish("pdf", texts, Extract!PdfDocument(pages), missing)
      BY <1>7 DEF Extract!Assemble
  <2> HIDE DEF texts, missing
  <2>4. CASE pages = <<>>
    <3>1. Extract!Fail("no text") /\ "no text" # "provenance"
        BY <2>3, <2>4
    <3> QED BY <3>1, FailKeeps
  <2>5. CASE pages # <<>>
    <3>1. Extract!Finish("pdf", texts, Extract!PdfDocument(pages), missing)
        BY <2>3, <2>5
    <3>2. KeptOf(pages, texts, missing, Len(texts))
        BY <2>2, KeptAre
    <3> HIDE DEF pages
    <3>3. TracedTo(Extract!PdfDocument(pages), pages, texts, missing, Len(pages))
        BY <3>2, PdfTraced DEF KeptOf
    <3>4. Extract!Tiles(Extract!PdfDocument(pages)) /\ SpansTraced(Extract!PdfDocument(pages).spans, texts, missing)
        BY <2>5, <3>2, <3>3, TracedSpans
    <3> QED BY <3>1, <3>4, FinishKeeps
  <2> QED BY <2>4, <2>5
<1> QED BY <1>1, <1>2, <1>3, <1>4, <1>5, <1>6, <1>7 DEF Extract!Next, Extract!Start

(* The invariant holds what the run checks. *)
LEMMA ExtractInvTraces == ExtractInv => ExtractionTraced
<1>1. ASSUME parse.pc \notin {"done", "failed"} PROVE ExtractionTraced
    BY <1>1, ToldIs DEF Told
<1>2. parse = [pc |-> "idle"] \/ parse \in Recognizing => parse.pc \notin {"done", "failed"}
    BY DEF Recognizing
<1> QED BY <1>1, <1>2 DEF ExtractInv

(* The spans of every extracted document trace it to its source, and no    *)
(* extraction trips over the checks of its document, for sources of every  *)
(* size.                                                                   *)
THEOREM ExtractionsAreTraced == Extract!Spec => []ExtractionTraced
BY ExtractInvTraces, ExtractInit, ExtractStep, PTL DEF Extract!Spec
-----------------------------------------------------------------------------
(* Chunking. *)

(* The tokens of a text start at characters of it. *)
LEMMA StartsType ==
    ASSUME NEW text, Len(text) \in Nat, \A i \in 1..Len(text) : text[i].length \in Nat
    PROVE  /\ Chunker!Starts(text) \in [0..Len(text) -> Nat]
           /\ \A i, j \in 0..Len(text) : i <= j => Chunker!Starts(text)[i] <= Chunker!Starts(text)[j]
<1> DEFINE n == Len(text)
           Is(f) == f = [i \in 0..n |-> IF i = 0 THEN 0 ELSE f[i - 1] + text[i].length + 1]
           step == [i \in 1..n |-> [s \in Nat |-> s + text[i].length + 1]]
<1>1. step \in [1..n -> [Nat -> Nat]]
    OBVIOUS
<1>2. PICK f : Recurs(f, n, Nat, 0, step)
  <2> HIDE DEF step
  <2> QED BY <1>1, RecursionTo
<1>3. ASSUME NEW i \in 1..n PROVE f[i] = f[i - 1] + text[i].length + 1
  <2>1. i - 1 \in 0..n
      OBVIOUS
  <2>2. f[i] = step[i][f[i - 1]] /\ f[i - 1] \in Nat
    <3> HIDE DEF step, n
    <3> QED BY <1>2, <2>1 DEF Recurs
  <2> QED BY <2>2
<1>4. Is(f)
    BY <1>2, <1>3 DEF Recurs
<1>5. Chunker!Starts(text) = CHOOSE g : Is(g)
    BY DEF Chunker!Starts
<1>6. Is(Chunker!Starts(text))
  <2> HIDE DEF Is
  <2> QED BY <1>4, <1>5
<1> DEFINE S == Chunker!Starts(text)
<1> HIDE DEF S
<1>7. S = [i \in 0..n |-> IF i = 0 THEN 0 ELSE S[i - 1] + text[i].length + 1]
    BY <1>6 DEF S
<1> DEFINE P == {i \in 0..n : S[i] \in Nat /\ \A j \in 0..i : S[j] \in Nat /\ S[j] <= S[i]}
<1>8. 0 \in P
    BY <1>7
<1>9. ASSUME NEW k \in 0..n, k < n, k \in P PROVE k + 1 \in P
  <2>1. k + 1 \in 1..n /\ k + 1 - 1 = k
      BY <1>9
  <2>2. S[k + 1] = S[k] + text[k + 1].length + 1
      BY <1>7, <2>1
  <2>3. S[k] \in Nat /\ text[k + 1].length \in Nat /\ k + 1 \in 0..n
      BY <1>9, <2>1
  <2>4. S[k + 1] \in Nat /\ S[k] <= S[k + 1]
      BY <2>2, <2>3
  <2>5. ASSUME NEW j \in 0..k + 1 PROVE S[j] \in Nat /\ S[j] <= S[k + 1]
    <3>1. CASE j = k + 1
        BY <3>1, <2>4
    <3>2. CASE j # k + 1
      <4>1. j \in 0..k /\ k \in Nat
          BY <3>2
      <4>2. S[j] <= S[k] /\ S[j] \in Nat
          BY <1>9, <4>1
      <4> QED BY <4>2, <2>4, <2>3
    <3> QED BY <3>1, <3>2
  <2> QED BY <2>3, <2>4, <2>5
<1> HIDE DEF P, n
<1>10. 0..n \subseteq P
  <2>1. n \in Nat
      BY DEF n
  <2> QED BY <2>1, <1>8, <1>9, InductionTo
<1>11. \A i \in 0..n : S[i] \in Nat /\ \A j \in 0..i : S[j] \in Nat /\ S[j] <= S[i]
    BY <1>10 DEF P
<1>12. S \in [0..n -> Nat]
    BY <1>7, <1>11
<1>13. \A i, j \in 0..n : i <= j => S[i] <= S[j]
    BY <1>11
<1> QED BY <1>12, <1>13 DEF n, S

(* The tokens of a document lie at numbered characters, one behind the     *)
(* other: a window that starts later has fewer characters.                 *)
Measured(doc) ==
    /\ Len(doc) \in Nat
    /\ \A i, j \in 1..Len(doc) : Chunker!Characters(doc, i, j) \in Int
    /\ \A h, i, j \in 1..Len(doc) : h <= i => Chunker!Characters(doc, i, j) <= Chunker!Characters(doc, h, j)

(* The tokens of every text are measured. *)
LEMMA SpansMeasured ==
    ASSUME NEW text \in Chunker!Texts
    PROVE  Measured(Chunker!TokenSpans(text)) /\ Len(Chunker!TokenSpans(text)) = Len(text)
<1>1. PICK n \in 0..MaxTokens : text \in [1..n -> [length : TokenLengths, heading : 0..2]]
    BY DEF Chunker!Texts
<1>2. n \in Nat /\ Len(text) = n
    BY <1>1, ChunkingAssumption
<1>3. \A i \in 1..Len(text) : text[i].length \in Nat
    BY <1>1, <1>2, ChunkingAssumption
<1> DEFINE starts == Chunker!Starts(text)
           doc == Chunker!TokenSpans(text)
<1>4. starts \in [0..Len(text) -> Nat] /\ \A i, j \in 0..Len(text) : i <= j => starts[i] <= starts[j]
    BY <1>2, <1>3, StartsType
<1> HIDE DEF starts
<1>5. doc = [i \in 1..n |-> [start |-> starts[i - 1], end |-> starts[i] - 1, heading |-> text[i].heading]]
    BY <1>2 DEF Chunker!TokenSpans, starts
<1>6. Len(doc) = n
    BY <1>2, <1>5
<1> HIDE DEF doc
<1>7. ASSUME NEW i \in 1..n, NEW j \in 1..n PROVE doc[j].end - doc[i].start \in Int
  <2>1. starts[i - 1] \in Nat /\ starts[j] \in Nat
      BY <1>2, <1>4
  <2>2. doc[i].start = starts[i - 1] /\ doc[j].end = starts[j] - 1
      BY <1>5
  <2> QED BY <2>1, <2>2
<1>8. ASSUME NEW h \in 1..n, NEW i \in 1..n, NEW j \in 1..n, h <= i
      PROVE  doc[j].end - doc[i].start <= doc[j].end - doc[h].start
  <2>1. starts[i - 1] \in Nat /\ starts[h - 1] \in Nat /\ starts[j] \in Nat /\ starts[h - 1] <= starts[i - 1]
    <3>1. h - 1 \in 0..n /\ i - 1 \in 0..n /\ j \in 0..n /\ h - 1 <= i - 1
        BY <1>2, <1>8
    <3> QED BY <1>2, <1>4, <3>1
  <2>2. doc[i].start = starts[i - 1] /\ doc[h].start = starts[h - 1] /\ doc[j].end = starts[j] - 1
      BY <1>5
  <2> QED BY <2>1, <2>2
<1> QED BY <1>2, <1>6, <1>7, <1>8 DEF Measured, Chunker!Characters, doc

(* A bounded set of numbers that is not empty has a greatest one. *)
LEMMA GreatestNumber ==
    ASSUME NEW m \in Nat, NEW S \in SUBSET (0..m), S # {}
    PROVE  \E x \in S : \A y \in S : x >= y
<1> DEFINE T == {m - y : y \in S}
<1>1. T \in SUBSET Nat /\ T # {}
  <2>1. ASSUME NEW y \in S PROVE m - y \in Nat
    <3>1. y \in 0..m
        OBVIOUS
    <3> QED BY <3>1
  <2> QED BY <2>1
<1>2. PICK z \in T : \A y \in T : z <= y
  <2> HIDE DEF T
  <2> QED BY <1>1, LeastNumber
<1>3. PICK x \in S : z = m - x
    OBVIOUS
<1>4. ASSUME NEW y \in S PROVE x >= y
  <2>1. m - y \in T
      OBVIOUS
  <2>2. m - x <= m - y
      BY <1>2, <1>3, <2>1
  <2>3. x \in 0..m /\ y \in 0..m
      OBVIOUS
  <2> QED BY <2>2, <2>3
<1> QED BY <1>4

(* The less of two numbers. *)
LEMMA MinOfTwo ==
    ASSUME NEW x \in Int, NEW y \in Int
    PROVE  Chunker!Min({x, y}) = IF x <= y THEN x ELSE y
<1>1. Chunker!Min({x, y}) = CHOOSE m \in {x, y} : \A z \in {x, y} : m <= z
    BY DEF Chunker!Min
<1>2. ASSUME NEW m \in {x, y}, \A z \in {x, y} : m <= z
      PROVE  m = IF x <= y THEN x ELSE y
    BY <1>2
<1>3. \E m \in {x, y} : \A z \in {x, y} : m <= z
    OBVIOUS
<1> QED BY <1>1, <1>2, <1>3

(* A window takes as many tokens as fit it, and none only if the first is  *)
(* too long by itself.                                                     *)
LEMMA FittingIs ==
    ASSUME NEW doc, NEW c \in Nat, NEW end \in c..Len(doc), NEW tokens \in Nat \ {0}, NEW characters \in Nat,
           Measured(doc), c > 0
    PROVE  LET n == Chunker!Fitting(doc, c, end, tokens, characters) IN
           /\ n \in 0..end - c + 1 /\ n <= tokens
           /\ n > 0 => Chunker!Characters(doc, c, c + n - 1) <= characters
           /\ n = 0 => Chunker!Characters(doc, c, c) > characters
           /\ \A x \in 1..end - c + 1 :
                x <= tokens /\ Chunker!Characters(doc, c, c + x - 1) <= characters => x <= n
<1> DEFINE most == Chunker!Min({tokens, end - c + 1})
           fits == {n \in 1..most : Chunker!Characters(doc, c, c + n - 1) <= characters}
           n == Chunker!Fitting(doc, c, end, tokens, characters)
<1>1. Len(doc) \in Nat /\ end \in Nat /\ c <= end
    BY DEF Measured
<1>2. end - c + 1 \in Int /\ tokens \in Int
    BY <1>1
<1>3. most = IF tokens <= end - c + 1 THEN tokens ELSE end - c + 1
    BY <1>2, MinOfTwo
<1>4. most \in Nat \ {0} /\ most <= tokens /\ most <= end - c + 1
    BY <1>1, <1>3
<1>5. n = CHOOSE x \in {0} \cup fits : \A y \in {0} \cup fits : x >= y
    BY DEF Chunker!Fitting, Chunker!Max
<1> HIDE DEF most, n
<1>6. {0} \cup fits \in SUBSET (0..most)
    BY <1>4
<1>7. n \in {0} \cup fits /\ \A y \in {0} \cup fits : n >= y
  <2> HIDE DEF fits
  <2>1. \E x \in {0} \cup fits : \A y \in {0} \cup fits : x >= y
      BY <1>4, <1>6, GreatestNumber
  <2> QED BY <1>5, <2>1
<1>8. n \in 0..end - c + 1 /\ n <= tokens
    BY <1>1, <1>4, <1>7
<1>9. n > 0 => Chunker!Characters(doc, c, c + n - 1) <= characters
    BY <1>7
<1>10. ASSUME n = 0 PROVE Chunker!Characters(doc, c, c) > characters
  <2>1. 1 \notin fits
      BY <1>7, <1>10
  <2>2. ~(Chunker!Characters(doc, c, c + 1 - 1) <= characters)
      BY <2>1, <1>4
  <2>3. c + 1 - 1 = c /\ c \in 1..Len(doc)
      BY <1>1
  <2>4. Chunker!Characters(doc, c, c) \in Int
      BY <2>3 DEF Measured
  <2> QED BY <2>2, <2>3, <2>4
<1>11. ASSUME NEW x \in 1..end - c + 1, x <= tokens, Chunker!Characters(doc, c, c + x - 1) <= characters
       PROVE  x <= n
  <2>1. x \in fits
      BY <1>1, <1>3, <1>11
  <2> HIDE DEF fits
  <2>2. n >= x
      BY <1>7, <2>1
  <2> QED BY <1>1, <1>8, <2>2
<1> QED BY <1>8, <1>9, <1>10, <1>11 DEF n

(* A range of tokens of a document. *)
Part(doc, section) == section.first \in 1..Len(doc) /\ section.last \in section.first..Len(doc)

(* A window of a section that starts at a token of it. *)
WindowAt(doc, section, tokens, characters, c) ==
    LET w == Chunker!WindowFrom(doc, section, tokens, characters, c) IN
    /\ w = Chunker!TooLong => Chunker!Characters(doc, c, c) > characters
    /\ w # Chunker!TooLong =>
         /\ w.first = c /\ w.last \in c..section.last
         /\ Chunker!Within(doc, w, tokens, characters)
    /\ w.last = 0 <=> w = Chunker!TooLong
    /\ w \in [first : Nat, last : Nat] /\ w.first <= w.last

(* What one turn of _window_ranges yields. *)
LEMMA WindowIs ==
    ASSUME NEW doc, NEW section, NEW tokens \in Nat \ {0}, NEW characters \in Nat,
           Measured(doc), Part(doc, section), NEW c \in section.first..section.last
    PROVE  WindowAt(doc, section, tokens, characters, c)
<1> DEFINE n == Chunker!Fitting(doc, c, section.last, tokens, characters)
           w == Chunker!WindowFrom(doc, section, tokens, characters, c)
<1>1. c \in Nat /\ c > 0 /\ section.last \in c..Len(doc) /\ section.last \in Nat /\ Len(doc) \in Nat
    BY DEF Part, Measured
<1>2. /\ n \in 0..section.last - c + 1 /\ n <= tokens
      /\ n > 0 => Chunker!Characters(doc, c, c + n - 1) <= characters
      /\ n = 0 => Chunker!Characters(doc, c, c) > characters
  <2> HIDE DEF n
  <2> QED BY <1>1, FittingIs DEF n
<1>3. w = IF n = 0 THEN [first |-> 0, last |-> 0] ELSE [first |-> c, last |-> c + n - 1]
    BY DEF Chunker!WindowFrom, Chunker!TooLong
<1> HIDE DEF n, w
<1>4. CASE n = 0
  <2>1. w = Chunker!TooLong /\ w.first = 0 /\ w.last = 0
      BY <1>3, <1>4 DEF Chunker!TooLong
  <2>2. w \in [first : Nat, last : Nat]
      BY <1>3, <1>4
  <2> QED BY <1>2, <1>4, <2>1, <2>2 DEF WindowAt, w
<1>5. CASE n # 0
  <2>1. n \in Nat /\ n > 0 /\ c + n - 1 \in c..section.last
      BY <1>1, <1>2, <1>5
  <2>2. w = [first |-> c, last |-> c + n - 1]
      BY <1>3, <1>5
  <2>3. w.first = c /\ w.last = c + n - 1 /\ w \in [first : Nat, last : Nat]
      BY <1>1, <2>1, <2>2
  <2>4. w.last # 0 /\ w # Chunker!TooLong
      BY <1>1, <2>1, <2>3 DEF Chunker!TooLong
  <2>5. Chunker!Within(doc, w, tokens, characters)
    <3>1. w.last - w.first < tokens
        BY <1>1, <1>2, <2>1, <2>3
    <3>2. Chunker!Characters(doc, w.first, w.last) <= characters
        BY <1>2, <2>1, <2>3
    <3> QED BY <3>1, <3>2 DEF Chunker!Within
  <2>6. w.first <= w.last
      BY <1>1, <2>1, <2>3
  <2> QED BY <2>1, <2>3, <2>4, <2>5, <2>6 DEF WindowAt, w
<1> QED BY <1>4, <1>5

(* The cursor moves on, to behind the window or into it by the overlap. *)
LEMMA CursorAdvances ==
    ASSUME NEW c \in Nat, NEW n \in Nat \ {0}, NEW overlap \in Nat
    PROVE  LET next == Chunker!NextCursor(c, n, overlap)
           IN  next \in c + 1..c + n /\ c + n - next \in 0..overlap
<1>1. overlap \in Int /\ n - 1 \in Int
    OBVIOUS
<1>2. Chunker!Min({overlap, n - 1}) = IF overlap <= n - 1 THEN overlap ELSE n - 1
    BY <1>1, MinOfTwo
<1> DEFINE shared == Chunker!Min({overlap, n - 1})
<1> HIDE DEF shared
<1>3. shared \in 0..overlap /\ shared <= n - 1
    BY <1>2 DEF shared
<1>4. Chunker!NextCursor(c, n, overlap) = c + n - shared
    BY DEF Chunker!NextCursor, shared
<1> QED BY <1>3, <1>4

(* A window that starts in an earlier one, or behind it, reaches as far. *)
LEMMA WindowReaches ==
    ASSUME NEW doc, NEW section, NEW tokens \in Nat \ {0}, NEW characters \in Nat,
           Measured(doc), Part(doc, section),
           NEW c \in section.first..section.last, NEW d \in section.first..section.last, c < d,
           NEW v, v = Chunker!WindowFrom(doc, section, tokens, characters, c), v # Chunker!TooLong,
           NEW w, w = Chunker!WindowFrom(doc, section, tokens, characters, d), w # Chunker!TooLong,
           d <= v.last + 1
    PROVE  v.last <= w.last
<1> DEFINE m == Chunker!Fitting(doc, c, section.last, tokens, characters)
           n == Chunker!Fitting(doc, d, section.last, tokens, characters)
<1>1. /\ c \in Nat /\ c > 0 /\ section.last \in c..Len(doc) /\ section.last \in Nat /\ Len(doc) \in Nat
      /\ d \in Nat /\ d > 0 /\ section.last \in d..Len(doc)
    BY DEF Part, Measured
<1>2. v = [first |-> c, last |-> c + m - 1] /\ m # 0 /\ w = [first |-> d, last |-> d + n - 1] /\ n # 0
    BY DEF Chunker!WindowFrom
<1> HIDE DEF m, n
<1>3. v.last = c + m - 1 /\ w.last = d + n - 1
    BY <1>2
<1>4. /\ m \in 0..section.last - c + 1 /\ m <= tokens
      /\ m > 0 => Chunker!Characters(doc, c, c + m - 1) <= characters
    BY <1>1, FittingIs DEF m
<1>5. /\ n \in 0..section.last - d + 1
      /\ \A x \in 1..section.last - d + 1 :
           x <= tokens /\ Chunker!Characters(doc, d, d + x - 1) <= characters => x <= n
    BY <1>1, FittingIs DEF n
<1> DEFINE x == c + m - d
<1>6. CASE x = 0
    BY <1>1, <1>2, <1>3, <1>4, <1>5, <1>6
<1>7. CASE x # 0
  <2>1. x \in 1..section.last - d + 1 /\ x <= tokens /\ d + x - 1 = c + m - 1 /\ c + m - 1 \in 1..Len(doc) /\ m > 0
      BY <1>1, <1>2, <1>3, <1>4, <1>7
  <2>2. c \in 1..Len(doc) /\ d \in 1..Len(doc) /\ c <= d
      BY <1>1
  <2>3. Chunker!Characters(doc, d, c + m - 1) <= Chunker!Characters(doc, c, c + m - 1)
        /\ Chunker!Characters(doc, d, c + m - 1) \in Int /\ Chunker!Characters(doc, c, c + m - 1) \in Int
      BY <2>1, <2>2 DEF Measured
  <2>4. Chunker!Characters(doc, d, d + x - 1) <= characters
    <3>1. Chunker!Characters(doc, d, c + m - 1) <= characters
        BY <1>4, <2>1, <2>3
    <3> HIDE DEF x
    <3> QED BY <2>1, <3>1
  <2> HIDE DEF x
  <2>5. x <= n
      BY <1>5, <2>1, <2>4
  <2> QED BY <1>1, <1>3, <1>4, <1>5, <2>5 DEF x
<1> QED BY <1>6, <1>7

(* The cursor after one turn of the loop. *)
Advanced(doc, section, tokens, characters, overlap, c) ==
    Chunker!NextCursor(c, Chunker!Fitting(doc, c, section.last, tokens, characters), overlap)

(* The cursor stays within the section, or the section is done. *)
LEMMA AdvancedType ==
    ASSUME NEW doc, NEW section, NEW tokens \in Nat \ {0}, NEW characters \in Nat, NEW overlap \in Nat,
           Measured(doc), Part(doc, section), NEW c \in Nat \ {0}
    PROVE  Advanced(doc, section, tokens, characters, overlap, c) \in Nat \ {0}
<1> DEFINE n == Chunker!Fitting(doc, c, section.last, tokens, characters)
<1>1. section.last \in Nat /\ Len(doc) \in Nat /\ section.last <= Len(doc)
    BY DEF Part, Measured
<1>2. CASE c <= section.last
  <2>1. section.last \in c..Len(doc) /\ c > 0 /\ c \in Nat
      BY <1>1, <1>2
  <2>2. n \in 0..section.last - c + 1
    <3> HIDE DEF n
    <3> QED BY <2>1, FittingIs DEF n
  <2> HIDE DEF n
  <2>3. CASE n > 0
    <3>1. n \in Nat \ {0}
        BY <2>2, <2>3
    <3>2. Chunker!NextCursor(c, n, overlap) \in c + 1..c + n
        BY <2>1, <3>1, CursorAdvances
    <3> QED BY <3>1, <3>2 DEF Advanced, n
  <2>4. CASE n = 0
    <3>1. Chunker!Min({overlap, n - 1}) = -1
        BY <2>4, MinOfTwo
    <3> QED BY <2>4, <3>1 DEF Advanced, n, Chunker!NextCursor
  <2> QED BY <1>1, <2>1, <2>2, <2>3, <2>4
<1>3. CASE ~(c <= section.last)
  <2> DEFINE most == Chunker!Min({tokens, section.last - c + 1})
  <2>1. section.last - c + 1 \in Int /\ section.last - c + 1 < 1
      BY <1>1, <1>3
  <2>2. most = IF tokens <= section.last - c + 1 THEN tokens ELSE section.last - c + 1
      BY <2>1, MinOfTwo
  <2>3. most \in Int /\ most < 1
      BY <2>1, <2>2
  <2> HIDE DEF most
  <2>4. {m \in 1..most : Chunker!Characters(doc, c, c + m - 1) <= characters} = {}
      BY <2>3
  <2>5. n = CHOOSE x \in {0} : \A y \in {0} : x >= y
      BY <2>4 DEF Chunker!Fitting, Chunker!Max, most
  <2> HIDE DEF n
  <2>6. n = 0
      BY <2>5
  <2>7. Chunker!Min({overlap, n - 1}) = -1
      BY <2>6, MinOfTwo
  <2> QED BY <2>6, <2>7 DEF Advanced, n, Chunker!NextCursor
<1> QED BY <1>2, <1>3

(* What the loop of _window_ranges does to its cursor. *)
LEMMA CursorsAre ==
    ASSUME NEW doc, NEW section, NEW tokens \in Nat \ {0}, NEW characters \in Nat, NEW overlap \in Nat,
           Measured(doc), Part(doc, section)
    PROVE  LET at == Chunker!Cursors(doc, section, tokens, characters, overlap) IN
           /\ at[0] = section.first
           /\ \A k \in 1..section.last - section.first :
                at[k] = Advanced(doc, section, tokens, characters, overlap, at[k - 1])
<1> DEFINE n == section.last - section.first
           S == Nat \ {0}
           After(c) == Advanced(doc, section, tokens, characters, overlap, c)
           Is(f) == f = [k \in 0..n |-> IF k = 0 THEN section.first ELSE After(f[k - 1])]
           step == [k \in 1..n |-> [c \in S |-> After(c)]]
           at == Chunker!Cursors(doc, section, tokens, characters, overlap)
<1>1. n \in Nat /\ section.first \in S
    BY DEF Part, Measured
<1>2. step \in [1..n -> [S -> S]]
  <2>1. \A c \in S : After(c) \in S
      BY AdvancedType
  <2> HIDE DEF After, S, n
  <2> QED BY <2>1
<1>3. PICK f : Recurs(f, n, S, section.first, step)
  <2> HIDE DEF step, n, S
  <2> QED BY <1>1, <1>2, RecursionTo
<1>4. ASSUME NEW k \in 1..n PROVE f[k] = After(f[k - 1])
  <2>1. k - 1 \in 0..n
      BY <1>1
  <2>2. f[k] = step[k][f[k - 1]] /\ f[k - 1] \in S
    <3> HIDE DEF step, n, S
    <3> QED BY <1>3, <2>1 DEF Recurs
  <2> HIDE DEF After, S, n
  <2> QED BY <2>2
<1>5. f = [k \in 0..n |-> IF k = 0 THEN section.first ELSE f[k]]
  <2> HIDE DEF step, n, S
  <2> QED BY <1>3 DEF Recurs
<1>6. Is(f)
  <2> DEFINE g == [k \in 0..n |-> IF k = 0 THEN section.first ELSE After(f[k - 1])]
  <2>1. ASSUME NEW k \in 0..n PROVE f[k] = g[k]
    <3> HIDE DEF After
    <3>1. CASE k = 0
        BY <1>5, <3>1
    <3>2. CASE k # 0
      <4>1. k \in 1..n
          BY <1>1, <3>2
      <4> HIDE DEF n
      <4> QED BY <1>4, <4>1, <3>2
    <3> QED BY <3>1, <3>2
  <2> HIDE DEF After, n
  <2> QED BY <1>5, <2>1
<1>7. at = CHOOSE g : Is(g)
    BY DEF Chunker!Cursors, Advanced
<1>8. Is(at)
  <2> HIDE DEF Is, at
  <2> QED BY <1>6, <1>7
<1> HIDE DEF at, After, n
<1>9. at[0] = section.first /\ \A k \in 1..n : at[k] = After(at[k - 1])
    BY <1>1, <1>8
<1> QED BY <1>9 DEF at, After, n

Ranges == {r \in [first : Nat, last : Nat] : r.first <= r.last}

(* Windows that cover a section within the budgets, or one is TooLong and  *)
(* there is a token that is.                                               *)
Whole(doc, windows, section, tokens, characters, overlap) ==
    /\ windows \in Seq(Ranges) /\ Len(windows) > 0
    /\ (\A k \in 1..Len(windows) : windows[k] # Chunker!TooLong) =>
         /\ Chunker!Cover(windows, section.first, section.last, overlap)
         /\ \A k \in 1..Len(windows) :
              /\ Chunker!Within(doc, windows[k], tokens, characters)
              /\ windows[k].first >= section.first /\ windows[k].last <= section.last
    /\ (\E k \in 1..Len(windows) : windows[k] = Chunker!TooLong) =>
         \E i \in 1..Len(doc) : Chunker!Characters(doc, i, i) > characters

(* Cover, by the indexes of its windows. *)
LEMMA CoverIs ==
    ASSUME NEW windows \in Seq(Ranges), Len(windows) > 0, NEW first, NEW last, NEW overlap
    PROVE  Chunker!Cover(windows, first, last, overlap) <=>
             /\ windows[1].first = first /\ windows[Len(windows)].last = last
             /\ \A k \in 1..Len(windows) - 1 :
                  /\ windows[k].last + 1 - windows[k + 1].first \in 0..overlap
                  /\ windows[k].first < windows[k + 1].first /\ windows[k].last <= windows[k + 1].last
<1>1. Head(windows) = windows[1]
    OBVIOUS
<1> QED BY <1>1 DEF Chunker!Cover, Chunker!Last

(* _window_ranges covers the section, or a token is too long. *)
LEMMA WindowsAre ==
    ASSUME NEW doc, NEW section, NEW tokens \in Nat \ {0}, NEW characters \in Nat, NEW overlap \in Nat,
           Measured(doc), Part(doc, section)
    PROVE  Whole(doc, Chunker!Windows(doc, section, tokens, characters, overlap), section, tokens, characters, overlap)
<1> DEFINE first == section.first
           last  == section.last
           m     == last - first
           at    == Chunker!Cursors(doc, section, tokens, characters, overlap)
           w(k)  == Chunker!WindowFrom(doc, section, tokens, characters, at[k - 1])
           ends  == {n \in 1..m + 1 : w(n).last \in {0, last}}
           e     == Chunker!Min(ends)
           W     == Chunker!Windows(doc, section, tokens, characters, overlap)
           Turn(c) == Advanced(doc, section, tokens, characters, overlap, c)
           Going(k) == \A j \in 1..k : j \notin ends
           P     == {k \in 0..m : Going(k) => at[k] \in first + k..last}
<1>1. first \in Nat /\ last \in Nat /\ first > 0 /\ first <= last /\ last <= Len(doc) /\ Len(doc) \in Nat /\ m \in Nat
    BY DEF Part, Measured
<1>2. at[0] = first /\ \A k \in 1..m : at[k] = Turn(at[k - 1])
  <2> HIDE DEF at
  <2> QED BY CursorsAre DEF at
<1>3. W = [k \in 1..e |-> w(k)]
    BY DEF Chunker!Windows
<1> HIDE DEF W, at
\* A window that does not end the section moves the cursor on in it.
<1>4. ASSUME NEW k \in 1..m + 1, at[k - 1] \in first..last, k \notin ends
      PROVE  LET next == Turn(at[k - 1]) IN
             /\ w(k) # Chunker!TooLong /\ w(k).first = at[k - 1] /\ w(k).last \in Nat /\ w(k).last < last
             /\ next \in at[k - 1] + 1..w(k).last + 1 /\ w(k).last + 1 - next \in 0..overlap
  <2> DEFINE c == at[k - 1]
             n == Chunker!Fitting(doc, c, last, tokens, characters)
  <2>1. WindowAt(doc, section, tokens, characters, c)
    <3> HIDE DEF c
    <3> QED BY <1>4, WindowIs DEF c
  <2>2. w(k).last # 0 /\ w(k).last # last
      BY <1>4
  <2>3. w(k) # Chunker!TooLong /\ w(k).first = c /\ w(k).last \in c..last
      BY <2>1, <2>2 DEF WindowAt
  <2>4. n # 0 /\ w(k) = [first |-> c, last |-> c + n - 1]
      BY <2>3 DEF Chunker!WindowFrom
  <2>5. c \in Nat /\ c > 0 /\ last \in c..Len(doc)
      BY <1>1, <1>4
  <2> HIDE DEF c, n
  <2>6. n \in Nat \ {0}
    <3>1. n \in 0..last - c + 1
        BY <2>5, FittingIs DEF n
    <3> QED BY <2>4, <3>1
  <2>7. w(k).last = c + n - 1
      BY <2>4
  <2>8. Chunker!NextCursor(c, n, overlap) \in c + 1..c + n
        /\ c + n - Chunker!NextCursor(c, n, overlap) \in 0..overlap
      BY <2>5, <2>6, CursorAdvances
  <2>9. Turn(c) = Chunker!NextCursor(c, n, overlap)
      BY DEF Advanced, n
  <2> HIDE DEF w, Turn
  <2>10. w(k).last + 1 = c + n /\ w(k).last \in Nat /\ w(k).last < last
      BY <1>1, <2>2, <2>3, <2>5, <2>6, <2>7
  <2>11. Turn(c) \in c + 1..w(k).last + 1 /\ w(k).last + 1 - Turn(c) \in 0..overlap
      BY <2>5, <2>6, <2>8, <2>9, <2>10
  <2> QED BY <2>3, <2>10, <2>11 DEF c
<1> HIDE DEF Turn, w
<1>5. 0 \in P
    BY <1>1, <1>2
<1>6. ASSUME NEW k \in 0..m, k < m, k \in P PROVE k + 1 \in P
  <2>1. k + 1 \in 1..m /\ k + 1 \in 1..m + 1 /\ k + 1 - 1 = k /\ k + 1 \in 0..m
      BY <1>1, <1>6
  <2>2. ASSUME Going(k + 1) PROVE at[k + 1] \in first + (k + 1)..last
    <3>1. Going(k) /\ k + 1 \notin ends
        BY <2>1, <2>2
    <3>2. at[k] \in first + k..last
        BY <1>6, <3>1
    <3>3. at[k + 1 - 1] \in first..last
        BY <1>1, <2>1, <3>2
    <3>4. w(k + 1).last \in Nat /\ w(k + 1).last < last /\ Turn(at[k]) \in at[k] + 1..w(k + 1).last + 1
      <4> HIDE DEF ends
      <4> QED BY <1>4, <2>1, <3>1, <3>3
    <3>5. at[k + 1] = Turn(at[k])
        BY <1>2, <2>1
    <3>6. at[k] \in Nat
        BY <1>1, <3>2
    <3>7. k \in Nat /\ Turn(at[k]) \in Nat /\ Turn(at[k]) >= at[k] + 1 /\ Turn(at[k]) <= w(k + 1).last + 1
        BY <1>1, <1>6, <3>4, <3>6
    <3>9. at[k] >= first + k /\ w(k + 1).last \in Nat /\ w(k + 1).last < last
        BY <1>1, <3>2, <3>4, <3>7
    <3>8. Turn(at[k]) >= first + (k + 1) /\ Turn(at[k]) <= last
      <4> DEFINE a == at[k]  t == Turn(at[k])  q == w(k + 1).last
      <4>1. /\ a \in Nat /\ t \in Nat /\ q \in Nat /\ k \in Nat /\ first \in Nat /\ last \in Nat
            /\ t >= a + 1 /\ t <= q + 1 /\ a >= first + k /\ q < last
          BY <1>1, <3>6, <3>7, <3>9
      <4> HIDE DEF a, t, q, first, last
      <4>2. t >= first + (k + 1) /\ t <= last
          BY <4>1
      <4> QED BY <4>2 DEF t, first, last
    <3> HIDE DEF m
    <3> QED BY <1>1, <3>5, <3>7, <3>8
  <2> HIDE DEF ends
  <2> QED BY <2>1, <2>2
<1>7. 0..m \subseteq P
  <2> HIDE DEF P, m
  <2> QED BY <1>1, <1>5, <1>6, InductionTo
<1> HIDE DEF P
<1>8. \A k \in 0..m : Going(k) => at[k] \in first + k..last
    BY <1>7 DEF P
\* Some window ends the section.
<1>9. ends # {}
  <2> SUFFICES ASSUME ends = {} PROVE FALSE
      OBVIOUS
  <2>1. at[m] = last
    <3>1. Going(m) /\ m \in 0..m
        BY <1>1
    <3> HIDE DEF m, ends
    <3>2. at[m] \in first + m..last
        BY <1>8, <3>1
    <3> QED BY <1>1, <3>2 DEF m
  <2>2. m + 1 \in 1..m + 1 /\ m + 1 - 1 = m
      BY <1>1
  <2>3. m + 1 \notin ends
      OBVIOUS
  <2> HIDE DEF ends, m
  <2>4. Turn(at[m]) \in at[m] + 1..w(m + 1).last + 1 /\ w(m + 1).last \in Nat /\ w(m + 1).last < last
    <3>1. PICK k : k = m + 1
        OBVIOUS
    <3>2. k \in 1..m + 1 /\ k - 1 = m /\ k \notin ends
        BY <1>1, <2>2, <2>3, <3>1
    <3>3. at[k - 1] \in first..last
        BY <1>1, <2>1, <3>2
    <3>4. /\ Turn(at[k - 1]) \in at[k - 1] + 1..w(k).last + 1
          /\ w(k).last \in Nat /\ w(k).last < last
        BY <1>4, <3>2, <3>3
    <3> QED BY <3>1, <3>2, <3>4
  <2> QED BY <1>1, <2>1, <2>4
<1>10. e \in ends /\ \A n \in ends : e <= n
  <2>1. ends \in SUBSET Nat
      BY <1>1
  <2> HIDE DEF ends
  <2>2. \E x \in ends : \A y \in ends : x <= y
      BY <1>9, <2>1, LeastNumber
  <2> QED BY <2>2 DEF Chunker!Min
<1>11. e \in 1..m + 1 /\ w(e).last \in {0, last}
    BY <1>10
<1> HIDE DEF e
<1>12. \A k \in 1..e - 1 : k \in 1..m + 1 /\ k \notin ends
  <2> HIDE DEF ends
  <2> QED BY <1>1, <1>10, <1>11
<1> HIDE DEF ends, m
<1>13. ASSUME NEW k \in 1..e PROVE at[k - 1] \in first..last
  <2>1. k - 1 \in 0..m /\ Going(k - 1)
      BY <1>1, <1>11, <1>12
  <2>2. at[k - 1] \in first + (k - 1)..last
      BY <1>8, <2>1
  <2> QED BY <1>1, <1>11, <2>2
<1>14. ASSUME NEW k \in 1..e PROVE WindowAt(doc, section, tokens, characters, at[k - 1])
    BY <1>13, WindowIs
<1>15. Len(W) = e /\ e \in Nat /\ e > 0 /\ \A k \in 1..e : W[k] = w(k)
    BY <1>1, <1>3, <1>11
<1>16. W \in Seq(Ranges)
  <2>1. \A k \in 1..e : w(k) \in Ranges
      BY <1>14 DEF WindowAt, Ranges, w
  <2> QED BY <1>3, <1>15, <2>1
\* No window before the last is TooLong.
<1>17. ASSUME w(e) # Chunker!TooLong PROVE w(e).last = last
    BY <1>11, <1>14, <1>15, <1>17 DEF WindowAt, w
<1>18. ASSUME \A k \in 1..Len(W) : W[k] # Chunker!TooLong
       PROVE  /\ Chunker!Cover(W, first, last, overlap)
              /\ \A k \in 1..Len(W) : /\ Chunker!Within(doc, W[k], tokens, characters)
                                     /\ W[k].first >= first /\ W[k].last <= last
  <2>1. \A k \in 1..e : /\ w(k).first = at[k - 1] /\ w(k).last \in at[k - 1]..last
                        /\ Chunker!Within(doc, w(k), tokens, characters)
      BY <1>14, <1>15, <1>18 DEF WindowAt, w
  <2>2. W[1].first = first /\ W[Len(W)].last = last
      BY <1>2, <1>15, <1>17, <1>18, <2>1
  <2>3. ASSUME NEW k \in 1..e - 1
        PROVE  /\ W[k].last + 1 - W[k + 1].first \in 0..overlap
               /\ W[k].first < W[k + 1].first /\ W[k].last <= W[k + 1].last
    <3>1. k \in 1..e /\ k + 1 \in 1..e /\ k \in 1..m /\ k \in 1..m + 1 /\ k \notin ends /\ k + 1 - 1 = k
        BY <1>1, <1>11, <1>12
    <3>2. at[k] = Turn(at[k - 1]) /\ at[k - 1] \in first..last /\ at[k] \in first..last
        BY <1>2, <1>13, <3>1
    <3>3. /\ w(k).last \in Nat /\ at[k] \in at[k - 1] + 1..w(k).last + 1
          /\ w(k).last + 1 - at[k] \in 0..overlap
        BY <1>4, <3>1, <3>2
    <3>4. W[k] = w(k) /\ W[k + 1] = w(k + 1) /\ w(k).first = at[k - 1] /\ w(k + 1).first = at[k]
        BY <1>15, <2>1, <3>1
    <3>5. w(k).last <= w(k + 1).last
      <4>1. w(k) # Chunker!TooLong /\ w(k + 1) # Chunker!TooLong
          BY <1>15, <1>18, <3>1
      <4>2. at[k - 1] < at[k] /\ at[k] <= w(k).last + 1
          BY <1>1, <3>2, <3>3
      <4>3. /\ w(k) = Chunker!WindowFrom(doc, section, tokens, characters, at[k - 1])
            /\ w(k + 1) = Chunker!WindowFrom(doc, section, tokens, characters, at[k])
          BY <3>1 DEF w
      <4> HIDE DEF w
      <4> QED BY <3>2, <4>1, <4>2, <4>3, WindowReaches
    <3> QED BY <1>1, <3>2, <3>3, <3>4, <3>5
  <2>4. Chunker!Cover(W, first, last, overlap)
      BY <1>15, <1>16, <2>2, <2>3, CoverIs
  <2>5. ASSUME NEW k \in 1..e PROVE /\ Chunker!Within(doc, W[k], tokens, characters)
                                   /\ W[k].first >= first /\ W[k].last <= last
      BY <1>1, <1>13, <1>15, <2>1
  <2> QED BY <1>15, <2>4, <2>5
<1>19. ASSUME NEW k \in 1..Len(W), W[k] = Chunker!TooLong
       PROVE  \E i \in 1..Len(doc) : Chunker!Characters(doc, i, i) > characters
  <2>1. k \in 1..e /\ at[k - 1] \in first..last /\ w(k) = Chunker!TooLong
      BY <1>13, <1>15, <1>19
  <2>2. Chunker!Characters(doc, at[k - 1], at[k - 1]) > characters
      BY <1>14, <2>1 DEF WindowAt, w
  <2> QED BY <1>1, <2>1, <2>2
<1> QED BY <1>15, <1>16, <1>18, <1>19 DEF Whole, W

(* A section starts with its token and ends before the next root heading.  *)
LEMMA SectionIs ==
    ASSUME NEW doc, Measured(doc), NEW i \in 1..Len(doc)
    PROVE  LET s == Chunker!Section(doc, i) IN
           /\ s.first = i /\ Part(doc, s)
           /\ \A r \in Chunker!Roots(doc) : r \notin i + 1..s.last
           /\ s.last + 1 \in Chunker!Roots(doc) \/ s.last = Len(doc)
<1> DEFINE T == {r \in Chunker!Roots(doc) : r > i} \cup {Len(doc) + 1}
           next == Chunker!Min(T)
<1>1. Len(doc) \in Nat /\ Chunker!Roots(doc) \subseteq 1..Len(doc)
    BY DEF Measured, Chunker!Roots, Chunker!Headings
<1>2. T \in SUBSET Nat /\ T # {}
    BY <1>1
<1>3. next \in T /\ \A r \in T : next <= r
  <2> HIDE DEF T
  <2>1. \E x \in T : \A y \in T : x <= y
      BY <1>2, LeastNumber
  <2> QED BY <2>1 DEF Chunker!Min
<1>4. Chunker!Section(doc, i).first = i /\ Chunker!Section(doc, i).last = next - 1
    BY DEF Chunker!Section
<1> HIDE DEF next
<1>5. next \in Nat /\ next > i /\ next <= Len(doc) + 1
    BY <1>1, <1>3
<1>6. ASSUME NEW r \in Chunker!Roots(doc) PROVE r \notin i + 1..next - 1
  <2>1. r \in Nat
      BY <1>1
  <2>2. r > i => next <= r
      BY <1>3
  <2> QED BY <1>5, <2>1, <2>2
<1>7. next - 1 + 1 = next /\ (next \in Chunker!Roots(doc) \/ next - 1 = Len(doc))
    BY <1>1, <1>3, <1>5
<1>8. Part(doc, Chunker!Section(doc, i))
    BY <1>1, <1>4, <1>5 DEF Part
<1> QED BY <1>4, <1>6, <1>7, <1>8

(* The windows of two sections, one behind the other. *)
LEMMA WholeJoins ==
    ASSUME NEW doc, NEW A, NEW B, NEW s, NEW t, NEW st, NEW tokens, NEW characters,
           Measured(doc), Part(doc, s), Part(doc, t),
           s.last + 1 = t.first, st.first = s.first, st.last = t.last,
           Whole(doc, A, s, tokens, characters, 0), Whole(doc, B, t, tokens, characters, 0)
    PROVE  Whole(doc, A \o B, st, tokens, characters, 0)
<1> DEFINE C == A \o B
<1>1. /\ s.first \in Nat /\ s.last \in Nat /\ s.first <= s.last
      /\ t.first \in Nat /\ t.last \in Nat /\ t.first <= t.last
  <2>1. Len(doc) \in Nat
      BY DEF Measured
  <2>2. s.first \in Nat /\ s.last \in Nat /\ s.first <= s.last
      BY <2>1 DEF Part
  <2>3. t.first \in Nat /\ t.last \in Nat /\ t.first <= t.last
      BY <2>1 DEF Part
  <2> QED BY <2>2, <2>3
<1>2. A \in Seq(Ranges) /\ Len(A) > 0 /\ B \in Seq(Ranges) /\ Len(B) > 0 /\ Len(A) \in Nat /\ Len(B) \in Nat
    BY DEF Whole
<1>3. /\ C \in Seq(Ranges) /\ Len(C) = Len(A) + Len(B)
      /\ \A k \in 1..Len(A) + Len(B) : C[k] = IF k <= Len(A) THEN A[k] ELSE B[k - Len(A)]
    BY <1>2, ConcatProperties
<1> HIDE DEF C
<1>4. \A k \in 1..Len(A) : C[k] = A[k]
    BY <1>2, <1>3
<1>5. \A k \in 1..Len(B) : Len(A) + k \in 1..Len(C) /\ C[Len(A) + k] = B[k]
  <2>1. ASSUME NEW k \in 1..Len(B) PROVE Len(A) + k \in 1..Len(C) /\ C[Len(A) + k] = B[k]
    <3>1. Len(A) + k \in 1..Len(A) + Len(B) /\ ~(Len(A) + k <= Len(A)) /\ Len(A) + k - Len(A) = k
        BY <1>2
    <3> QED BY <1>3, <3>1
  <2> QED BY <2>1
<1>6. ASSUME NEW k \in 1..Len(C)
      PROVE  (k \in 1..Len(A) /\ C[k] = A[k])
             \/ \E j \in 1..Len(B) : k = Len(A) + j /\ C[k] = B[j]
  <2>1. CASE k <= Len(A)
      BY <1>2, <1>3, <2>1
  <2>2. CASE ~(k <= Len(A))
    <3>1. k \in Int /\ k <= Len(A) + Len(B) /\ k > Len(A)
        BY <1>2, <1>3, <2>2
    <3>2. k - Len(A) \in 1..Len(B) /\ k = Len(A) + (k - Len(A))
        BY <1>2, <3>1
    <3> QED BY <1>3, <2>2, <3>2
  <2> QED BY <2>1, <2>2
<1>7. ASSUME \A k \in 1..Len(C) : C[k] # Chunker!TooLong
      PROVE  /\ Chunker!Cover(C, st.first, st.last, 0)
             /\ \A k \in 1..Len(C) :
                  /\ Chunker!Within(doc, C[k], tokens, characters)
                  /\ C[k].first >= st.first /\ C[k].last <= st.last
  <2>1. \A k \in 1..Len(A) : A[k] # Chunker!TooLong
      BY <1>2, <1>3, <1>4, <1>7
  <2>2. \A k \in 1..Len(B) : B[k] # Chunker!TooLong
      BY <1>5, <1>7
  <2>3. /\ A[1].first = s.first /\ A[Len(A)].last = s.last
        /\ \A k \in 1..Len(A) - 1 :
             /\ A[k].last + 1 - A[k + 1].first \in 0..0
             /\ A[k].first < A[k + 1].first /\ A[k].last <= A[k + 1].last
    <3>1. Chunker!Cover(A, s.first, s.last, 0)
        BY <2>1 DEF Whole
    <3> QED BY <1>2, <3>1, CoverIs
  <2>4. /\ B[1].first = t.first /\ B[Len(B)].last = t.last
        /\ \A k \in 1..Len(B) - 1 :
             /\ B[k].last + 1 - B[k + 1].first \in 0..0
             /\ B[k].first < B[k + 1].first /\ B[k].last <= B[k + 1].last
    <3>1. Chunker!Cover(B, t.first, t.last, 0)
        BY <2>2 DEF Whole
    <3> QED BY <1>2, <3>1, CoverIs
  <2>5. C[1].first = st.first /\ C[Len(C)].last = st.last
      BY <1>2, <1>3, <1>4, <1>5, <2>3, <2>4
  <2>6. ASSUME NEW k \in 1..Len(C) - 1
        PROVE  /\ C[k].last + 1 - C[k + 1].first \in 0..0
               /\ C[k].first < C[k + 1].first /\ C[k].last <= C[k + 1].last
    <3>1. CASE k < Len(A)
      <4>1. k \in 1..Len(A) - 1 /\ k \in 1..Len(A) /\ k + 1 \in 1..Len(A)
          BY <1>2, <1>3, <3>1
      <4> QED BY <1>4, <2>3, <4>1
    <3>2. CASE k = Len(A)
      <4>1. C[k] = A[Len(A)] /\ C[k + 1] = B[1]
          BY <1>2, <1>4, <1>5, <3>2
      <4>2. /\ A[Len(A)].first \in Nat /\ A[Len(A)].first <= A[Len(A)].last
            /\ B[1].last \in Nat /\ B[1].first <= B[1].last
        <5>1. A[Len(A)] \in Ranges /\ B[1] \in Ranges
            BY <1>2
        <5> QED BY <5>1 DEF Ranges
      <4>3. A[Len(A)].last = s.last /\ B[1].first = s.last + 1
          BY <2>3, <2>4
      <4>4. A[Len(A)].last + 1 - B[1].first \in 0..0
          BY <1>1, <4>3
      <4>5. A[Len(A)].first < B[1].first /\ A[Len(A)].last <= B[1].last
          BY <1>1, <4>2, <4>3
      <4> QED BY <4>1, <4>4, <4>5
    <3>3. CASE k > Len(A)
      <4>1. k \in Int
          BY <1>2, <1>3
      <4> DEFINE j == k - Len(A)
      <4>2. k = Len(A) + j /\ k + 1 = Len(A) + (j + 1) /\ j \in 1..Len(B) - 1 /\ j \in 1..Len(B) /\ j + 1 \in 1..Len(B)
          BY <1>2, <1>3, <3>3, <4>1
      <4> HIDE DEF j
      <4>3. C[k] = B[j] /\ C[k + 1] = B[j + 1]
          BY <1>5, <4>2
      <4> QED BY <2>4, <4>2, <4>3
    <3> QED BY <1>2, <1>3, <3>1, <3>2, <3>3
  <2>7. Chunker!Cover(C, st.first, st.last, 0)
    <3>1. Len(C) > 0
        BY <1>2, <1>3
    <3> QED BY <1>3, <2>5, <2>6, <3>1, CoverIs
  <2>8. ASSUME NEW k \in 1..Len(C)
        PROVE  /\ Chunker!Within(doc, C[k], tokens, characters)
               /\ C[k].first >= st.first /\ C[k].last <= st.last
    <3>1. CASE k \in 1..Len(A) /\ C[k] = A[k]
      <4>1. /\ Chunker!Within(doc, A[k], tokens, characters)
            /\ A[k].first >= s.first /\ A[k].last <= s.last
          BY <2>1, <3>1 DEF Whole
      <4>2. A[k].last \in Nat
          BY <1>2, <3>1 DEF Ranges
      <4> QED BY <1>1, <3>1, <4>1, <4>2
    <3>2. CASE \E j \in 1..Len(B) : k = Len(A) + j /\ C[k] = B[j]
      <4>1. PICK j \in 1..Len(B) : C[k] = B[j]
          BY <3>2
      <4>2. /\ Chunker!Within(doc, B[j], tokens, characters)
            /\ B[j].first >= t.first /\ B[j].last <= t.last
          BY <2>2 DEF Whole
      <4>3. B[j].first \in Nat
          BY <1>2 DEF Ranges
      <4> QED BY <1>1, <4>1, <4>2, <4>3
    <3> QED BY <1>6, <3>1, <3>2
  <2> QED BY <2>7, <2>8
<1>8. ASSUME NEW k \in 1..Len(C), C[k] = Chunker!TooLong
      PROVE  \E i \in 1..Len(doc) : Chunker!Characters(doc, i, i) > characters
    BY <1>6, <1>8 DEF Whole
<1>9. Len(C) > 0
    BY <1>2, <1>3
<1> QED BY <1>3, <1>7, <1>8, <1>9 DEF Whole, C

(* No parent crosses a root heading. *)
Uncrossed(doc, windows) ==
    (\A k \in 1..Len(windows) : windows[k] # Chunker!TooLong) =>
        \A k \in 1..Len(windows) : \A r \in Chunker!Roots(doc) : r \notin windows[k].first + 1..windows[k].last

(* The parents of the sections up to that of a token. *)
ParentsUpTo(doc, parents, i) ==
    LET end == Chunker!Section(doc, i).last IN
    /\ Whole(doc, parents, [first |-> 1, last |-> end], ParentTokens, ParentCharacters, 0)
    /\ Uncrossed(doc, parents)

(* The parents of one section. *)
LEMMA SectionParents ==
    ASSUME NEW doc, Measured(doc), NEW i \in 1..Len(doc)
    PROVE  LET s == Chunker!Section(doc, i)
               W == Chunker!Windows(doc, s, ParentTokens, ParentCharacters, 0)
           IN  Whole(doc, W, s, ParentTokens, ParentCharacters, 0) /\ Uncrossed(doc, W)
<1> DEFINE s == Chunker!Section(doc, i)
           W == Chunker!Windows(doc, s, ParentTokens, ParentCharacters, 0)
<1>1. /\ s.first = i /\ Part(doc, s)
      /\ \A r \in Chunker!Roots(doc) : r \notin i + 1..s.last
    BY SectionIs
<1>2. ParentTokens \in Nat \ {0} /\ ParentCharacters \in Nat /\ 0 \in Nat
    BY ChunkingAssumption
<1> HIDE DEF s
<1>3. Whole(doc, W, s, ParentTokens, ParentCharacters, 0)
    BY <1>1, <1>2, WindowsAre
<1> HIDE DEF W
<1>4. ASSUME \A k \in 1..Len(W) : W[k] # Chunker!TooLong,
             NEW k \in 1..Len(W), NEW r \in Chunker!Roots(doc), r \in W[k].first + 1..W[k].last
      PROVE  FALSE
  <2>1. W[k].first >= s.first /\ W[k].last <= s.last
      BY <1>3, <1>4 DEF Whole
  <2>2. W[k].first \in Nat /\ W[k].last \in Nat
      BY <1>3, <1>4 DEF Whole, Ranges
  <2>3. s.first \in Nat /\ s.last \in Nat
    <3>1. Len(doc) \in Nat
        BY DEF Measured
    <3> QED BY <1>1, <3>1 DEF Part
  <2>4. r \in i + 1..s.last
      BY <1>1, <1>4, <2>1, <2>2, <2>3
  <2> QED BY <1>1, <2>4
<1> QED BY <1>3, <1>4 DEF Uncrossed, W, s

(* What the loop over the sections computes. *)
LEMMA ParentsToIs ==
    ASSUME NEW doc, Measured(doc)
    PROVE  LET upTo == Chunker!ParentsTo(doc) IN
           /\ upTo[0] = <<>>
           /\ \A i \in 1..Len(doc) :
                upTo[i] = IF i \in Chunker!Roots(doc) \cup {1}
                          THEN upTo[i - 1]
                               \o Chunker!Windows(doc, Chunker!Section(doc, i), ParentTokens, ParentCharacters, 0)
                          ELSE upTo[i - 1]
<1> DEFINE n == Len(doc)
           S == Seq(Ranges)
           W(i) == Chunker!Windows(doc, Chunker!Section(doc, i), ParentTokens, ParentCharacters, 0)
           Goes(i, w) == IF i \in Chunker!Roots(doc) \cup {1} THEN w \o W(i) ELSE w
           Is(f) == f = [i \in 0..n |-> IF i = 0 THEN <<>>
                                        ELSE IF i \in Chunker!Roots(doc) \cup {1} THEN f[i - 1] \o W(i) ELSE f[i - 1]]
           step == [i \in 1..n |-> [w \in S |-> Goes(i, w)]]
           upTo == Chunker!ParentsTo(doc)
<1>1. n \in Nat /\ <<>> \in S
    BY DEF Measured
<1>2. step \in [1..n -> [S -> S]]
  <2>1. ASSUME NEW i \in 1..n, NEW w \in S PROVE Goes(i, w) \in S
    <3>1. W(i) \in S
        BY SectionParents DEF Whole
    <3> HIDE DEF W
    <3> QED BY <3>1
  <2> HIDE DEF Goes, S, n
  <2> QED BY <2>1
<1>3. PICK f : Recurs(f, n, S, <<>>, step)
  <2> HIDE DEF step, n, S
  <2> QED BY <1>1, <1>2, RecursionTo
<1>4. ASSUME NEW i \in 1..n PROVE f[i] = Goes(i, f[i - 1])
  <2>1. i - 1 \in 0..n
      BY <1>1
  <2>2. f[i] = step[i][f[i - 1]] /\ f[i - 1] \in S
    <3> HIDE DEF step, n, S
    <3> QED BY <1>3, <2>1 DEF Recurs
  <2> HIDE DEF Goes, S, n
  <2> QED BY <2>2
<1>5. f = [i \in 0..n |-> f[i]] /\ f[0] = <<>>
  <2> HIDE DEF step, n, S
  <2> QED BY <1>3 DEF Recurs
<1>6. Is(f)
  <2> DEFINE g == [i \in 0..n |-> IF i = 0 THEN <<>>
                                  ELSE IF i \in Chunker!Roots(doc) \cup {1} THEN f[i - 1] \o W(i) ELSE f[i - 1]]
  <2>1. ASSUME NEW i \in 0..n PROVE f[i] = g[i]
    <3> HIDE DEF W
    <3>1. CASE i = 0
        BY <1>5, <3>1
    <3>2. CASE i # 0
      <4>1. i \in 1..n
          BY <1>1, <3>2
      <4> HIDE DEF n
      <4> QED BY <1>4, <4>1, <3>2
    <3> QED BY <3>1, <3>2
  <2> HIDE DEF W, n
  <2> QED BY <1>5, <2>1
<1>7. upTo = CHOOSE g : Is(g)
    BY DEF Chunker!ParentsTo
<1>8. Is(upTo)
  <2> HIDE DEF Is, upTo
  <2> QED BY <1>6, <1>7
<1> HIDE DEF upTo, W, n
<1>9. upTo[0] = <<>>
    BY <1>1, <1>8
<1>10. ASSUME NEW i \in 1..n PROVE upTo[i] = Goes(i, upTo[i - 1])
  <2>1. i \in 0..n /\ i # 0
      BY <1>1
  <2>2. upTo = [j \in 0..n |-> IF j = 0 THEN <<>>
                               ELSE IF j \in Chunker!Roots(doc) \cup {1} THEN upTo[j - 1] \o W(j) ELSE upTo[j - 1]]
      BY <1>8
  <2>3. upTo[i] = IF i \in Chunker!Roots(doc) \cup {1} THEN upTo[i - 1] \o W(i) ELSE upTo[i - 1]
      BY <2>1, <2>2
  <2> QED BY <2>3
<1> QED BY <1>9, <1>10 DEF upTo, W, n

(* The parents of all sections cover the document. *)
LEMMA ParentsAre ==
    ASSUME NEW doc, Measured(doc), Len(doc) > 0
    PROVE  ParentsUpTo(doc, Chunker!Parents(doc), Len(doc))
<1> DEFINE n == Len(doc)
           upTo == Chunker!ParentsTo(doc)
           Through(i) == Chunker!Section(doc, i).last
           W(i) == Chunker!Windows(doc, Chunker!Section(doc, i), ParentTokens, ParentCharacters, 0)
           P == {i \in 0..n : i > 0 => ParentsUpTo(doc, upTo[i], i)}
<1>1. n \in Nat
    BY DEF Measured
<1>2. upTo[0] = <<>> /\ \A i \in 1..n : upTo[i] = IF i \in Chunker!Roots(doc) \cup {1}
                                                     THEN upTo[i - 1] \o W(i) ELSE upTo[i - 1]
    BY ParentsToIs
<1>3. \A i \in 1..n : /\ Whole(doc, W(i), Chunker!Section(doc, i), ParentTokens, ParentCharacters, 0)
                      /\ Uncrossed(doc, W(i))
    BY SectionParents
<1>4. \A i \in 1..n : /\ Chunker!Section(doc, i).first = i /\ Part(doc, Chunker!Section(doc, i))
                      /\ \A r \in Chunker!Roots(doc) : r \notin i + 1..Through(i)
                      /\ Through(i) + 1 \in Chunker!Roots(doc) \/ Through(i) = n
    BY SectionIs
<1>5. \A i \in 1..n : Through(i) \in i..n /\ Through(i) \in Nat
    BY <1>1, <1>4 DEF Part
<1> HIDE DEF upTo, W, n
<1>6. ASSUME NEW k \in 0..n, NEW i \in 1..n, i = k + 1
      PROVE  upTo[i] = IF i \in Chunker!Roots(doc) \cup {1} THEN upTo[k] \o W(i) ELSE upTo[k]
  <2>1. i - 1 = k
      BY <1>6
  <2> QED BY <1>2, <2>1
<1>7. 0 \in P
    BY <1>1
<1>8. ASSUME NEW k \in 0..n, k < n, k \in P PROVE k + 1 \in P
  <2>1. k + 1 \in 1..n /\ k + 1 - 1 = k /\ k \in Nat
      BY <1>1, <1>8
  <2>2. upTo[k + 1] = IF k + 1 \in Chunker!Roots(doc) \cup {1} THEN upTo[k] \o W(k + 1) ELSE upTo[k]
      BY <1>6, <2>1
  <2> DEFINE i == k + 1
             s == Chunker!Section(doc, i)
  <2>3. CASE k = 0
    <3>1. upTo[i] = W(i)
      <4>1. W(i) \in Seq(Ranges)
          BY <1>3, <2>1 DEF Whole
      <4>2. upTo[i] = <<>> \o W(i)
          BY <1>2, <2>3, <2>2
      <4> QED BY <4>1, <4>2, ConcatEmptySeq
    <3>2. s.first = 1 /\ Whole(doc, W(i), s, ParentTokens, ParentCharacters, 0) /\ Uncrossed(doc, W(i))
        BY <1>3, <1>4, <2>1, <2>3
    <3>3. Whole(doc, W(i), [first |-> 1, last |-> s.last], ParentTokens, ParentCharacters, 0)
        BY <3>2 DEF Whole
    <3> QED BY <2>1, <3>1, <3>2, <3>3 DEF ParentsUpTo
  <2>4. CASE k # 0 /\ i \in Chunker!Roots(doc)
    <3>1. k \in 1..n /\ ParentsUpTo(doc, upTo[k], k)
        BY <1>8, <2>1, <2>4
    <3>2. upTo[i] = upTo[k] \o W(i)
        BY <2>4, <2>2
    <3>3. Through(k) = k
      <4>1. ~(i \in k + 1..Through(k)) /\ Through(k) \in k..n /\ Through(k) \in Nat
          BY <1>4, <1>5, <2>4, <3>1
      <4> HIDE DEF Through
      <4> QED BY <2>1, <4>1
    <3> DEFINE a == [first |-> 1, last |-> k]
               b == [first |-> 1, last |-> s.last]
    <3>4. Whole(doc, upTo[k], a, ParentTokens, ParentCharacters, 0) /\ Uncrossed(doc, upTo[k])
        BY <3>1, <3>3 DEF ParentsUpTo
    <3>5. /\ Whole(doc, W(i), s, ParentTokens, ParentCharacters, 0) /\ Uncrossed(doc, W(i))
          /\ Part(doc, s) /\ s.first = i
        BY <1>3, <1>4, <2>1
    <3>6. Part(doc, a) /\ a.last + 1 = s.first /\ b.first = a.first /\ b.last = s.last
      <4>1. a.first = 1 /\ a.last = k /\ 1 \in 1..n /\ k \in 1..n
          BY <1>1, <2>1, <3>1
      <4> QED BY <1>1, <2>1, <3>5, <4>1 DEF Part, n
    <3> HIDE DEF a, b, s, i
    <3>7. Whole(doc, upTo[k] \o W(i), b, ParentTokens, ParentCharacters, 0)
        BY <3>4, <3>5, <3>6, WholeJoins
    <3>8. Uncrossed(doc, upTo[k] \o W(i))
      <4> DEFINE A == upTo[k]  B == W(i)
      <4>1. A \in Seq(Ranges) /\ B \in Seq(Ranges) /\ Len(A) \in Nat /\ Len(B) \in Nat
          BY <3>4, <3>5 DEF Whole
      <4> HIDE DEF A, B
      <4>2. /\ Len(A \o B) = Len(A) + Len(B)
            /\ \A j \in 1..Len(A) + Len(B) : (A \o B)[j] = IF j <= Len(A) THEN A[j] ELSE B[j - Len(A)]
          BY <4>1, ConcatProperties
      <4> DEFINE C == A \o B
      <4> HIDE DEF C
      <4>3. \A j \in 1..Len(A) : j \in 1..Len(C) /\ C[j] = A[j]
          BY <4>1, <4>2 DEF C
      <4>4. ASSUME NEW j \in 1..Len(B) PROVE Len(A) + j \in 1..Len(C) /\ C[Len(A) + j] = B[j]
        <5>1. Len(A) + j \in 1..Len(A) + Len(B) /\ ~(Len(A) + j <= Len(A)) /\ Len(A) + j - Len(A) = j
            BY <4>1
        <5> QED BY <4>2, <5>1 DEF C
      <4>5. ASSUME \A j \in 1..Len(C) : C[j] # Chunker!TooLong, NEW j \in 1..Len(C), NEW r \in Chunker!Roots(doc)
            PROVE  r \notin C[j].first + 1..C[j].last
        <5>1. CASE j <= Len(A)
          <6>1. j \in 1..Len(A) /\ C[j] = A[j] /\ \A h \in 1..Len(A) : A[h] # Chunker!TooLong
              BY <4>1, <4>3, <4>5, <5>1
          <6> QED BY <3>4, <6>1 DEF Uncrossed, A
        <5>2. CASE ~(j <= Len(A))
          <6> DEFINE h == j - Len(A)
          <6>1. Len(C) = Len(A) + Len(B)
              BY <4>2 DEF C
          <6>2. h \in 1..Len(B) /\ Len(A) + h = j
              BY <4>1, <6>1, <5>2
          <6> HIDE DEF h
          <6>3. C[j] = B[h] /\ \A g \in 1..Len(B) : B[g] # Chunker!TooLong
              BY <4>4, <4>5, <6>2
          <6> QED BY <3>5, <6>2, <6>3 DEF Uncrossed, B
        <5> QED BY <5>1, <5>2
      <4> QED BY <4>5 DEF Uncrossed, A, B, C
    <3>9. ParentsUpTo(doc, upTo[i], i)
        BY <3>2, <3>7, <3>8 DEF ParentsUpTo, b, s
    <3> QED BY <2>1, <3>9 DEF i
  <2>5. CASE k # 0 /\ i \notin Chunker!Roots(doc)
    <3>1. k \in 1..n /\ ParentsUpTo(doc, upTo[k], k)
        BY <1>8, <2>1, <2>5
    <3>2. upTo[i] = upTo[k]
        BY <2>1, <2>5, <2>2
    <3>3. Through(i) = Through(k)
      <4>1. i \in 1..n /\ k \in 1..n /\ i = k + 1 /\ i \notin Chunker!Roots(doc) /\ k < n /\ n \in Nat
          BY <1>1, <1>8, <2>1, <2>5, <3>1
      <4> DEFINE x == Through(i)  y == Through(k)
      <4>2. /\ x \in Nat /\ x >= i /\ x <= n /\ (x + 1 \in Chunker!Roots(doc) \/ x = n)
            /\ y \in Nat /\ y >= k /\ y <= n /\ (y + 1 \in Chunker!Roots(doc) \/ y = n)
        <5> HIDE DEF i
        <5> QED BY <1>1, <1>4, <1>5, <4>1
      <4>3. \A r \in Chunker!Roots(doc) : r \notin i + 1..x /\ r \notin k + 1..y
        <5> HIDE DEF i
        <5> QED BY <1>4, <4>1
      <4> HIDE DEF i, x, y
      <4>4. y # k
          BY <4>1, <4>2
      <4>5. ASSUME y < x PROVE FALSE
        <5>1. y + 1 \in Chunker!Roots(doc) /\ y + 1 \in i + 1..x
            BY <4>1, <4>2, <4>4, <4>5
        <5> QED BY <4>3, <5>1
      <4>6. ASSUME x < y PROVE FALSE
        <5>1. x + 1 \in Chunker!Roots(doc) /\ x + 1 \in k + 1..y
            BY <4>1, <4>2, <4>6
        <5> QED BY <4>3, <5>1
      <4>7. x = y
          BY <4>2, <4>5, <4>6
      <4> QED BY <4>7 DEF x, y
    <3> QED BY <2>1, <3>1, <3>2, <3>3 DEF ParentsUpTo
  <2> QED BY <2>3, <2>4, <2>5
<1> HIDE DEF P
<1>9. 0..n \subseteq P
    BY <1>1, <1>7, <1>8, InductionTo
<1> QED BY <1>1, <1>9 DEF P, Chunker!Parents, n, upTo

-----------------------------------------------------------------------------
(* The chunks of a document cover it. *)

(* The children of a parent, or a token of it that is too long for them. *)
LEMMA ChildrenAre ==
    ASSUME NEW doc, Measured(doc), NEW parent, Part(doc, parent), parent # Chunker!TooLong
    PROVE  Whole(doc, Chunker!Children(doc, parent), parent, ChildTokens, ChildCharacters, ChildOverlap)
<1>1. ChildTokens \in Nat \ {0} /\ ChildCharacters \in Nat /\ ChildOverlap \in Nat
    BY ChunkingAssumption
<1> QED BY <1>1, WindowsAre DEF Chunker!Children

(* What Chunk makes of a document. *)
Chunked(doc, parents, children) ==
    /\ parents = Chunker!Parents(doc)
    /\ children = [p \in 1..Len(parents) |-> Chunker!Children(doc, parents[p])]

(* A token longer than one of the budgets is longer than the least. *)
LEMMA LongerThanBudget ==
    ASSUME NEW doc, Measured(doc), NEW characters \in {ParentCharacters, ChildCharacters},
           \E i \in 1..Len(doc) : Chunker!Characters(doc, i, i) > characters
    PROVE  \E i \in 1..Len(doc) : Chunker!Characters(doc, i, i) > Chunker!Min({ParentCharacters, ChildCharacters})
<1>1. PICK i \in 1..Len(doc) : Chunker!Characters(doc, i, i) > characters
    OBVIOUS
<1>2. ParentCharacters \in Int /\ ChildCharacters \in Int /\ Chunker!Characters(doc, i, i) \in Int
    BY ChunkingAssumption DEF Measured
<1> DEFINE least == Chunker!Min({ParentCharacters, ChildCharacters})
<1>3. least = IF ParentCharacters <= ChildCharacters THEN ParentCharacters ELSE ChildCharacters
    BY <1>2, MinOfTwo
<1> HIDE DEF least
<1>4. Chunker!Characters(doc, i, i) > least
    BY <1>1, <1>2, <1>3
<1> QED BY <1>4 DEF least

(* What ChunksCover says of a document that was chunked, and of one that   *)
(* was refused.                                                            *)
Covered(doc, parents, children) ==
    /\ Chunker!Cover(parents, 1, Len(doc), 0)
    /\ \A p \in 1..Len(parents) :
         /\ Chunker!Within(doc, parents[p], ParentTokens, ParentCharacters)
         /\ \A r \in Chunker!Roots(doc) : r \notin parents[p].first + 1 .. parents[p].last
         /\ Chunker!Cover(children[p], parents[p].first, parents[p].last, ChildOverlap)
         /\ \A c \in Chunker!ToSet(children[p]) : Chunker!Within(doc, c, ChildTokens, ChildCharacters)

Oversize(doc) ==
    \E i \in 1..Len(doc) : Chunker!Characters(doc, i, i) > Chunker!Min({ParentCharacters, ChildCharacters})

SomeTooLong(parents, children) == \E p \in 1..Len(parents) : Chunker!TooLong \in Chunker!ToSet(children[p])

(* A document is covered by its chunks, or a token is too long. *)
LEMMA ChunkedCovers ==
    ASSUME NEW doc, Measured(doc), Len(doc) > 0, NEW parents, NEW children,
           Chunked(doc, parents, children)
    PROVE  /\ ~SomeTooLong(parents, children) => Covered(doc, parents, children)
           /\ SomeTooLong(parents, children) => Oversize(doc)
<1> DEFINE end == Chunker!Section(doc, Len(doc)).last
           TooLongAt(p) == Chunker!TooLong \in Chunker!ToSet(children[p])
<1>1. Len(doc) \in Nat /\ Len(doc) > 0
    BY DEF Measured
<1>2. end = Len(doc)
  <2>1. Len(doc) \in 1..Len(doc)
      BY <1>1
  <2>2. Part(doc, Chunker!Section(doc, Len(doc))) /\ Chunker!Section(doc, Len(doc)).first = Len(doc)
      BY <2>1, SectionIs
  <2> QED BY <1>1, <2>2 DEF Part
<1>3. /\ Whole(doc, parents, [first |-> 1, last |-> Len(doc)], ParentTokens, ParentCharacters, 0)
      /\ Uncrossed(doc, parents)
    BY <1>1, <1>2, ParentsAre DEF ParentsUpTo, Chunked
<1>4. parents \in Seq(Ranges) /\ Len(parents) > 0 /\ Len(parents) \in Nat
    BY <1>3 DEF Whole
<1>5. \A p \in 1..Len(parents) : children[p] = Chunker!Children(doc, parents[p])
    BY DEF Chunked
<1>6. ASSUME NEW p \in 1..Len(parents), parents[p] = Chunker!TooLong PROVE TooLongAt(p)
  <2>1. children[p] = <<Chunker!TooLong>>
      BY <1>5, <1>6 DEF Chunker!Children
  <2> QED BY <2>1 DEF Chunker!ToSet
<1>7. ASSUME \A p \in 1..Len(parents) : parents[p] # Chunker!TooLong
      PROVE  /\ Chunker!Cover(parents, 1, Len(doc), 0)
             /\ \A p \in 1..Len(parents) :
                  /\ Chunker!Within(doc, parents[p], ParentTokens, ParentCharacters)
                  /\ \A r \in Chunker!Roots(doc) : r \notin parents[p].first + 1 .. parents[p].last
                  /\ Part(doc, parents[p])
                  /\ Whole(doc, children[p], parents[p], ChildTokens, ChildCharacters, ChildOverlap)
  <2>1. /\ Chunker!Cover(parents, 1, Len(doc), 0)
        /\ \A p \in 1..Len(parents) :
             /\ Chunker!Within(doc, parents[p], ParentTokens, ParentCharacters)
             /\ parents[p].first >= 1 /\ parents[p].last <= Len(doc)
      BY <1>3, <1>7 DEF Whole
  <2>2. ASSUME NEW p \in 1..Len(parents) PROVE Part(doc, parents[p])
    <3>1. parents[p].first \in Nat /\ parents[p].last \in Nat /\ parents[p].first <= parents[p].last
        BY <1>4 DEF Ranges
    <3>2. parents[p].first >= 1 /\ parents[p].last <= Len(doc)
        BY <2>1
    <3> QED BY <1>1, <3>1, <3>2 DEF Part
  <2>3. ASSUME NEW p \in 1..Len(parents)
        PROVE  Whole(doc, children[p], parents[p], ChildTokens, ChildCharacters, ChildOverlap)
      BY <1>5, <1>7, <2>2, ChildrenAre
  <2>4. \A p \in 1..Len(parents) : \A r \in Chunker!Roots(doc) : r \notin parents[p].first + 1 .. parents[p].last
      BY <1>3, <1>7 DEF Uncrossed
  <2> QED BY <2>1, <2>2, <2>3, <2>4
<1>8. ASSUME \A p \in 1..Len(parents) : ~TooLongAt(p)
      PROVE  /\ Chunker!Cover(parents, 1, Len(doc), 0)
             /\ \A p \in 1..Len(parents) :
                  /\ Chunker!Within(doc, parents[p], ParentTokens, ParentCharacters)
                  /\ \A r \in Chunker!Roots(doc) : r \notin parents[p].first + 1 .. parents[p].last
                  /\ Chunker!Cover(children[p], parents[p].first, parents[p].last, ChildOverlap)
                  /\ \A c \in Chunker!ToSet(children[p]) : Chunker!Within(doc, c, ChildTokens, ChildCharacters)
  <2>1. \A p \in 1..Len(parents) : parents[p] # Chunker!TooLong
      BY <1>6, <1>8
  <2>2. ASSUME NEW p \in 1..Len(parents)
        PROVE  /\ Chunker!Cover(children[p], parents[p].first, parents[p].last, ChildOverlap)
               /\ \A c \in Chunker!ToSet(children[p]) : Chunker!Within(doc, c, ChildTokens, ChildCharacters)
    <3> DEFINE C == children[p]
    <3>1. Whole(doc, C, parents[p], ChildTokens, ChildCharacters, ChildOverlap)
        BY <1>7, <2>1
    <3>2. Chunker!TooLong \notin Chunker!ToSet(C)
        BY <1>8
    <3> HIDE DEF C
    <3>3. C \in Seq(Ranges) /\ DOMAIN C = 1..Len(C)
        BY <3>1 DEF Whole
    <3>4. \A k \in 1..Len(C) : C[k] # Chunker!TooLong
        BY <3>2, <3>3 DEF Chunker!ToSet
    <3>5. /\ Chunker!Cover(C, parents[p].first, parents[p].last, ChildOverlap)
          /\ \A k \in 1..Len(C) : Chunker!Within(doc, C[k], ChildTokens, ChildCharacters)
        BY <3>1, <3>4 DEF Whole
    <3> QED BY <3>3, <3>5 DEF C, Chunker!ToSet
  <2> QED BY <1>7, <2>1, <2>2
<1>9. ASSUME NEW p \in 1..Len(parents), TooLongAt(p)
      PROVE  \E i \in 1..Len(doc) : Chunker!Characters(doc, i, i) > Chunker!Min({ParentCharacters, ChildCharacters})
  <2>1. CASE \E q \in 1..Len(parents) : parents[q] = Chunker!TooLong
    <3>1. \E i \in 1..Len(doc) : Chunker!Characters(doc, i, i) > ParentCharacters
        BY <1>3, <2>1 DEF Whole
    <3> QED BY <3>1, LongerThanBudget
  <2>2. CASE \A q \in 1..Len(parents) : parents[q] # Chunker!TooLong
    <3> DEFINE C == children[p]
    <3>1. Whole(doc, C, parents[p], ChildTokens, ChildCharacters, ChildOverlap)
        BY <1>7, <2>2
    <3>2. Chunker!TooLong \in Chunker!ToSet(C)
        BY <1>9
    <3> HIDE DEF C
    <3>3. \E k \in 1..Len(C) : C[k] = Chunker!TooLong
        BY <3>1, <3>2 DEF Whole, Chunker!ToSet
    <3>4. \E i \in 1..Len(doc) : Chunker!Characters(doc, i, i) > ChildCharacters
        BY <3>1, <3>3 DEF Whole
    <3> QED BY <3>4, LongerThanBudget
  <2> QED BY <2>1, <2>2
<1>10. ~SomeTooLong(parents, children) => Covered(doc, parents, children)
    BY <1>8 DEF SomeTooLong, Covered
<1>11. SomeTooLong(parents, children) => Oversize(doc)
    BY <1>9 DEF SomeTooLong, Oversize
<1> QED BY <1>10, <1>11

(* Either chunking has not begun, or its result covers the document. *)
ChunkInv ==
    \/ chunking.pc = "idle"
    \/ chunking.pc \in {"done", "failed"} /\ ChunksCover

(* No document has been chunked. *)
LEMMA ChunkInit == Chunker!Init => ChunkInv
BY DEF Chunker!Init, ChunkInv

(* Chunking ends in what ChunksCover says of it. *)
LEMMA ChunkStep == ChunkInv /\ [Chunker!Next]_(Chunker!chunkingVars) => ChunkInv'
<1> SUFFICES ASSUME ChunkInv, [Chunker!Next]_(Chunker!chunkingVars) PROVE ChunkInv'
    OBVIOUS
<1>1. CASE UNCHANGED Chunker!chunkingVars
    BY <1>1 DEF Chunker!chunkingVars, ChunkInv, ChunksCover, Chunker!ChunksCover
<1>2. CASE Chunker!Next
  <2>1. PICK text \in Chunker!Texts : Chunker!Chunk(Chunker!TokenSpans(text))
      BY <1>2 DEF Chunker!Next
  <2> DEFINE doc == Chunker!TokenSpans(text)
             parents == Chunker!Parents(doc)
             children == [p \in 1..Len(parents) |-> Chunker!Children(doc, parents[p])]
  <2>2. Measured(doc) /\ (doc # <<>> => Len(doc) > 0)
    <3>1. Measured(doc) /\ Len(doc) = Len(text) /\ Len(text) \in Nat
        BY SpansMeasured DEF Measured
    <3>2. ASSUME Len(text) = 0 PROVE doc = <<>>
        BY <3>2 DEF Chunker!TokenSpans
    <3> HIDE DEF doc
    <3> QED BY <3>1, <3>2
  <2>3. Chunked(doc, parents, children)
      BY DEF Chunked
  <2>4. chunking' = IF doc = <<>> \/ SomeTooLong(parents, children) THEN [pc |-> "failed", doc |-> doc]
                    ELSE [pc |-> "done", doc |-> doc, parents |-> parents, children |-> children]
      BY <2>1 DEF Chunker!Chunk, SomeTooLong
  <2> HIDE DEF doc, parents, children
  <2>5. CASE doc = <<>> \/ SomeTooLong(parents, children)
    <3>1. chunking' = [pc |-> "failed", doc |-> doc]
        BY <2>4, <2>5
    <3>2. doc = <<>> \/ Oversize(doc)
        BY <2>2, <2>3, <2>5, ChunkedCovers
    <3> QED BY <3>1, <3>2 DEF ChunkInv, ChunksCover, Chunker!ChunksCover, Oversize
  <2>6. CASE ~(doc = <<>> \/ SomeTooLong(parents, children))
    <3>1. chunking' = [pc |-> "done", doc |-> doc, parents |-> parents, children |-> children]
        BY <2>4, <2>6
    <3>2. Covered(doc, parents, children)
        BY <2>2, <2>3, <2>6, ChunkedCovers
    <3>3. /\ chunking'.pc = "done" /\ chunking'.doc = doc
          /\ chunking'.parents = parents /\ chunking'.children = children
        BY <3>1
    <3> QED BY <3>2, <3>3 DEF ChunkInv, ChunksCover, Chunker!ChunksCover, Covered
  <2> QED BY <2>5, <2>6
<1> QED BY <1>1, <1>2

(* The invariant holds what the run checks. *)
LEMMA ChunkInvCovers == ChunkInv => ChunksCover
BY DEF ChunkInv, ChunksCover, Chunker!ChunksCover

(* The chunker loses no token and keeps its budgets, whatever they are,    *)
(* for documents of every length.                                          *)
THEOREM ChunksCoverDocuments == Chunker!Spec => []ChunksCover
BY ChunkInvCovers, ChunkInit, ChunkStep, PTL DEF Chunker!Spec

-----------------------------------------------------------------------------
(* The composition. *)

ServiceVars == <<service, vars, cacheVars, limiterVars, reviewVars, uploadVars, sourceVars>>

(* The store is in one of its initial states, whichever service runs. *)
LEMMA StoreIsIdle == StoreInit => Init
<1>1. (CHOOSE c \in Contents : TRUE) \in Contents
    BY ContentsAssumption
<1>2. [w \in Writers |-> CHOOSE c \in Contents : TRUE] \in [Writers -> Contents]
    BY <1>1
<1> QED BY <1>2 DEF StoreInit, Init

(* A step of the composition is a step of the service that runs. *)
LEMMA ServicesStep ==
    ASSUME [ServicesNext]_ServiceVars
    PROVE  /\ [Next]_vars
           /\ [Cache!Next]_(Cache!cacheVars) /\ [Limiter!Next]_(Limiter!limiterVars)
           /\ [Review!Next]_(Review!reviewVars) /\ [Upload!Next]_(Upload!intakeVars)
           /\ [Extract!Next]_(Extract!extractionVars) /\ [Chunker!Next]_(Chunker!chunkingVars)
<1> USE DEF cacheVars, limiterVars, reviewVars, uploadVars, sourceVars,
            Cache!cacheVars, Limiter!limiterVars, Review!reviewVars, Upload!intakeVars,
            Extract!extractionVars, Chunker!chunkingVars
<1>1. CASE UNCHANGED ServiceVars
    BY <1>1 DEF ServiceVars
<1>2. CASE ServicesNext
    BY <1>2 DEF ServicesNext
<1> QED BY <1>1, <1>2

(* Whichever service runs keeps what it promises: the theorems of the      *)
(* services hold of the composition.                                       *)
THEOREM ServicesAreSound ==
    ServicesSpec => /\ [](/\ TypeOK /\ StoreInv /\ ObjectOutlivesRaces /\ NoLitter
                          /\ ModelsAccounted /\ QuotaPerClient /\ ReviewHistoryChains
                          /\ WalkMissesNothing /\ UploadHonest /\ ExtractionTraced /\ ChunksCover)
                    /\ NoModelLost
<1> DEFINE Sound == /\ TypeOK /\ StoreInv /\ Cache!CacheInv /\ Limiter!LimiterInv
                    /\ Review!ReviewInv /\ Upload!UploadInv /\ ExtractInv /\ ChunkInv
<1>1. ServicesInit => Sound
    BY StoreIsIdle, TypeInit, StoreStarts, CacheInit, LimiterInit, ReviewInit, UploadInit, ExtractInit, ChunkInit
       DEF ServicesInit
<1>2. Sound /\ [ServicesNext]_ServiceVars => Sound' /\ KeptStays /\ [Cache!Next]_(Cache!cacheVars)
    BY ServicesStep, TypeStep, StoreStep, CacheStep, LimiterStep, ReviewStep, UploadStep, ExtractStep, ChunkStep
<1>3. Sound => /\ ModelsAccounted /\ QuotaPerClient /\ ReviewHistoryChains
               /\ WalkMissesNothing /\ UploadHonest
    BY CacheAccounts DEF Limiter!LimiterInv, QuotaPerClient, Review!ReviewInv, Review!WalkInv,
       ReviewHistoryChains, WalkMissesNothing, Upload!UploadInv, UploadHonest
<1>4. Sound => ObjectOutlivesRaces /\ NoLitter
    BY DEF StoreInv, ObjectInv, LitterInv, ObjectOutlivesRaces, NoLitter
<1>5. Sound => ExtractionTraced /\ ChunksCover
    BY ExtractInvTraces, ChunkInvCovers
<1>6. ServicesSpec => ServicesInit /\ [][ServicesNext]_ServiceVars
    BY PTL DEF ServicesSpec, ServiceVars
<1>7. Cache!CacheInv /\ [Cache!Next]_(Cache!cacheVars)
        => [\A n \in 1..MaxLoads : Cache!Held(n) = 1 => (Cache!Held(n))' = 1 \/ released'[n] = 1]_(Cache!cacheVars)
    BY HeldIsAccounted
<1>8. ServicesSpec => []Sound /\ [][Cache!Next]_(Cache!cacheVars)
    BY <1>1, <1>2, <1>6, PTL
<1> QED BY <1>3, <1>4, <1>5, <1>7, <1>8, PTL DEF NoModelLost, Cache!NoModelLost

(* The composition implements the abstract artifact, where losers see the  *)
(* winner's row.                                                           *)
THEOREM ServicesImplement ==
    ASSUME ~RowSecurity
    PROVE  ServicesSpec => ChosenOnce
<1>1. ServicesInit => Init
    BY StoreIsIdle DEF ServicesInit
<1>2. [ServicesNext]_ServiceVars => [Next]_vars
    BY ServicesStep
<1>3. ServicesSpec => ServicesInit /\ [][ServicesNext]_ServiceVars
    BY PTL DEF ServicesSpec, ServiceVars
<1>4. Init => TypeOK /\ StoreInv /\ Abstract!Init
    BY TypeInit, StoreStarts, ChosenInit
<1>5. TypeOK /\ StoreInv /\ [Next]_vars => (TypeOK /\ StoreInv)' /\ [Abstract!Next]_<<row, mine, Answer>>
    BY TypeStep, StoreStep, ChosenStep
<1> QED BY <1>1, <1>2, <1>3, <1>4, <1>5, PTL DEF ChosenOnce, Abstract!Spec
=============================================================================
