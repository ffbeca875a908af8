----------------------------- MODULE Extraction -----------------------------
(***************************************************************************)
(* The extractors and the OCR fallback: from a source file to normalized   *)
(* text and the spans that trace it.  A text is a sequence of lines, a     *)
(* line its number of visible characters and of characters of its ending.  *)
(***************************************************************************)
EXTENDS Naturals, FiniteSets, FiniteSetsExt, SequencesExt

CONSTANTS
    MaxLines,       \* bound: lines of a text
    MaxPages,       \* bound: pages of a PDF and paragraphs of a DOCX
    MaxOcrPages     \* OcrOptions.max_pages

VARIABLE parse      \* the extraction: its step, its source, texts and result

extractionVars == <<parse>>

-----------------------------------------------------------------------------
(* Line endings: none (only after a last, non-empty line), LF or CR, CRLF. *)
Line == [text : 0..1, ending : 1..2]
Rest == [text : {1}, ending : {0}]
Texts ==
    {<<>>} \cup (UNION {[1..n -> Line] : n \in 1..MaxLines})
           \cup (UNION {{Append(s, l) : s \in [1..n-1 -> Line], l \in Rest} : n \in 1..MaxLines})

Blank(lines)    == \A i \in 1..Len(lines) : lines[i].text = 0
EndsLine(lines) == lines # <<>> /\ Last(lines).ending > 0

(* The characters of each line, in the normalized text and in the source. *)
Normalized(lines) == [i \in 1..Len(lines) |-> lines[i].text + (IF lines[i].ending > 0 THEN 1 ELSE 0)]
Source(lines)     == [i \in 1..Len(lines) |-> lines[i].text + lines[i].ending]

(* The offset behind each line, given the characters of the lines. *)
Offsets(lengths) ==
    LET behind[i \in 0..Len(lengths)] == IF i = 0 THEN 0 ELSE behind[i - 1] + lengths[i]
    IN  behind

Total(lengths) == Offsets(lengths)[Len(lengths)]

(* _canonicalize_line_endings *)
Segments(lines) ==
    [i \in 1..Len(lines) |->
        [start |-> Offsets(Normalized(lines))[i - 1], end |-> Offsets(Normalized(lines))[i],
         from  |-> Offsets(Source(lines))[i - 1],     to  |-> Offsets(Source(lines))[i]]]

(* A newline is put behind a page, but not behind the last one and not     *)
(* where there is one.                                                     *)
Boundary(pages, i) == IF EndsLine(pages[i].lines) \/ i = Len(pages) THEN 0 ELSE 1

(* Mutant: the newline between two pages belongs to no span. *)
PageSpansUnjoined(page, offset, boundary) ==
    LET segments == Segments(page.lines) IN
    [k \in 1..Len(segments) |->
        [start |-> offset + segments[k].start,
         end   |-> offset + segments[k].end,
         from  |-> segments[k].from, to |-> segments[k].to, page |-> page.number, kind |-> page.kind]]

PageSpans(page, offset, boundary) ==
    LET segments == Segments(page.lines) IN
    [k \in 1..Len(segments) |->
        [start |-> offset + segments[k].start,
         end   |-> offset + segments[k].end + (IF k = Len(segments) THEN boundary ELSE 0),
         from  |-> segments[k].from, to |-> segments[k].to, page |-> page.number, kind |-> page.kind]]

Empty == [length |-> 0, spans |-> <<>>]

AddPage(document, page, boundary) ==
    [length |-> document.length + Total(Normalized(page.lines)) + boundary,
     spans  |-> document.spans \o PageSpans(page, document.length, boundary)]

(* The document after each page. *)
Assembled(pages) ==
    LET upTo[i \in 0..Len(pages)] == IF i = 0 THEN Empty ELSE AddPage(upTo[i - 1], pages[i], Boundary(pages, i))
    IN  upTo

PdfDocument(pages) == Assembled(pages)[Len(pages)]

(* Plain text and Markdown: a span for each line. *)
TextDocument(lines) == PdfDocument(<<[number |-> 1, lines |-> lines, kind |-> "text"]>>)

(* A paragraph of n characters: skipped if blank; a newline is put before  *)
(* each but the first; offsets of the source are those of the text itself. *)
AddParagraph(document, n) ==
    LET start == document.length
        end   == start + n + (IF document.spans = <<>> THEN 0 ELSE 1)
    IN  IF n = 0 THEN document
        ELSE [length |-> end,
              spans  |-> Append(document.spans, [start |-> start, end |-> end, from |-> start, to |-> end,
                                                 page |-> 1, kind |-> "text"])]

(* _build_document: the document after each paragraph. *)
Built(paragraphs) ==
    LET upTo[i \in 0..Len(paragraphs)] == IF i = 0 THEN Empty ELSE AddParagraph(upTo[i - 1], paragraphs[i])
    IN  upTo

DocxDocument(paragraphs) == Built(paragraphs)[Len(paragraphs)]

(* What NormalizedDocument and SourceSpan accept. *)
Tiles(document) ==
    LET spans == document.spans IN
    /\ \A i \in 1..Len(spans) :
         /\ spans[i].start = (IF i = 1 THEN 0 ELSE spans[i - 1].end)
         /\ spans[i].start < spans[i].end /\ spans[i].from < spans[i].to
    /\ spans # <<>> /\ Last(spans).end = document.length

-----------------------------------------------------------------------------
Init == parse = [pc |-> "idle"]

Fail(reason) == parse' = [pc |-> "failed", reason |-> reason]

(* InvalidProvenanceError, with the texts before and after OCR. *)
FailProvenance(texts, found, attempted) ==
    parse' = [pc |-> "failed", reason |-> "provenance", texts |-> texts, found |-> found, attempted |-> attempted]

Finish(source, texts, document, missing) ==
    IF Tiles(document)
    THEN parse' = [pc |-> "done", source |-> source, texts |-> texts, document |-> document, missing |-> missing,
                   text_page_count |-> Cardinality({i \in 1..Len(texts) : ~Blank(texts[i])})]
    ELSE FailProvenance(texts, texts, missing)

(* The file cannot be opened: encrypted, malformed or too large. *)
Malformed == Fail("malformed")

ExtractText(lines) ==
    IF Blank(lines) THEN Fail("no text") ELSE Finish("text", <<lines>>, TextDocument(lines), {})

ExtractDocx(paragraphs) ==
    IF \A i \in 1..Len(paragraphs) : paragraphs[i] = 0
    THEN Fail("no text")
    ELSE Finish("docx", <<>>, DocxDocument(paragraphs), {})

Missing(texts) == {i \in 1..Len(texts) : Blank(texts[i])}

(* The pages without digital text are handed to the fallback, if there is  *)
(* one; it refuses more than max_pages.                                    *)
ExtractPdf(texts, fallback) ==
    IF fallback /\ Cardinality(Missing(texts)) > MaxOcrPages
    THEN Fail("ocr")
    ELSE parse' = [pc |-> IF fallback /\ Missing(texts) # {} THEN "ocr" ELSE "assemble",
                   texts |-> texts, found |-> texts, todo |-> Missing(texts), missing |-> {}]

(* The next page is rendered and recognized; text may be empty. *)
RecognizePage(lines) ==
    LET i == Min(parse.todo) IN
    /\ parse.todo # {}
    /\ parse' = [parse EXCEPT !.todo = @ \ {i}, !.found = [@ EXCEPT ![i] = lines], !.missing = @ \cup {i}]

(* The renderer or the engine is missing, fails or times out. *)
OcrFails == parse.todo # {} /\ Fail("ocr")

(* OcrMetadata refuses an empty tuple of recovered pages. *)
OcrDone ==
    /\ parse.todo = {}
    /\ IF parse.missing \subseteq Missing(parse.found)
       THEN FailProvenance(parse.texts, parse.found, parse.missing)
       ELSE parse' = [parse EXCEPT !.pc = "assemble"]

(* Pages without text are left out, the others keep their order. *)
KeptTo(texts, missing) ==
    LET Page(i) == [number |-> i, lines |-> texts[i], kind |-> IF i \in missing THEN "ocr" ELSE "digital"]
        kept[i \in 0..Len(texts)] ==
          IF i = 0 THEN <<>> ELSE IF Blank(texts[i]) THEN kept[i - 1] ELSE Append(kept[i - 1], Page(i))
    IN  kept

Kept(texts, missing) == KeptTo(texts, missing)[Len(texts)]

Assemble ==
    /\ parse.pc = "assemble"
    /\ LET pages == Kept(parse.found, parse.missing)
       IN  IF pages = <<>> THEN Fail("no text")
           ELSE Finish("pdf", parse.found, PdfDocument(pages), parse.missing)

PageTexts  == UNION {[1..n -> Texts] : n \in 0..MaxPages}
Paragraphs == UNION {[1..n -> 0..2] : n \in 0..MaxPages}

Start ==
    /\ parse.pc = "idle"
    /\ \/ Malformed
       \/ \E lines \in Texts : ExtractText(lines)
       \/ \E paragraphs \in Paragraphs : ExtractDocx(paragraphs)
       \/ \E texts \in PageTexts, fallback \in BOOLEAN : ExtractPdf(texts, fallback)

Ocr ==
    /\ parse.pc = "ocr"
    /\ (\E lines \in Texts : RecognizePage(lines)) \/ OcrFails \/ OcrDone

Next == Start \/ Ocr \/ Assemble

Spec == Init /\ [][Next]_extractionVars

-----------------------------------------------------------------------------
(* Every extracted document traces to its source: its spans of a page      *)
(* follow the page's source from its first to its last character and come  *)
(* before those of later pages, a page has spans exactly when it has text, *)
(* they say whether it was read by OCR, and no extraction trips over the   *)
(* document's own checks, but for an OCR that recovers no page.            *)
ExtractionTraced ==
    /\ parse.pc = "done" /\ parse.source # "docx" =>
         LET spans    == parse.document.spans
             First(j) == j = 1 \/ spans[j - 1].page # spans[j].page
             Final(j) == j = Len(spans) \/ spans[j + 1].page # spans[j].page
             Shown    == {spans[j].page : j \in 1..Len(spans)}
         IN  /\ \A j \in 1..Len(spans) - 1 : spans[j].page <= spans[j + 1].page
             /\ \A j \in 1..Len(spans) :
                  /\ spans[j].from = IF First(j) THEN 0 ELSE spans[j - 1].to
                  /\ Final(j) => spans[j].to = Total(Source(parse.texts[spans[j].page]))
                  /\ spans[j].kind = "ocr" <=> spans[j].page \in parse.missing
             /\ Shown = {i \in 1..Len(parse.texts) : ~Blank(parse.texts[i])}
             /\ parse.text_page_count = Cardinality(Shown)
    /\ parse.pc = "failed" /\ parse.reason = "provenance" =>
         parse.attempted # {} /\ parse.attempted \subseteq Missing(parse.found)

(* "An empty string is a valid no-text observation" of an OCR engine: it   *)
(* costs the document none of the text its other pages have.               *)
BlankPageIsNoFailure ==
    parse.pc = "failed" /\ parse.reason = "provenance" =>
        Missing(parse.texts) = 1..Len(parse.texts)
=============================================================================
