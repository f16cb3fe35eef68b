---------------------------- MODULE MCTranslation ----------------------------
(* Instances of Translation for TLC. *)
EXTENDS Translation

Word(id) == [id |-> id, ends |-> FALSE, continues |-> TRUE, broken |-> FALSE, worth |-> TRUE, lang |-> "en",
             mark |-> "none"]
Run(first, n) == [k \in 1 .. n |-> Word(first + k - 1)]

\* A text that is cut off, a sentence with a danda and one with a full stop at its end, one
\* of figures only, and a paragraph of its own; a text in a quotation that is not closed, and
\* a figure of speech.
Cut(first, n) == [Run(first, n) EXCEPT ![1].continues = FALSE]
Danda(first, n) == [Cut(first, n) EXCEPT ![n].ends = TRUE]
Sentence(first, n) == [Danda(first, n) EXCEPT ![n].mark = "stop"]
Figures(first, n) == [Sentence(first, n) EXCEPT ![1].worth = FALSE]
Apart(t) == [t EXCEPT ![1].broken = TRUE]
Open(t) == [t EXCEPT ![1].mark = "quote"]
Speech(first, n) == [Cut(first, n) EXCEPT ![1].mark = "hook"]
BrokenOff(first, n) == [Speech(first, n) EXCEPT ![n].mark = "cut"]

Para(t) == [type |-> "paragraph", role |-> "body", level |-> 1, numbers |-> <<>>, tag |-> "none", action |-> "none",
            label |-> FALSE, subtitle |-> FALSE, text |-> t, cells |-> <<>>]
Head1(role, t) == [Para(t) EXCEPT !.type = "heading", !.role = role]
Head2(role, t) == [Head1(role, t) EXCEPT !.level = 2]
As(role, t) == [Para(t) EXCEPT !.role = role]
Row(numbers, t) == [As("row", t) EXCEPT !.numbers = numbers]

\* One block, with words numbered from id; "copy" is cut off from the block after it,
\* "echo" and "again" repeat the one before it.
Block(kind, id) ==
  CASE kind = "text"   -> Para(Sentence(id, 3) \o Figures(id + 3, 1) \o Sentence(id + 4, 2))
    [] kind = "shard"  -> Para(Cut(id, 2))
    [] kind = "rest"   -> Para(Run(id, 2) \o Sentence(id + 2, 1))
    [] kind = "long"   -> Para(Sentence(id, 6) \o Sentence(id + 6, 2) \o Apart(Sentence(id + 8, 2)))
    [] kind = "copy"   -> Para(Cut(id + 10, 2))
    [] kind = "echo"   -> Para(Cut(id - 10, 2))
    [] kind = "again"  -> Para(Sentence(id - 10, 2))
    [] kind = "one"    -> Para(Sentence(id, 2))
    [] kind = "danda"  -> Para(Danda(id, 2))
    [] kind = "more"   -> Para(Danda(id - 10, 2) \o Sentence(id, 2))
    [] kind = "open"   -> Para(Open(Sentence(id, 2)))
    [] kind = "closed" -> Para(Sentence(id + 5, 1) \o Sentence(id - 10, 2))
    [] kind = "twice"  -> Para(Sentence(id, 1) \o Apart(BrokenOff(id + 1, 2)) \o Apart(Speech(id + 4, 3)))
    [] kind = "twin"   -> Para(Sentence(id, 1) \o Apart(Speech(id + 1, 2)) \o Speech(id + 1, 3) \o Apart(Sentence(id + 4, 1)))
    [] kind = "quoted" -> Para(Speech(id + 1, 1) \o Open(Sentence(id + 2, 2)) \o Speech(id + 1, 2) \o Sentence(id + 5, 2))
    [] kind = "label"  -> [Para(Cut(id, 1)) EXCEPT !.label = TRUE]
    [] kind = "kept"   -> As("flat", Sentence(id, 2))
    [] kind = "table"  -> [Para(<<>>) EXCEPT !.type = "table",
                             !.cells = << <<Sentence(id, 2), <<>>>>, <<Run(id + 2, 1), Run(id + 3, 5)>> >>]

\* Blocks a classifier looks at: headings, lines by their role, and rows of the parts 1 and 2.
BookBlock(kind, id) ==
  LET t == Cut(id, 2) IN
  CASE kind = "cover"    -> Head1("body", t)
    [] kind = "chapter"  -> Head1("chapter", t)
    [] kind = "topic"    -> Head2("body", t)
    [] kind = "notes"    -> Head2("section", t)
    [] kind = "appendix" -> Head1("section", t)
    [] kind = "contents" -> Head1("contents", t)
    [] kind = "chapter 1 .. 9" -> Head2("entry", t)
    [] kind = "9"        -> Head1("digit", Cut(id, 1))
    [] kind = "conclusion" -> Head2("conclusion", t)
    [] kind \in {"part 1", "part 2"} -> [Head1("part", t) EXCEPT !.numbers = IF kind = "part 1" THEN <<1>> ELSE <<2>>]
    [] kind = "wordy part" -> [Head1("part", Cut(id, 4)) EXCEPT !.numbers = <<1>>]
    [] kind = "1.1"      -> Row(<<1>>, t)
    [] kind = "1.2 1.3"  -> Row(<<1, 1>>, t)
    [] kind = "2.1"      -> Row(<<2>>, t)
    [] kind = "1.1 wordy" -> Row(<<1>>, Cut(id, 4))
    [] kind = "prose"    -> Head2("prose", t)
    [] kind = "chapter 3. the press" -> Head2("imprint entry", t)
    [] kind = "author"   -> Para(Cut(id, 1))
    [] kind = "one"      -> Para(Sentence(id, 2))
    [] kind = "table"    -> Block("table", id)
    [] OTHER             -> As(kind, t)

Document(kinds) == [k \in DOMAIN kinds |-> Block(kinds[k], 10 * k)]

Kinds == {"text", "shard", "rest", "long", "copy", "one", "label", "kept", "table"}
Pairs == {<<a, b>> : a \in Kinds, b \in Kinds}
Triples == {<<a, "shard", b>> : a, b \in {"shard", "rest", "copy", "label", "text"}}
           \cup {<<a, "copy", b>> : a \in {"label", "kept"}, b \in {"text", "table"}}
           \cup {<<a, b, c>> : a \in {"text", "long"}, b, c \in {"echo", "again", "label"}}

\* What comes out twice, in two blocks or in one.
Doubles == {<<"danda", "more">>, <<"open", "closed">>, <<"twice">>, <<"twin">>, <<"quoted", "echo">>, <<"one", "twin", "again">>}

Quiet == [document |-> <<>>, docx |-> FALSE, percent |-> 100, target |-> "hi", cached |-> <<>>, concurrency |-> 1, inflight |-> 1,
          replies |-> {"zero"}, errors |-> {}, pulses |-> {}, ticks |-> 0, faults |-> 0, parsed |-> TRUE,
          before |-> Entry(10, "none", Unsaid), broken |-> "none"]

Written(documents, percents) ==
  {[Quiet EXCEPT !.document = Document(kinds), !.percent = percent] : kinds \in documents, percent \in percents}

\* What is left out of a book, at its front, behind it, and in between.
Sections == {<<"one", a, b, c>> : a \in {"appendix", "notes"}, b \in {"one", "notes", "topic", "cover", "runner", "contents"},
                                  c \in {"table", "topic", "chapter", "section"}}
Fronts == {<<a, b, c, d>> : a \in {"cover", "chapter", "author", "imprint"}, b \in {"author", "one"}, c \in {"author", "contents"},
                            d \in {"author", "boilerplate"}}
Covers == {<<"cover", a, b>> \o c : a \in {"topic", "chapter", "prose", "author", "notes"}, b \in {"one", "topic", "table", "row"}, c \in {<<>>, <<"contents">>}}
Listings == {<<a, b, c>> : a \in {"contents", "entry", "chapter 1 .. 9"},
                           b \in {"entry", "chapter 1 .. 9", "one", "table", "flat", "imprint", "imprint entry", "imprint flat", "chapter 3. the press"},
                           c \in {"entry", "one", "table"}}
Inventories == {a \o b \o c : a \in {<<"9", "part 1">>, <<"part 1">>, <<"wordy part">>},
                         b \in {<<"1.1", "1.2 1.3">>, <<"1.1", "orphan", "1.2 1.3">>, <<"1.1", "1.1 wordy", "1.2 1.3">>,
                                <<"1.1", "1.1">>, <<"1.2 1.3", "2.1">>},
                         c \in {<<"one">>, <<"conclusion", "table">>, <<"table", "one">>, <<"part 2", "2.1">>, <<>>}}
Bound(kinds, docx) == [Quiet EXCEPT !.document = [k \in DOMAIN kinds |-> BookBlock(kinds[k], 10 * k)], !.docx = docx]
Books == {Bound(kinds, docx) : kinds \in Sections, docx \in BOOLEAN}
         \cup {Bound(kinds, FALSE) : kinds \in Fronts \cup Covers \cup Inventories} \cup {Bound(kinds, TRUE) : kinds \in Listings}

Documents == Books \cup Written(Doubles, {0, 100}) \cup Written(Pairs, {50, 100}) \cup Written(Triples, {0, 50, 100})

\* Three segments in two batches, and two segments of the same text.
Threefold == <<Para(Sentence(1, 4)), Para(Sentence(5, 4)), Para(Sentence(9, 3))>>
Twice == <<Para(Sentence(1, 4)), Para(Sentence(5, 4)), Para(Sentence(1, 4)), Para(Sentence(5, 4))>>

Short == <<Para(Sentence(1, 2)), Para(Sentence(5, 2)), Para(Sentence(9, 2))>>

\* The cache knows the second sentence of Threefold, in two languages.
Spoken(t, language) == [k \in DOMAIN t |-> [t[k] EXCEPT !.lang = language]]
Remembered == [key \in {[text |-> Sentence(5, 4), target |-> language] : language \in {"hi", "de"}} |-> Spoken(key.text, key.target)]

Busy2 == [Quiet EXCEPT !.document = Threefold, !.concurrency = 2, !.inflight = 2]

\* ... or the first one of Short.
Recalled == [key \in {[text |-> Sentence(1, 2), target |-> "hi"]} |-> Spoken(key.text, key.target)]

\* Every way OpenAI may answer, one batch after the other.
Answers == {[Quiet EXCEPT !.document = Threefold, !.replies = {shape}, !.cached = cached] :
              shape \in DOMAIN RepliesTo(<<Run(1, 1)>>), cached \in {<<>>, Remembered}}
           \cup {[Quiet EXCEPT !.document = Short, !.replies = {"zero", "nested"}, !.cached = Recalled]}

\* Two batches at once, with errors, a full house and a failing cache.
Races ==
  {[Busy2 EXCEPT !.replies = {"zero", "junk"}, !.errors = {"busy", "rejected"}],
   [Busy2 EXCEPT !.replies = {"zero", "short", "empty"}, !.inflight = 1, !.errors = {"refused"}],
   [Busy2 EXCEPT !.document = Twice, !.replies = {"one", "untold"}, !.concurrency = 4, !.inflight = 1, !.faults = 1],
   [Busy2 EXCEPT !.document = Twice, !.cached = Remembered, !.replies = {"values", "empty"}, !.errors = {"busy"}]}

\* The bar: timers, threads and a Redis that fails.
Bars ==
  {[Busy2 EXCEPT !.pulses = {24, 45, 60, 82}],
   [Busy2 EXCEPT !.document = Twice, !.pulses = {24, 60, 82}, !.faults = 1],
   [Quiet EXCEPT !.document = Threefold, !.parsed = FALSE, !.ticks = 3, !.faults = 1, !.pulses = {82}, !.broken = "write"],
   [Quiet EXCEPT !.document = Threefold, !.parsed = FALSE, !.ticks = 2, !.faults = 1, !.broken = "parse"],
   [Quiet EXCEPT !.document = Threefold, !.before = Entry(96, "docx_ready", 1), !.ticks = 1, !.pulses = {60}]}

\* A docx whose first paragraph was broken in two, with one more behind it.
Broken == {[scenario EXCEPT !.docx = TRUE] : scenario \in Written({<<"one", "one">>, <<"shard", "rest", "one">>}, {100})}

Everything == Documents \cup Answers \cup Races \cup Bars
=============================================================================
