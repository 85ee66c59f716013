--------------------------- MODULE PiiAnonymizer ---------------------------
(***************************************************************************)
(* What is taken out of a text before it goes to the language model, and   *)
(* put back into the model's reply (app/core/pii_anonymizer.py).           *)
(*                                                                         *)
(* A text is a sequence of tokens: <<w>> is a word, <<base, n>> a          *)
(* placeholder, "<BASE>" for n = 1 and "<BASE_n>" after that.  A detection *)
(* covers the tokens from `from` up to, not including, `to`; what Presidio *)
(* detects in a text with one language model is a sequence of detections,  *)
(* given from outside.                                                     *)
(***************************************************************************)
EXTENDS Integers, Sequences, SequencesExt, FiniteSets

Languages == <<"nl", "en">>

NerTypes == {"PERSON", "LOCATION"}

DefaultEntities ==
    {"PERSON", "EMAIL_ADDRESS", "PHONE_NUMBER", "NL_PHONE", "IBAN_CODE", "CREDIT_CARD",
     "IP_ADDRESS", "NL_BSN", "LOCATION"}

EntitySet(workflow) ==
    IF workflow = "invoice_processing" THEN DefaultEntities \ NerTypes ELSE DefaultEntities

Base == [PERSON |-> "PERSOON", EMAIL_ADDRESS |-> "E-MAILADRES", PHONE_NUMBER |-> "TELEFOONNUMMER",
         NL_PHONE |-> "TELEFOONNUMMER", IBAN_CODE |-> "REKENINGNUMMER",
         CREDIT_CARD |-> "CREDITCARDNUMMER", IP_ADDRESS |-> "IP-ADRES", NL_BSN |-> "BSN",
         LOCATION |-> "LOCATIE"]

\* Words, and placeholders with their numbers.
Token == [1..1 -> STRING] \union (STRING \X Nat)

IsTag(token) == Len(token) = 2

Omitted == <<"[omitted]">>

\* The members of a sequence that pass a test, in their order.
Only(s, Test(_)) == FlattenSeq([i \in DOMAIN s |-> IF Test(s[i]) THEN <<s[i]>> ELSE <<>>])

Total(numbers) == FoldLeft(+, 0, numbers)

\* The members of a set in a strict order: each at the place its predecessors leave it.
Sorted(S, Less(_, _)) ==
    [i \in 1..Cardinality(S) |-> CHOOSE x \in S : Cardinality({y \in S : Less(y, x)}) = i - 1]

-----------------------------------------------------------------------------
(* Two recognizers of its own; a number is a sequence of digits. *)

Padded(d) == IF Len(d) = 8 THEN <<0>> \o d ELSE d

\* Variant: the last digit counts positively.
ElevenTestWrong(d) ==
    Total([i \in 1..9 |-> Padded(d)[i] * (10 - i)])

\* The weights are 9..2, and -1 for the last digit.
ElevenTest(d) ==
    Total([i \in 1..9 |-> Padded(d)[i] * (IF i = 9 THEN -1 ELSE 10 - i)])

IsValidBsn(d) ==
    /\ Len(d) \in {8, 9}
    /\ ElevenTest(d) # 0 /\ ElevenTest(d) % 11 = 0

National(d) ==
    IF IsPrefix(<<0, 0, 3, 1>>, d) THEN <<0>> \o SubSeq(d, 5, Len(d))
    ELSE IF IsPrefix(<<3, 1>>, d) /\ Len(d) = 11 THEN <<0>> \o SubSeq(d, 3, Len(d))
    ELSE d

\* A mobile number: 06 and eight more digits that are not all the same.
IsValidPhone(d) ==
    LET n == National(d) IN
    /\ Len(n) = 10 /\ IsPrefix(<<0, 6>>, n)
    /\ Cardinality({n[i] : i \in 3..10}) > 1

-----------------------------------------------------------------------------
(* Detection. *)

\* Variant: the patterns, too, run with the confident language only.
WantedInOneLanguage(workflow, language, confident) ==
    IF confident \in {language, "unsure"} THEN EntitySet(workflow) ELSE {}

\* Patterns run with both models, names and places only with that of the text's language
\* when langdetect is sure of it.
Wanted(workflow, language, confident) ==
    IF confident \in {language, "unsure"} THEN EntitySet(workflow)
    ELSE EntitySet(workflow) \ NerTypes

\* Both analyses one after the other; `found` says what each model detects.
Analyzed(found, workflow, confident) ==
    FlattenSeq([i \in 1..2 |->
        LET l == Languages[i] IN
        Only(found[l], LAMBDA d : d.type \in Wanted(workflow, l, confident))])

Overlap(d, e) == d.from < e.to /\ e.from < d.to

\* Variant: the earlier detection goes first, whatever the scores.
EarlierFirst(results, i, j) ==
    \/ results[i].from < results[j].from
    \/ results[i].from = results[j].from /\ i < j

\* The higher score, then the earlier start; the sort is stable.
Better(results, i, j) ==
    LET d == results[i]  e == results[j] IN
    \/ d.score > e.score
    \/ d.score = e.score /\ d.from < e.from
    \/ d.score = e.score /\ d.from = e.from /\ i < j

\* _resolve_overlaps: greedily the best detections that do not overlap, in text order.
Ordered(results) == Sorted(DOMAIN results, LAMBDA i, j : Better(results, i, j))

Take(selected, d) == IF \E e \in selected : Overlap(e, d) THEN selected ELSE selected \union {d}

Selected(results) ==
    FoldLeft(LAMBDA selected, i : Take(selected, results[i]), {}, Ordered(results))

Resolved(results) == Sorted(Selected(results), LAMBDA d, e : d.from < e.from)

-----------------------------------------------------------------------------
(* Replacement, from the kept detections in text order. *)

Value(text, d) == SubSeq(text, d.from, d.to - 1)

SameKey(text, kept, i, j) ==
    kept[i].type = kept[j].type /\ Value(text, kept[i]) = Value(text, kept[j])

FirstOfItsKind(text, kept, i) == \A j \in 1..i - 1 : ~SameKey(text, kept, i, j)

\* Variant: every value of a type gets the same placeholder.
TagUnnumbered(text, kept, i) == <<Base[kept[i].type], 1>>

\* A new value of a type gets the next number of that type, a known one its own placeholder.
Tag(text, kept, i) ==
    LET first == CHOOSE j \in 1..i : SameKey(text, kept, i, j) /\ FirstOfItsKind(text, kept, j)
        before == {j \in 1..first : kept[j].type = kept[i].type /\ FirstOfItsKind(text, kept, j)}
    IN <<Base[kept[i].type], Cardinality(before)>>

EndBefore(kept, i) == IF i = 1 THEN 1 ELSE kept[i - 1].to

Masked(text, kept) ==
    FlattenSeq([i \in DOMAIN kept |->
        SubSeq(text, EndBefore(kept, i), kept[i].from - 1) \o <<Tag(text, kept, i)>>])
    \o SubSeq(text, EndBefore(kept, Len(kept) + 1), Len(text))

\* Of two first values with one placeholder the later one stays.
Mapping(text, kept) ==
    LET firsts == {i \in DOMAIN kept : FirstOfItsKind(text, kept, i)}
        Owner(tag) == CHOOSE i \in firsts :
            Tag(text, kept, i) = tag /\ \A j \in firsts : Tag(text, kept, j) = tag => j <= i
    IN [tag \in {Tag(text, kept, i) : i \in firsts} |-> Value(text, kept[Owner(tag)])]

\* Variant: an unknown placeholder stays in the text.
RestoredLeavingUnknown(text, mapping) ==
    FlattenSeq([i \in DOMAIN text |->
        IF text[i] \in DOMAIN mapping THEN mapping[text[i]] ELSE <<text[i]>>])

Restored(text, mapping) ==
    FlattenSeq([i \in DOMAIN text |->
        IF ~IsTag(text[i]) THEN <<text[i]>>
        ELSE IF text[i] \in DOMAIN mapping THEN mapping[text[i]] ELSE <<Omitted>>])
=============================================================================
