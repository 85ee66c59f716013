-------------------------- MODULE WorkflowAnswers --------------------------
(***************************************************************************)
(* One call of a workflow's run function: the guards before the key is     *)
(* looked up, the anonymised message, the call of the language model with  *)
(* all the ways it can fail, and the answer.  Presidio's models, langdetect *)
(* and the language model are the environment.                             *)
(***************************************************************************)
EXTENDS WorkflowTexts

CONSTANTS
    Libraries,     \* the readable documents a question can be put to: [filename, text]
    Texts,         \* what a field of an input can hold
    Recognized,    \* Presidio's recognizers with each language model: [words, type, score]
    Durations,     \* lengths of a meeting
    RawMinutes,    \* what the model gives as the length of a block, 0 if unusable
    MaxBlocks      \* bound: the blocks of an agenda

ASSUME AnswersAssumption ==
    /\ Texts \subseteq Seq(Token)
    /\ Libraries \subseteq Seq([filename : Seq(Token), text : Seq(Token)])
    /\ Recognized \in [{"nl", "en"} ->
                         Seq([words : Seq(Token) \ {<<>>}, type : DefaultEntities, score : Int])]
    /\ Durations \subseteq Int /\ RawMinutes \subseteq Int /\ MaxBlocks \in Nat

VARIABLES
    workflow, input, documents,   \* the call
    at,                           \* "new" -> "sent" -> "done"
    kept,                         \* the detections in the message that are masked
    sent,                         \* what was sent to the language model
    mapping,                      \* placeholder -> value
    heard,                        \* the text of the reply, <<>> if there was none
    answer                        \* [status, result, minutes, agenda]

vars == <<workflow, input, documents, at, kept, sent, mapping, heard, answer>>

InputFields ==
    [customer_support |-> {"customer_name", "product", "priority", "issue"},
     sales_lead_qualification |-> {"company", "name", "pain_points", "source"},
     hr_recruitment |-> {"candidate_name", "role", "skills", "resume", "notes"},
     compliance_monitoring |-> {"organization_name", "framework", "policy_text", "current_findings"},
     business_intelligence |-> {"question", "company_size", "time_period", "context_data"},
     invoice_processing |-> {"invoice_text"},
     marketing_automation |-> {"campaign", "audience", "product"},
     meeting_agenda_assistant |-> {"title", "meeting_type", "participants", "goals", "context"},
     document_knowledge |-> {"question"},
     quote_contract_generator |-> {"customer", "address", "project_description", "item"}]

Workflow == DOMAIN InputFields

\* Bound: at most two fields of an input are given.
Inputs(w) ==
    {[f \in InputFields[w] |-> IF f = g THEN s ELSE IF f = h THEN t ELSE <<>>] :
        g \in InputFields[w], h \in InputFields[w], s \in Texts, t \in Texts}

\* A placeholder that was never sent.
Invented == <<<<"LOCATIE", 7>>>>

NoAnswer == [status |-> "none", result |-> <<>>, minutes |-> 0, agenda |-> <<>>]
Answer(status, result) == [status |-> status, result |-> result, minutes |-> 0, agenda |-> <<>>]

-----------------------------------------------------------------------------
(* What is sent, and what is detected in it. *)

Message ==
    CASE workflow = "customer_support" -> CustomerSupportMessage(input)
      [] workflow = "sales_lead_qualification" -> SalesLeadMessage(input)
      [] workflow = "hr_recruitment" -> HrRecruitmentMessage(input)
      [] workflow = "compliance_monitoring" -> ComplianceMessage(input)
      [] workflow = "business_intelligence" -> BusinessIntelligenceMessage(input)
      [] workflow = "invoice_processing" -> InvoiceMessage(input)
      [] workflow = "marketing_automation" -> MarketingMessage(input)
      [] workflow = "meeting_agenda_assistant" -> MeetingMessage(input)
      [] workflow = "document_knowledge" -> DocumentMessage(input, documents)
      [] workflow = "quote_contract_generator" -> QuoteMessage(input)

\* What one recognizer detects, from left to right.
DetectedBy(p, text) ==
    LET At(i) == [type |-> p.type, from |-> i, to |-> i + Len(p.words), score |-> p.score] IN
    Only([i \in DOMAIN text |-> At(i)],
         LAMBDA d : d.to <= Len(text) + 1 /\ Value(text, d) = p.words)

\* The recognizers run one after the other.
Found(text) ==
    [l \in {"nl", "en"} |->
        FlattenSeq([k \in DOMAIN Recognized[l] |-> DetectedBy(Recognized[l][k], text)])]

-----------------------------------------------------------------------------
(* The answers to what the model says, or to no usable reply, whatever went wrong. *)

NoReply == [failed |-> TRUE, says |-> <<>>, odd |-> FALSE]
Reply(says, odd) == [failed |-> FALSE, says |-> says, odd |-> odd]

CustomerSupport(reply) ==
    IF reply.failed THEN Answer("degraded", CustomerSupportFallback(input))
    ELSE Answer("ok", CustomerSupportRestored(CustomerSupportParsed(input, reply), mapping))

SalesLead(reply) ==
    IF reply.failed THEN Answer("degraded", SalesLeadFallback(input))
    ELSE Answer("ok", SalesLeadRestored(SalesLeadParsed(input, reply), mapping))

\* Without a name and a role a degraded answer has no candidate, only the summary.
HrRecruitment(reply) ==
    IF ~reply.failed
    THEN Answer("ok", HrRecruitmentRestored(HrRecruitmentParsed(input, reply), mapping))
    ELSE IF input.candidate_name = <<>> /\ input.role = <<>>
    THEN Answer("degraded", [summary |-> Excuse])
    ELSE Answer("degraded", HrRecruitmentFallback(input))

Compliance(reply) ==
    IF reply.failed THEN Answer("degraded", ComplianceFallback(input))
    ELSE Answer("ok", ComplianceRestored(ComplianceParsed(input, reply), mapping))

BusinessIntelligence(reply) ==
    IF reply.failed THEN Answer("degraded", BusinessIntelligenceFallback(input))
    ELSE Answer("ok", BusinessIntelligenceRestored(BusinessIntelligenceParsed(input, reply), mapping))

\* A field that is not a text makes the restoring fail.
Invoice(reply) ==
    IF reply.failed \/ reply.odd THEN Answer("degraded", InvoiceFallback(input))
    ELSE Answer("ok", InvoiceRestored(InvoiceParsed(input, reply), mapping))

Marketing(reply) ==
    IF reply.failed THEN Answer("degraded", MarketingFallback(input))
    ELSE Answer("ok", MarketingRestored(MarketingParsed(input, reply), mapping))

Meeting(reply, raw, total) ==
    IF reply.failed
    THEN [Answer("degraded", MeetingFallback(input))
             EXCEPT !.minutes = total, !.agenda = FallbackAgenda(total)]
    ELSE [Answer("ok", MeetingRestored(MeetingParsed(input, reply), mapping))
             EXCEPT !.minutes = total, !.agenda = IF reply.odd THEN <<>> ELSE Agenda(raw, total)]

DocumentKnowledge(reply) ==
    IF reply.failed THEN Answer("degraded", DocumentFallback(documents))
    ELSE Answer("ok", DocumentRestored(DocumentParsed(documents, reply), mapping))

Quote(reply) ==
    IF reply.failed THEN Answer("degraded", QuoteFallback(input))
    ELSE Answer("ok", QuoteRestored(QuoteParsed(input, reply), mapping))

\* The answers to a reply; the model gives the blocks of an agenda any lengths.
Answers(reply) ==
    CASE workflow = "customer_support" -> {CustomerSupport(reply)}
      [] workflow = "sales_lead_qualification" -> {SalesLead(reply)}
      [] workflow = "hr_recruitment" -> {HrRecruitment(reply)}
      [] workflow = "compliance_monitoring" -> {Compliance(reply)}
      [] workflow = "business_intelligence" -> {BusinessIntelligence(reply)}
      [] workflow = "invoice_processing" -> {Invoice(reply)}
      [] workflow = "marketing_automation" -> {Marketing(reply)}
      [] workflow = "meeting_agenda_assistant" ->
            {Meeting(reply, raw, total) :
                raw \in UNION {[1..n -> RawMinutes] : n \in 0..MaxBlocks}, total \in Durations}
      [] workflow = "document_knowledge" -> {DocumentKnowledge(reply)}
      [] workflow = "quote_contract_generator" -> {Quote(reply)}

-----------------------------------------------------------------------------
(* The steps of a call. *)

Init ==
    /\ workflow \in Workflow /\ input \in Inputs(workflow)
    /\ documents \in IF workflow = "document_knowledge" THEN Libraries ELSE {<<>>}
    /\ at = "new" /\ kept = <<>> /\ sent = <<>> /\ mapping = <<>> /\ heard = <<>>
    /\ answer = NoAnswer

\* A question to no readable documents, or no question, is answered on the spot.
HasAnswerReady ==
    workflow = "document_knowledge" /\ (input.question = <<>> \/ documents = <<>>)

AnswerOnTheSpot ==
    /\ at = "new" /\ HasAnswerReady
    /\ at' = "done"
    /\ answer' = Answer("ok",
          [summary |-> Own, confidence |-> Own, document_snippets |-> Snippets(documents),
           top_sources |-> FlattenSeq([i \in DOMAIN documents |-> documents[i].filename])])
    /\ UNCHANGED <<workflow, input, documents, kept, sent, mapping, heard>>

\* Two workflows convert numbers before anything else; a bad one is an exception for the caller.
RaiseOnNumber ==
    /\ at = "new" /\ workflow \in {"meeting_agenda_assistant", "quote_contract_generator"}
    /\ at' = "done"
    /\ UNCHANGED <<workflow, input, documents, kept, sent, mapping, heard, answer>>

\* No key, an unsupported language of a quote, or no anonymiser: nothing is sent.
Block ==
    /\ at = "new" /\ ~HasAnswerReady
    /\ at' = "done"
    /\ answer' \in Answers(NoReply)
    /\ UNCHANGED <<workflow, input, documents, kept, sent, mapping, heard>>

Send(confident) ==
    LET text == Message
        resolved == Resolved(Analyzed(Found(text), workflow, confident))
    IN
    /\ at = "new" /\ ~HasAnswerReady
    /\ at' = "sent"
    /\ kept' = resolved
    /\ sent' = Masked(text, resolved)
    /\ mapping' = Mapping(text, resolved)
    /\ UNCHANGED <<workflow, input, documents, heard, answer>>

\* Rate limit, no connection, an error status, no JSON, or a reply the parser trips over.
Fail ==
    /\ at = "sent"
    /\ at' = "done"
    /\ answer' \in Answers(NoReply)
    /\ UNCHANGED <<workflow, input, documents, kept, sent, mapping, heard>>

\* The model repeats the message, makes up a placeholder, or says nothing.
Receive(says, odd) ==
    /\ at = "sent"
    /\ at' = "done"
    /\ heard' = says
    /\ answer' \in Answers(Reply(says, odd))
    /\ UNCHANGED <<workflow, input, documents, kept, sent, mapping>>

Next ==
    \/ AnswerOnTheSpot
    \/ RaiseOnNumber
    \/ Block
    \/ \E confident \in {"nl", "en", "unsure"} : Send(confident)
    \/ Fail
    \/ \E says \in {sent, Invented, <<>>}, odd \in BOOLEAN : Receive(says, odd)

Spec == Init /\ [][Next]_vars

-----------------------------------------------------------------------------
(* Properties. *)

TagsIn(text) == {text[i] : i \in {j \in DOMAIN text : IsTag(text[j])}}
Words(text) == Only(text, LAMBDA token : ~IsTag(token))

\* What the user wrote: the fields of the input, the documents and their names.
Written ==
    {input[f] : f \in DOMAIN input}
    \union UNION {{documents[i].filename, documents[i].text} : i \in DOMAIN documents}

Given == UNION {TagsIn(t) : t \in Written}

\* An answer's fields; a degraded one of document_knowledge gives no reasoning, and one of
\* hr_recruitment has no candidate to show when neither name nor role was given.
Expected ==
    LET reply == NoReply IN
    CASE workflow = "customer_support" -> DOMAIN CustomerSupportParsed(input, reply)
      [] workflow = "sales_lead_qualification" -> DOMAIN SalesLeadParsed(input, reply)
      [] workflow = "hr_recruitment" -> DOMAIN HrRecruitmentParsed(input, reply)
      [] workflow = "compliance_monitoring" -> DOMAIN ComplianceParsed(input, reply)
      [] workflow = "business_intelligence" -> DOMAIN BusinessIntelligenceParsed(input, reply)
      [] workflow = "invoice_processing" -> DOMAIN InvoiceParsed(input, reply)
      [] workflow = "marketing_automation" -> DOMAIN MarketingParsed(input, reply)
      [] workflow = "meeting_agenda_assistant" -> DOMAIN MeetingParsed(input, reply)
      [] workflow = "document_knowledge" -> DOMAIN DocumentParsed(documents, reply)
      [] workflow = "quote_contract_generator" -> DOMAIN QuoteParsed(input, reply)

\* Is the token at place i of the message masked, are all of a detection's tokens, and does
\* another detection of at least its score that is masked overlap it?
IsMasked(i) == \E k \in DOMAIN kept : kept[k].from <= i /\ i < kept[k].to
Whole(d) == \A i \in d.from..d.to - 1 : IsMasked(i)
Outdone(d) == \E k \in DOMAIN kept : kept[k] # d /\ Overlap(kept[k], d) /\ kept[k].score >= d.score

\* What the patterns detect with either language model, and the names and places at least one
\* of them detects, is masked as a whole, unless a masked detection of at least its score
\* overlaps it: then what that one does not cover is sent.  All words that are sent stood
\* outside what is masked (_analyze_resolved, _resolve_overlaps, anonymize_text_with_mapping).
OnlyTheOutdoneLeave ==
    at = "sent" =>
        LET text == Message
            Outside == [i \in DOMAIN text |-> IF IsMasked(i) THEN <<>> ELSE <<text[i]>>]
            Detections(l) == Range(Found(text)[l])
            IsName(d) == d.type \in NerTypes
            Wants(d) == d.type \in EntitySet(workflow)
            Holds(d) == Whole(d) \/ Outdone(d)
        IN
        /\ \A l \in {"nl", "en"} : \A d \in Detections(l) : Wants(d) /\ ~IsName(d) => Holds(d)
        /\ \E l \in {"nl", "en"} : \A d \in Detections(l) : Wants(d) /\ IsName(d) => Holds(d)
        /\ Words(sent) = Words(FlattenSeq(Outside))

\* Text of the model in which nothing is put back: of compliance_monitoring what is not a
\* string under one of a finding's four keys, of invoice_processing the currency.
\* document_knowledge shows its sources by their names in the library.
NotRestored ==
    CASE workflow = "compliance_monitoring" ->
            {"findings_other_keys", "findings_as_strings", "findings_as_lists"}
      [] workflow = "invoice_processing" -> {"currency"}
      [] OTHER -> {}

\* The two kinds of telephone number share a placeholder but not a count.
PhonesCollide ==
    \E i, j \in DOMAIN kept :
        /\ kept[i].type = "PHONE_NUMBER" /\ kept[j].type = "NL_PHONE"
        /\ Value(Message, kept[i]) # Value(Message, kept[j])

\* When the model repeats what it was sent, the answer shows what the user wrote, every
\* masked value in its own place; not if both kinds of telephone number occur, or if the user
\* wrote a placeholder or the filler of an unknown one (the _restore functions of the ten workflows).
WhatWasMaskedComesBack ==
    answer.status = "ok" /\ heard = sent /\ sent # <<>> /\ ~PhonesCollide /\ Given = {}
    /\ (\A t \in Written : ~Occurs(<<Omitted>>, t)) =>
        /\ \E f \in DOMAIN answer.result : answer.result[f] = Message
        /\ \A f \in DOMAIN answer.result \ NotRestored :
              TagsIn(answer.result[f]) = {} /\ ~Occurs(<<Omitted>>, answer.result[f])

\* Whatever the model replies, and also when it does not reply, an answer has its workflow's
\* fields, which what shows it does not ask for, and none shows a placeholder the user did not
\* write, apart from NotRestored (the _fallback functions, restore_placeholders and the fields
\* each workflow hands to it).
AnswersAreFitToShow ==
    /\ \A f \in DOMAIN answer.result \ NotRestored : TagsIn(answer.result[f]) \subseteq Given
    /\ answer.status # "none" =>
          \/ DOMAIN answer.result = Expected
          \/ workflow = "document_knowledge" /\ DOMAIN answer.result = Expected \ {"reasoning"}
          \/ workflow = "hr_recruitment" /\ DOMAIN answer.result = {"summary"}

\* The blocks of an agenda follow one another and end with the meeting, unless those before
\* the last already take all of it: then the last has a minute (_parse_llm_response and
\* _fallback_agenda of meeting_agenda_assistant).
AgendaFillsTheMeeting ==
    LET a == answer.agenda  n == Len(a)  End(i) == a[i].start_min + a[i].duration_min IN
    n > 0 =>
        /\ a[1].start_min = 0
        /\ \A i \in 2..n : a[i].start_min = End(i - 1)
        /\ \/ End(n) = answer.minutes
           \/ a[n].start_min >= answer.minutes /\ a[n].duration_min = 1

-----------------------------------------------------------------------------
\* Claimed by app/core/pii_anonymizer.py:95-98: every distinct value gets a placeholder of
\* its own, so that putting back tells them apart.
DistinctValuesComeBack ==
    answer.status = "ok" /\ heard = sent /\ sent # <<>> /\ TagsIn(Message) = {} =>
        \E f \in DOMAIN answer.result : answer.result[f] = Message
=============================================================================
