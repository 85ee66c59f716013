--------------------------- MODULE WorkflowTexts ---------------------------
(***************************************************************************)
(* What each workflow (app/workflows/implementations) tells the language   *)
(* model and what it makes of the reply.  Per workflow:                    *)
(*   ...Message   the message built from the input, before anonymising;    *)
(*   ...Parsed    the result fields taken from a reply, or computed;       *)
(*   ...Restored  the fields in which placeholders are put back;           *)
(*   ...Fallback  the result when there is no usable reply.                *)
(* An input maps field names to texts, <<>> for a field not given; of      *)
(* fields that are all treated alike, two or three stand for the rest.     *)
(* Nested result objects are flattened, and a list is its one element.  In *)
(* a reply every field says the same text; in an odd one the texts come as *)
(* lists and the lists as texts.                                           *)
(***************************************************************************)
EXTENDS PiiAnonymizer

CONSTANTS
    CutAt          \* the number of tokens after which a long field is cut

ASSUME CutAtAssumption == CutAt \in Nat

Own == <<<<"computed">>>>
Excuse == <<<<"unavailable">>>>

Or(text, other) == IF text = <<>> THEN other ELSE text
Cut(text) == SubSeq(text, 1, IF Len(text) < CutAt THEN Len(text) ELSE CutAt)
Part(label, text) == IF text = <<>> THEN <<>> ELSE <<<<label>>>> \o text
Parts(input, fields) == FlattenSeq([i \in DOMAIN fields |-> Part(fields[i], input[fields[i]])])

\* str(...) of whatever is there; a list that is not one counts as empty.
AsText(reply) == reply.says
AsList(reply) == IF reply.odd THEN <<>> ELSE reply.says

Occurs(words, text) ==
    \E i \in 1..Len(text) - Len(words) + 1 : SubSeq(text, i, i + Len(words) - 1) = words

PutBack(result, fields, mapping) ==
    [f \in DOMAIN result |-> IF f \in fields THEN Restored(result[f], mapping) ELSE result[f]]

-----------------------------------------------------------------------------
(* customer_support *)

CustomerSupportMessage(in) ==
    Parts(in, <<"customer_name", "product", "priority">>) \o <<<<"issue">>>> \o Or(in.issue, Own)

CustomerSupportParsed(in, reply) ==
    [issue |-> Or(in.issue, Own), priority |-> Own, urgency_reason |-> AsText(reply),
     suggested_action |-> AsText(reply), summary |-> AsText(reply)]

CustomerSupportRestored(triage, mapping) ==
    PutBack(triage, {"urgency_reason", "suggested_action", "summary"}, mapping)

CustomerSupportFallback(in) ==
    [issue |-> Or(in.issue, Own), priority |-> Own, urgency_reason |-> Excuse,
     suggested_action |-> Own, summary |-> Excuse]

-----------------------------------------------------------------------------
(* sales_lead_qualification *)

\* Every field twice, as a line and in the merged JSON, which leaves the source out.
SalesLeadMessage(in) ==
    LET fields == <<"company", "name", "pain_points">>
        lines == Parts(in, fields \o <<"source">>)
    IN Or(lines \o Parts(in, fields), Own)

\* Python's round, to the even neighbour from halfway.
Rounded(hundredths) ==
    LET whole == hundredths \div 100  rest == hundredths % 100 IN
    IF rest > 50 \/ (rest = 50 /\ whole % 2 = 1) THEN whole + 1 ELSE whole

\* The model's score in hundredths, <<>> if it is no number: 50 then, and anything above 0
\* and up to 1 counts as a fraction of 100.
LeadScore(raw) ==
    IF raw = <<>> THEN 50
    ELSE LET score == Rounded(IF 0 < raw[1] /\ raw[1] <= 100 THEN raw[1] * 100 ELSE raw[1]) IN
         IF score < 0 THEN 0 ELSE IF score > 100 THEN 100 ELSE score

Qualification(score) ==
    IF score >= 80 THEN "qualified" ELSE IF score >= 50 THEN "needs_nurturing" ELSE "unqualified"

SalesLeadParsed(in, reply) ==
    [score |-> Own, qualification |-> Own, summary |-> AsText(reply), strengths |-> AsList(reply),
     weaknesses |-> AsList(reply), next_actions |-> AsList(reply)]

\* Variant: the next actions are forgotten.
SalesLeadRestoredPartly(result, mapping) ==
    PutBack(result, {"summary", "strengths", "weaknesses"}, mapping)

SalesLeadRestored(result, mapping) ==
    PutBack(result, {"summary", "strengths", "weaknesses", "next_actions"}, mapping)

SalesLeadFallback(in) ==
    [score |-> <<>>, qualification |-> Own, summary |-> Excuse, strengths |-> <<>>,
     weaknesses |-> Own, next_actions |-> Own]

-----------------------------------------------------------------------------
(* hr_recruitment; the result is the one candidate. *)

HrRecruitmentMessage(in) ==
    LET lines == Parts(in, <<"candidate_name", "role", "skills">>)
        long == Part("resume", Cut(in.resume)) \o Part("notes", Cut(in.notes))
    IN Or(lines \o long, Own)

HrRecruitmentParsed(in, reply) ==
    [name |-> Or(in.candidate_name, Own), role |-> Or(in.role, Own), score |-> Own,
     recommendation |-> Own, strengths |-> AsList(reply), concerns |-> AsList(reply),
     interview_questions |-> AsList(reply), summary |-> AsText(reply)]

HrRecruitmentRestored(candidate, mapping) ==
    PutBack(candidate, {"strengths", "concerns", "interview_questions", "summary"}, mapping)

HrRecruitmentFallback(in) ==
    [name |-> Or(in.candidate_name, Own), role |-> Or(in.role, Own), score |-> <<>>,
     recommendation |-> Own, strengths |-> <<>>, concerns |-> Excuse,
     interview_questions |-> <<>>, summary |-> Excuse]

-----------------------------------------------------------------------------
(* compliance_monitoring; a finding is an object with four known keys, a string (or a list   *)
(* or an object, "as_lists") under each, and perhaps others, or it is a plain string.        *)

ComplianceMessage(in) ==
    Or(Parts(in, <<"organization_name", "framework">>)
       \o Part("policy_text", Cut(in.policy_text)) \o Part("current_findings", Cut(in.current_findings)),
       Own)

ComplianceParsed(in, reply) ==
    [compliance_score |-> Own, risk_level |-> Own, findings |-> AsList(reply),
     findings_other_keys |-> AsList(reply), findings_as_strings |-> AsList(reply),
     findings_as_lists |-> AsList(reply), recommendations |-> AsList(reply), framework_alignment |-> AsList(reply),
     summary |-> AsText(reply)]

ComplianceRestored(output, mapping) ==
    PutBack(output, {"summary", "recommendations", "framework_alignment", "findings"}, mapping)

ComplianceFallback(in) ==
    [compliance_score |-> <<>>, risk_level |-> Own, findings |-> <<>>,
     findings_other_keys |-> <<>>, findings_as_strings |-> <<>>, findings_as_lists |-> <<>>,
     recommendations |-> Own, framework_alignment |-> <<>>, summary |-> Excuse]

-----------------------------------------------------------------------------
(* business_intelligence *)

BusinessIntelligenceMessage(in) ==
    <<<<"question">>>> \o Or(in.question, Own) \o Parts(in, <<"company_size", "time_period">>)
    \o Part("context_data", Cut(in.context_data))

BusinessIntelligenceParsed(in, reply) ==
    [focus_area |-> Own, question_received |-> Or(in.question, Own), summary |-> AsText(reply),
     kpis |-> AsList(reply), recommendations |-> AsList(reply), priority_level |-> Own,
     action_items |-> AsList(reply), risks |-> AsList(reply)]

BusinessIntelligenceRestored(insights, mapping) ==
    PutBack(insights, {"summary", "kpis", "recommendations", "action_items", "risks"}, mapping)

BusinessIntelligenceFallback(in) ==
    [focus_area |-> Own, question_received |-> Or(in.question, Own), summary |-> Excuse,
     kpis |-> <<>>, recommendations |-> Own, priority_level |-> Own,
     action_items |-> <<>>, risks |-> <<>>]

-----------------------------------------------------------------------------
(* invoice_processing; the currency is text of the model, too. *)

InvoiceMessage(in) == <<<<"invoice">>>> \o Or(Cut(in.invoice_text), Own)

InvoiceParsed(in, reply) ==
    [invoice_number |-> AsText(reply), invoice_date |-> AsText(reply), vendor |-> AsText(reply),
     currency |-> Or(AsText(reply), Own), line_items |-> AsList(reply), amounts |-> Own,
     anomalies |-> AsList(reply), summary |-> AsText(reply)]

InvoiceRestored(result, mapping) ==
    PutBack(result, {"invoice_number", "invoice_date", "vendor", "line_items", "anomalies", "summary"},
            mapping)

InvoiceFallback(in) ==
    [invoice_number |-> <<>>, invoice_date |-> <<>>, vendor |-> <<>>, currency |-> Own,
     line_items |-> <<>>, amounts |-> <<>>, anomalies |-> Excuse, summary |-> Excuse]

-----------------------------------------------------------------------------
(* marketing_automation *)

MarketingMessage(in) == Or(Parts(in, <<"campaign", "audience", "product">>), Own)

MarketingParsed(in, reply) ==
    [campaign |-> Or(in.campaign, Own), audience |-> Or(in.audience, Own), actions |-> AsList(reply),
     summary |-> AsText(reply), headline |-> AsText(reply), value_proposition |-> AsText(reply),
     call_to_action |-> AsText(reply), channels |-> AsList(reply),
     launch_recommendation |-> AsText(reply), frequency |-> AsText(reply), duration |-> AsText(reply),
     direction |-> Own, rationale |-> AsText(reply), expected_metrics |-> AsList(reply)]

MarketingRestored(result, mapping) ==
    PutBack(result,
        {"actions", "summary", "channels", "headline", "value_proposition", "call_to_action",
         "launch_recommendation", "frequency", "duration", "rationale", "expected_metrics"}, mapping)

MarketingFallback(in) ==
    [campaign |-> Or(in.campaign, Own), audience |-> Or(in.audience, Own), actions |-> Own,
     summary |-> Excuse, headline |-> <<>>, value_proposition |-> <<>>, call_to_action |-> <<>>,
     channels |-> <<>>, launch_recommendation |-> <<>>, frequency |-> <<>>, duration |-> <<>>,
     direction |-> Own, rationale |-> Excuse, expected_metrics |-> <<>>]

-----------------------------------------------------------------------------
(* meeting_agenda_assistant *)

MeetingMessage(in) ==
    <<<<"title">>>> \o Or(in.title, Own) \o Part("meeting_type", in.meeting_type)
    \o <<<<"participants">>>> \o Or(in.participants, Own) \o <<<<"goals">>>> \o Or(in.goals, Own)
    \o Part("context", Cut(in.context))

MeetingParsed(in, reply) ==
    [title |-> Or(in.title, Own), participants |-> in.participants, topic |-> AsList(reply),
     desired_outcome |-> AsList(reply), facilitator_notes |-> AsList(reply),
     participant |-> AsList(reply), tips |-> AsList(reply), decision_points |-> AsList(reply),
     action_items_template |-> AsList(reply), meeting_summary |-> AsText(reply)]

MeetingRestored(result, mapping) ==
    PutBack(result,
        {"topic", "desired_outcome", "facilitator_notes", "participant", "tips", "decision_points",
         "action_items_template", "meeting_summary"}, mapping)

MeetingFallback(in) ==
    [title |-> Or(in.title, Own), participants |-> in.participants, topic |-> Own,
     desired_outcome |-> <<>>, facilitator_notes |-> <<>>, participant |-> <<>>, tips |-> <<>>,
     decision_points |-> <<>>, action_items_template |-> <<>>, meeting_summary |-> Excuse]

\* Variant: the last block is only ever made longer.
StretchedOnly(durations, total) ==
    LET n == Len(durations)  sum == Total(durations) IN
    IF n = 0 \/ sum >= total THEN durations
    ELSE [durations EXCEPT ![n] = durations[n] + total - sum]

\* The last block takes what is missing, and gives back what is too much down to a minute.
Stretched(durations, total) ==
    LET n == Len(durations)  sum == Total(durations)
        last == durations[n] + total - sum
    IN IF n = 0 THEN durations ELSE [durations EXCEPT ![n] = IF last < 1 THEN 1 ELSE last]

\* A block without a usable number of minutes takes 5, one of fewer than one takes 1.
Minutes(raw) == IF raw = 0 THEN 5 ELSE IF raw < 1 THEN 1 ELSE raw

\* A block starts where the blocks before it end.
Agenda(raw, total) ==
    LET asked == [i \in DOMAIN raw |-> Minutes(raw[i])]
        taken == Stretched(asked, total)
    IN [i \in DOMAIN raw |->
          [start_min |-> Total(SubSeq(asked, 1, i - 1)), duration_min |-> taken[i]]]

FallbackAgenda(total) ==
    LET wrap == IF total < 5 THEN total ELSE 5 IN
    <<[start_min |-> 0, duration_min |-> total - wrap],
      [start_min |-> total - wrap, duration_min |-> wrap]>>

-----------------------------------------------------------------------------
(* document_knowledge; a document is [filename, text], loaded by the workflow. *)

DocumentMessage(in, documents) ==
    <<<<"question">>>> \o in.question \o
    FlattenSeq([i \in DOMAIN documents |->
        <<<<"document">>>> \o documents[i].filename \o Cut(documents[i].text)])

\* Cited are the loaded documents whose names the reply holds, else all of them (at most three).
CitedSources(documents, reply) ==
    LET names == [i \in DOMAIN documents |-> documents[i].filename]
        cited == Only(names, LAMBDA name : ~reply.odd /\ Occurs(name, reply.says))
    IN FlattenSeq(IF cited = <<>> THEN SubSeq(names, 1, IF Len(names) < 3 THEN Len(names) ELSE 3)
                  ELSE cited)

Snippets(documents) == FlattenSeq([i \in DOMAIN documents |-> documents[i].text])

DocumentParsed(documents, reply) ==
    [summary |-> AsText(reply), top_sources |-> CitedSources(documents, reply), confidence |-> Own,
     document_snippets |-> Snippets(documents), reasoning |-> AsText(reply)]

DocumentRestored(answer, mapping) == PutBack(answer, {"summary", "reasoning"}, mapping)

DocumentFallback(documents) ==
    [summary |-> Excuse, confidence |-> Own, document_snippets |-> Snippets(documents),
     top_sources |-> FlattenSeq([i \in DOMAIN documents |-> documents[i].filename])]

-----------------------------------------------------------------------------
(* quote_contract_generator; its input has one line item. *)

QuoteMessage(in) ==
    Parts(in, <<"customer", "address">>) \o Part("project_description", Cut(in.project_description))
    \o <<<<"line_items">>>> \o Or(in.item, <<<<"item">>>>)

\* The item is rewritten if the reply names it as the input does.
EnhancedItem(item, reply) ==
    IF ~reply.odd /\ Occurs(item, reply.says) THEN Or(reply.says, item) ELSE item

QuoteParsed(in, reply) ==
    [customer |-> in.customer, totals |-> Own,
     items |-> EnhancedItem(Or(in.item, <<<<"item">>>>), reply),
     quote_text |-> AsText(reply), scope_description |-> AsText(reply), contract_terms |-> AsList(reply),
     payment_note |-> AsText(reply), validity_note |-> AsText(reply), special_conditions |-> AsList(reply)]

QuoteRestored(parsed, mapping) ==
    PutBack(parsed,
        {"quote_text", "scope_description", "payment_note", "validity_note", "contract_terms",
         "special_conditions", "items"}, mapping)

QuoteFallback(in) ==
    [customer |-> in.customer, totals |-> Own, items |-> Or(in.item, <<<<"item">>>>),
     quote_text |-> Excuse, scope_description |-> <<>>, contract_terms |-> Own,
     payment_note |-> <<>>, validity_note |-> <<>>, special_conditions |-> <<>>]
=============================================================================
