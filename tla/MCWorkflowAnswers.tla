------------------------- MODULE MCWorkflowAnswers -------------------------
(* Words for the inputs, and what Presidio's two models make of them: a name both see, one
   only the Dutch model sees, a street the English one takes more of, two Dutch mobile numbers
   and one the general recognizer finds, and a placeholder the user typed. *)
EXTENDS WorkflowAnswers

W(w) == <<w>>

MCTexts ==
    {<<W("jan"), W("smit")>>, <<W("jan"), W("06-1"), W("06-2"), W("jan")>>,
     <<W("piet"), W("smit"), W("street"), W("020-1")>>, <<<<"PERSOON", 1>>, W("jan")>>}

P(words, type, score) == [words |-> words, type |-> type, score |-> score]

MCRecognized ==
    [nl |-> <<P(<<W("jan")>>, "PERSON", 85), P(<<W("piet"), W("smit")>>, "PERSON", 80),
              P(<<W("06-1")>>, "NL_PHONE", 70), P(<<W("06-2")>>, "NL_PHONE", 70)>>,
     en |-> <<P(<<W("jan")>>, "PERSON", 85), P(<<W("smit"), W("street")>>, "LOCATION", 85),
              P(<<W("020-1")>>, "PHONE_NUMBER", 75), P(<<W("smit")>>, "LOCATION", 60)>>]

MCRawMinutes == {-1, 0, 2, 6}

MCLibraries ==
    {<<>>, <<[filename |-> <<W("report")>>, text |-> <<W("jan"), W("text")>>],
             [filename |-> <<W("smit")>>, text |-> <<W("06-1")>>]>>}

\* The eleven test notices one wrong digit: of every number with at most two digits other
\* than zero (_is_valid_nl_bsn).
Numbers == {[k \in 1..9 |-> IF k = i THEN a ELSE IF k = j THEN b ELSE 0] :
              i \in 1..9, j \in 1..9, a \in 0..9, b \in 0..9}

ASSUME OneWrongDigitIsNoticed ==
    \A d \in {e \in Numbers : IsValidBsn(e)} : \A k \in 1..9, c \in 0..9 :
        c # d[k] => ~IsValidBsn([d EXCEPT ![k] = c])

\* The three ways of writing a mobile number are one number (_is_valid_nl_phone).
ASSUME OneNumberThreeForms ==
    \A a \in 0..9, b \in 0..9 :
        LET rest == <<a, b, 3, 4, 5, 6, 7, 8>> IN
        /\ IsValidPhone(<<0, 6>> \o rest)
        /\ IsValidPhone(<<3, 1, 6>> \o rest) /\ IsValidPhone(<<0, 0, 3, 1, 6>> \o rest)
        /\ ~IsValidPhone(<<0, 6, a, a, a, a, a, a, a, a>>)
\* Scores above 1 keep their order and are labelled by it; the model's own 1 of 100 is not
\* among them: it is taken for a fraction, 100 of 100 (_parse_score, _qualify).
ASSUME ScoresAboveOneKeepTheirOrder ==
    /\ \A h \in 101..10400 : LeadScore(<<h>>) <= LeadScore(<<h + 1>>)
    /\ LeadScore(<<100>>) = 100 /\ LeadScore(<<101>>) = 1 /\ LeadScore(<<>>) = 50
    /\ Qualification(LeadScore(<<7949>>)) = "needs_nurturing"
    /\ Qualification(LeadScore(<<7951>>)) = "qualified"
=============================================================================
