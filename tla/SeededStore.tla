---------------------------- MODULE SeededStore ----------------------------
(***************************************************************************)
(* What the offline family answers from: the governed corpus, the          *)
(* obligation register and the assembled evidence packs, with the topic    *)
(* playbook and the transfer matrix the service reads them against.        *)
(* Titles, locators and snippets are left out; everything the              *)
(* admissibility ladder reads of a document is kept.                       *)
(***************************************************************************)
EXTENDS Integers, Sequences

\* date: the number of a day, from the civil year, month and day of month
\* (years run from March, so that February ends one).
Day(year, month, day) ==
  LET y == IF month > 2 THEN year ELSE year - 1
      m == IF month > 2 THEN month - 3 ELSE month + 9
  IN 365 * y + (y \div 4) - (y \div 100) + (y \div 400)
       + ((153 * m + 2) \div 5) + day

RequestTopic ==
  {"governance", "aml", "conduct", "credit", "resilience", "privacy", "model",
   "outsourcing", "capital", "technology"}

\* ArtefactClass, in its declaration order.
ArtefactOrder ==
  <<"policy", "procedure", "committee_minutes", "org_and_roles",
    "control_test_result", "risk_assessment", "issue_log",
    "third_party_contract", "system_extract", "transaction_sample",
    "customer_file", "management_information", "narrative_statement">>
ArtefactClass == {ArtefactOrder[i] : i \in DOMAIN ArtefactOrder}

Labels == {"risk", "analyst", "approver"}

Document(id, artefact, topic, asOf) ==
  [id |-> id, artefact |-> artefact, topic |-> topic, asOf |-> asOf,
   acl |-> {"risk"}, tags |-> {}, from |-> "SG"]

Aml ==
  <<Document("kb-aml-pol-01", "policy", "aml", Day(2026, 6, 30)),
    Document("kb-aml-proc-01", "procedure", "aml", Day(2026, 9, 30)),
    Document("kb-aml-ctl-01", "control_test_result", "aml", Day(2026, 11, 30)),
    Document("kb-aml-txn-01", "transaction_sample", "aml", Day(2027, 1, 31)),
    Document("kb-aml-mi-01", "management_information", "aml", Day(2026, 12, 31)),
    Document("kb-aml-mi-02", "management_information", "aml", Day(2027, 2, 28))>>

Technology ==
  <<Document("kb-tec-pol-01", "policy", "technology", Day(2026, 7, 31)),
    Document("kb-tec-proc-01", "procedure", "technology", Day(2026, 8, 31)),
    Document("kb-tec-ctl-01", "control_test_result", "technology", Day(2024, 1, 31)),
    Document("kb-tec-mi-01", "management_information", "technology", Day(2027, 1, 31))>>

Privacy ==
  <<Document("kb-dpr-pol-01", "policy", "privacy", Day(2026, 5, 31)),
    Document("kb-dpr-proc-01", "procedure", "privacy", Day(2026, 10, 31)),
    [Document("kb-dpr-leg-01", "issue_log", "privacy", Day(2027, 1, 15))
      EXCEPT !.tags = {"LEGALLY_PRIVILEGED"}],
    [Document("kb-dpr-cus-01", "customer_file", "privacy", Day(2027, 2, 10))
      EXCEPT !.tags = {"PERSONAL_DATA"}],
    [Document("kb-dpr-sar-01", "customer_file", "privacy", Day(2027, 1, 20))
      EXCEPT !.tags = {"SAR_CONFIDENTIAL"}],
    [Document("kb-dpr-cus-02", "customer_file", "privacy", Day(2027, 2, 5))
      EXCEPT !.tags = {"PERSONAL_DATA", "CROSS_BORDER_RESTRICTED"},
             !.from = "JP"]>>

Resilience ==
  <<Document("kb-ops-pol-01", "policy", "resilience", Day(2026, 6, 15)),
    Document("kb-ops-ra-01", "risk_assessment", "resilience", Day(2026, 11, 15)),
    Document("kb-ops-ctl-01", "control_test_result", "resilience", Day(2027, 2, 20))>>

Governance ==
  <<[Document("kb-gov-pol-01", "policy", "governance", Day(2026, 5, 20))
      EXCEPT !.acl = {"analyst"}],
    [Document("kb-gov-min-01", "committee_minutes", "governance", Day(2026, 12, 5))
      EXCEPT !.acl = {"approver"}],
    [Document("kb-gov-min-02", "committee_minutes", "governance", Day(2027, 2, 12))
      EXCEPT !.acl = {"approver"}],
    [Document("kb-gov-org-01", "org_and_roles", "governance", Day(2026, 9, 1))
      EXCEPT !.acl = {"analyst"}]>>

Conduct ==
  <<Document("kb-con-proc-01", "procedure", "conduct", Day(2026, 8, 20)),
    Document("kb-con-iss-01", "issue_log", "conduct", Day(2027, 1, 10)),
    Document("kb-con-mi-01", "management_information", "conduct", Day(2027, 2, 15)),
    Document("kb-con-mi-02", "management_information", "conduct", Day(2025, 6, 30))>>

Outsourcing ==
  <<Document("kb-out-pol-01", "policy", "outsourcing", Day(2026, 7, 10)),
    Document("kb-out-con-01", "third_party_contract", "outsourcing", Day(2026, 6, 1)),
    Document("kb-out-ra-01", "risk_assessment", "outsourcing", Day(2026, 10, 10)),
    Document("kb-out-ctl-01", "control_test_result", "outsourcing", Day(2027, 1, 25))>>

\* An unseeded topic has an empty corpus, which is a legitimate answer.
SeededCorpus ==
  [t \in RequestTopic |->
     CASE t = "aml"         -> Aml
       [] t = "technology"  -> Technology
       [] t = "privacy"     -> Privacy
       [] t = "resilience"  -> Resilience
       [] t = "governance"  -> Governance
       [] t = "conduct"     -> Conduct
       [] t = "outsourcing" -> Outsourcing
       [] OTHER             -> <<>>]

-----------------------------------------------------------------------------
Obligation(id, artefacts) == [id |-> id, requires |-> artefacts]

\* The register of the shipped jurisdiction; every other pair has no row.
SeededRegister ==
  [t \in RequestTopic, j \in {"SG"} |->
     CASE t = "aml" ->
            <<Obligation("OBL-AML-001", {"policy", "control_test_result"})>>
       [] t = "technology" ->
            <<Obligation("OBL-TEC-001", {"control_test_result"})>>
       [] t = "privacy" ->
            <<Obligation("OBL-DPR-001", {"policy", "issue_log"})>>
       [] t = "resilience" ->
            <<Obligation("OBL-OPR-001", {"risk_assessment"})>>
       [] t = "governance" ->
            <<Obligation("OBL-GOV-001", {"committee_minutes"})>>
       [] t = "conduct" ->
            <<Obligation("OBL-CON-001", {"issue_log"})>>
       [] t = "credit" ->
            <<Obligation("OBL-CRD-001", {"issue_log"})>>
       [] t = "outsourcing" ->
            <<Obligation("OBL-OUT-001", {"third_party_contract"})>>
       [] OTHER -> <<>>]

\* The one assembled pack; three of its documents answer no outsourcing
\* question.
SeededPack ==
  <<Document("pk-out-con-01", "third_party_contract", "outsourcing", Day(2026, 12, 1)),
    Document("pk-out-ctl-01", "control_test_result", "outsourcing", Day(2027, 2, 1)),
    Document("pk-out-cus-01", "customer_file", "outsourcing", Day(2026, 11, 1)),
    Document("pk-out-txn-01", "transaction_sample", "outsourcing", Day(2026, 11, 2)),
    Document("pk-out-off-01", "policy", "aml", Day(2026, 11, 3))>>

SeededPackRef == "PACK-FICTIONAL-OUT-2027-01"

SeededPacks == [ref \in {SeededPackRef} |-> SeededPack]
SeededPacksFor ==
  [id \in {"OBL-OUT-001"} |-> <<SeededPackRef>>]

\* REQUIRED_ARTEFACTS
Playbook ==
  [t \in RequestTopic |->
     CASE t = "governance" -> {"policy", "committee_minutes", "org_and_roles"}
       [] t = "aml" -> {"policy", "procedure", "control_test_result",
                        "transaction_sample", "management_information"}
       [] t = "conduct" -> {"procedure", "issue_log", "management_information"}
       [] t = "credit" -> {"policy", "risk_assessment", "management_information"}
       [] t \in {"resilience", "model"} ->
            {"policy", "risk_assessment", "control_test_result"}
       [] t = "privacy" -> {"policy", "procedure", "issue_log", "customer_file"}
       [] t = "outsourcing" -> {"policy", "third_party_contract",
                                "risk_assessment", "control_test_result"}
       [] t = "capital" -> {"policy", "system_extract", "management_information"}
       [] t = "technology" -> {"policy", "procedure", "control_test_result",
                               "management_information"}]

TransferMatrix ==
  [j \in {"SG", "HK", "JP", "AU"} |->
     IF j \in {"SG", "HK"} THEN {"SG", "HK"} ELSE {j}]
=============================================================================
