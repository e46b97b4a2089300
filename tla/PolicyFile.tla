----------------------------- MODULE PolicyFile -----------------------------
(***************************************************************************)
(* domain/policy.py: from the policy block of the settings file to the     *)
(* policy every engine reads.  A block is a function from the keys it      *)
(* names to what stands there: nothing (Absent), something of another      *)
(* shape (Malformed), or a value; a word where a flag is expected is Word. *)
(* A parser gives the value, the fallback, or Refused, which stands for    *)
(* the ValueError that keeps the settings from loading.  Days are numbers, *)
(* day 0 Monday 28 December 2026.                                          *)
(***************************************************************************)
EXTENDS Integers, Sequences, FiniteSets

CONSTANTS Absent, Malformed, Word, Refused

Instrument ==
  {"exam_request_list", "rfi", "s166_skilled_person", "thematic_review", "information_notice"}

SensitivityTag ==
  {"public", "internal", "confidential", "legally_privileged", "sar_confidential",
   "personal_data", "cross_border_restricted"}

Severity == {"LOW", "MEDIUM", "HIGH", "CRITICAL"}

Weekend == {5, 6}

Unscheduled == [fixed |-> 0, calendarDays |-> FALSE]

DefaultPolicy ==
  [response_windows |->
     [exam_request_list |-> 20, rfi |-> 15, s166_skilled_person |-> 30,
      thematic_review |-> 20, information_notice |-> 10],
   review_buffer_business_days |-> 5,
   extension_notice_business_days |-> 10,
   evidence_max_age_days |-> 400,
   sla_bands |-> << <<0, "CRITICAL">>, <<3, "HIGH">>, <<8, "MEDIUM">> >>,
   min_completeness_pct_for_release |-> 100,
   max_evidence_per_requirement |-> 5,
   hard_withhold_tags |-> {"legally_privileged", "sar_confidential"},
   silent_withhold_tags |-> {"sar_confidential"},
   privilege_requires_waiver |-> TRUE,
   transfer_matrix |->
     [SG |-> {"SG", "HK"}, HK |-> {"HK", "SG"}, JP |-> {"JP"}, AU |-> {"AU"}],
   calendars |->
     [SG |-> [version |-> "2027.1", weekend |-> Weekend, holidays |-> {4, 124, 224, 362}],
      HK |-> [version |-> "2027.1", weekend |-> Weekend, holidays |-> {4, 124, 185, 362}]],
   regime_register |->
     [supervisory_information_request |-> Unscheduled,
      skilled_person_review |-> Unscheduled,
      thematic_supervisory_review |-> Unscheduled],
   dual_control_instruments |-> {"s166_skilled_person", "information_notice"},
   dual_control_kinds |-> {"pack"}]

PolicyKey == DOMAIN DefaultPolicy

-----------------------------------------------------------------------------
(* The parsers.  All read what is absent as the fallback.                  *)

Number(raw, fallback) ==
  IF raw = Absent THEN fallback ELSE IF raw = Malformed THEN Refused ELSE raw

\* bool() of any word is true, the word false included.
Flag(raw, fallback) ==
  IF raw = Absent THEN fallback ELSE raw \in {Word, Malformed} \/ raw

\* _tags and _strings: a list, of known values where the values are closed.
Members(raw, fallback, known) ==
  IF raw = Absent THEN fallback
  ELSE IF raw = Malformed \/ ~(raw \subseteq known) THEN Refused
  ELSE raw

\* The order of the file is kept; a table of nothing is refused.
SlaBands(raw, fallback) ==
  IF raw = Absent THEN fallback
  ELSE IF \/ raw \in {Malformed, <<>>}
          \/ \E i \in DOMAIN raw : raw[i] = Malformed \/ raw[i][2] \notin Severity
    THEN Refused
  ELSE raw

ResponseWindows(raw, fallback) ==
  IF raw = Absent THEN fallback
  ELSE IF raw = Malformed \/ ~(DOMAIN raw \subseteq Instrument) THEN Refused
  ELSE raw

TransferMatrix(raw, fallback) ==
  IF raw = Absent THEN fallback ELSE IF raw = Malformed THEN Refused ELSE raw

\* Slip: a list without a version is taken as it is.
Calendars_Unversioned(raw, fallback) ==
  IF raw = Absent THEN fallback
  ELSE IF raw = Malformed \/ \E j \in DOMAIN raw : raw[j] = Malformed THEN Refused
  ELSE [j \in DOMAIN raw |->
          [raw[j] EXCEPT !.weekend = IF @ = {} THEN Weekend ELSE @]]

\* No calendar without a version; an empty list of weekend days is no list.
Calendars(raw, fallback) ==
  IF raw = Absent THEN fallback
  ELSE IF raw = Malformed \/ \E j \in DOMAIN raw : raw[j] = Malformed THEN Refused
  ELSE IF \E j \in DOMAIN raw : raw[j].version = "" THEN Refused
  ELSE [j \in DOMAIN raw |->
          [raw[j] EXCEPT !.weekend = IF @ = {} THEN Weekend ELSE @]]

RegimeRegister(raw, fallback) ==
  IF raw = Absent THEN fallback
  ELSE IF raw = Malformed \/ \E r \in DOMAIN raw : raw[r] = Malformed THEN Refused
  ELSE raw

-----------------------------------------------------------------------------
(* What a settings file can hold under a key: nothing, something of        *)
(* another shape, or a value of the key's own.                             *)
IsBlock(block) ==
  LET Given(key) == IF key \in DOMAIN block THEN {block[key]} \ {Absent, Malformed} ELSE {}
  IN block # Absent =>
       /\ Given("review_buffer_business_days") \subseteq Int
       /\ Given("extension_notice_business_days") \subseteq Int
       /\ \A w \in Given("response_windows") : \A i \in DOMAIN w : w[i] \in Int
       /\ Given("sla_bands") \subseteq Seq((Int \X STRING) \cup {Malformed})
       /\ \A c \in Given("calendars") : \A j \in DOMAIN c \ {k \in DOMAIN c : c[k] = Malformed} :
            /\ c[j] \in [version : STRING, weekend : SUBSET Int, holidays : SUBSET Int]
            /\ IsFiniteSet(c[j].holidays)
       /\ \A g \in Given("regime_register") : \A r \in DOMAIN g :
            g[r] = Malformed \/ g[r] \in [fixed : Int, calendarDays : BOOLEAN]

-----------------------------------------------------------------------------
(* An absent or empty block is the shipped policy; a block overrides what  *)
(* it names and nothing else; one refused part refuses the whole.          *)
PolicyFromMapping(block) ==
  LET Raw(key)     == IF key \in DOMAIN block THEN block[key] ELSE Absent
      Part(P(_,_), key) == P(Raw(key), DefaultPolicy[key])
      Tags(key)    == Members(Raw(key), DefaultPolicy[key], SensitivityTag)
      Strings(key) == Members(Raw(key), DefaultPolicy[key], STRING)
      policy ==
        [response_windows |-> Part(ResponseWindows, "response_windows"),
         review_buffer_business_days |-> Part(Number, "review_buffer_business_days"),
         extension_notice_business_days |-> Part(Number, "extension_notice_business_days"),
         evidence_max_age_days |-> Part(Number, "evidence_max_age_days"),
         sla_bands |-> Part(SlaBands, "sla_bands"),
         min_completeness_pct_for_release |-> Part(Number, "min_completeness_pct_for_release"),
         max_evidence_per_requirement |-> Part(Number, "max_evidence_per_requirement"),
         hard_withhold_tags |-> Tags("hard_withhold_tags"),
         silent_withhold_tags |-> Tags("silent_withhold_tags"),
         privilege_requires_waiver |-> Part(Flag, "privilege_requires_waiver"),
         transfer_matrix |-> Part(TransferMatrix, "transfer_matrix"),
         calendars |-> Part(Calendars, "calendars"),
         regime_register |-> Part(RegimeRegister, "regime_register"),
         dual_control_instruments |-> Strings("dual_control_instruments"),
         dual_control_kinds |-> Strings("dual_control_kinds")]
  IN IF block = Absent \/ DOMAIN block = {} THEN DefaultPolicy
     ELSE IF \E key \in PolicyKey : policy[key] = Refused THEN Refused
     ELSE policy

\* An unknown requester may be sent what is its own.
PermittedTransfers(policy, jurisdiction) ==
  IF jurisdiction \in DOMAIN policy.transfer_matrix
    THEN policy.transfer_matrix[jurisdiction] ELSE {jurisdiction}

\* Slip: a jurisdiction without a calendar has that of another.
CalendarFor_Borrowed(policy, jurisdiction) ==
  IF jurisdiction \in DOMAIN policy.calendars
    THEN policy.calendars[jurisdiction] ELSE DefaultPolicy.calendars["SG"]

\* The fallback knows weekends only, and says that it is no calendar.
CalendarFor(policy, jurisdiction) ==
  IF jurisdiction \in DOMAIN policy.calendars
    THEN policy.calendars[jurisdiction]
    ELSE [version |-> "unconfigured", weekend |-> Weekend, holidays |-> {}]
=============================================================================
