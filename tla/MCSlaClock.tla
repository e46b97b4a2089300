----------------------------- MODULE MCSlaClock -----------------------------
EXTENDS SlaClock

\* A Saturday and a day just after a holiday, in the second and third week
\* of the notice.
MCDates == {12, 17}

MCRequests ==
  { <<"rfi", "fixed", "SG">>, <<"rfi", "calendar", "JP">>,
    <<"thematic_review", "none", "SG">> }

Shipped == Absent

\* Two holidays, a short window, one instrument without a window, and regimes
\* that fix one.
House ==
  [response_windows |-> [rfi |-> 8],
   review_buffer_business_days |-> 3,
   extension_notice_business_days |-> 6,
   sla_bands |-> << <<0, "CRITICAL">>, <<3, "HIGH">>, <<6, "MEDIUM">> >>,
   calendars |-> [SG |-> [version |-> "2027.2", weekend |-> {}, holidays |-> {7, 16}]],
   regime_register |-> [fixed |-> [fixed |-> 9, calendarDays |-> FALSE],
                        calendar |-> [fixed |-> 9, calendarDays |-> TRUE]]]

\* Numbers, bands and weekends no one meant, which the parser lets through.
Odd ==
  [review_buffer_business_days |-> -1,
   extension_notice_business_days |-> Absent,
   sla_bands |-> << <<5, "MEDIUM">>, <<0, "CRITICAL">> >>,
   privilege_requires_waiver |-> Word,
   calendars |-> [SG |-> [version |-> "2027.3", weekend |-> {4, 5}, holidays |-> {}],
                  JP |-> [version |-> "2027.3", weekend |-> 0..6, holidays |-> {}]]]

Unversioned ==
  [calendars |-> [SG |-> [version |-> "", weekend |-> Weekend, holidays |-> {}]]]

NoBands == [sla_bands |-> <<>>]

NotAList == [hard_withhold_tags |-> Malformed]

MCBlocks == {Shipped, House, Odd, Unversioned, NoBands, NotAList}
=============================================================================
