-------------------------- MODULE SessionAlignment --------------------------
(***************************************************************************)
(* The two alignment policies: which session an article informs, and the   *)
(* interval of news a session declares it uses.                            *)
(***************************************************************************)
EXTENDS SessionCalendar

SessionWindow == "session_information_window"
Conservative == "conservative_calendar_day"
AlignmentPolicies == {SessionWindow, Conservative}

Cutoff(s, buffer) == Opening[s] - buffer

\* As if an article exactly at the cutoff came too late.
AssignByWindowStrict(t, buffer) ==
    LET candidate == NextOrSameSession(LocalDate(t)) IN
    IF candidate = NoSession \/ t < Cutoff(candidate, buffer)
    THEN candidate
    ELSE NextSession(candidate)

\* SessionInformationWindowPolicy.assign_session
AssignByWindow(t, buffer) ==
    LET candidate == NextOrSameSession(LocalDate(t)) IN
    IF candidate = NoSession \/ t <= Cutoff(candidate, buffer)
    THEN candidate
    ELSE NextSession(candidate)

\* ConservativeCalendarDayPolicy.assign_session
AssignByDay(t) == NextSession(LocalDate(t))

AssignSession(policy, buffer, t) ==
    IF ~InRange(t) THEN NoSession
    ELSE IF policy = SessionWindow THEN AssignByWindow(t, buffer)
    ELSE AssignByDay(t)

\* window_for_session, for a session that has a previous one in the range.
WindowStart(policy, s) ==
    IF policy = SessionWindow THEN Closing[PreviousSession(s)]
                              ELSE Midnight[PreviousSession(s)]

WindowEnd(policy, buffer, s) ==
    IF policy = SessionWindow THEN Cutoff(s, buffer) ELSE Midnight[s]

AvailableAt(policy, buffer, s) == WindowEnd(policy, buffer, s)

\* What SessionNewsFeature and NewsMarketObservation accept: the window is not
\* inverted and its news is available at the cutoff. A window needs a previous session.
Acceptable(policy, buffer, s) ==
    /\ PreviousSession(s) # NoSession
    /\ WindowStart(policy, s) <= WindowEnd(policy, buffer, s)
    /\ AvailableAt(policy, buffer, s) <= Cutoff(s, buffer)

\* For the properties: the sessions that could use an article of instant t
\* without looking ahead.
CanUse(policy, buffer, t) ==
    IF ~InRange(t) THEN {}
    ELSE IF policy = SessionWindow
    THEN {s \in Sessions : LocalDate(t) <= s /\ t <= Cutoff(s, buffer)}
    ELSE {s \in Sessions : LocalDate(t) < s}
=============================================================================
