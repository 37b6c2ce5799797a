---------------------------- MODULE MCCalendarSync ----------------------------
(* Small calendars for TLC: one aspect with room in each, the others small. *)
EXTENDS CalendarSync

GoogleFeed  == [kind |-> "google", changes |-> 3, channels |-> 0, sources |-> 1, gone |-> 1,
                faults |-> 1]
GooglePush  == [kind |-> "google", changes |-> 1, channels |-> 3, sources |-> 1, gone |-> 0,
                faults |-> 0]
GoogleTwice == [kind |-> "google", changes |-> 2, channels |-> 0, sources |-> 2, gone |-> 0,
                faults |-> 1]
IcsFeed     == [kind |-> "ics", changes |-> 3, channels |-> 0, sources |-> 2, gone |-> 0,
                faults |-> 1]

CalendarScenarios == {GoogleFeed, GooglePush, GoogleTwice, IcsFeed}
=============================================================================
