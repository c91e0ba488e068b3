--------------------------- MODULE MCAppointments ---------------------------
EXTENDS Appointments, FiniteSetsExt

MCAppts == {1, 2}
E(kind, a, at, start) == [kind |-> kind, appt |-> a, at |-> at, start |-> start]
Book1   == E("booked", 1, 1, 3)
Book2   == E("booked", 2, 1, 2)
Update1 == E("updated", 1, 2, None)
Move2   == E("rescheduled", 2, 2, 4)
Show1   == E("showed", 1, 3, None)
NoShow1 == E("no_show", 1, 3, None)
Cancel1 == E("canceled", 1, 4, None)
Cancel2 == E("canceled", 2, 3, None)
MCEvents == {Book1, Book2, Update1, Move2, Show1, NoShow1, Cancel1, Cancel2}

Sent(events, n) == [sends |-> events \X {"new"}, faults |-> n]
MCScenarios ==
  {[sends |-> {<<NoShow1, "new">>, <<Book1, "new">>, <<Book1, "old">>}, faults |-> 1],
   Sent({Book1, Cancel1}, 1), Sent({Book1}, 2)}
  \cup {Sent(s, 0) : s \in kSubset(3, MCEvents)}
=============================================================================
