--------------------------- MODULE MCSyncCounters ---------------------------
(* SyncCounters on instances small enough for TLC. *)
EXTENDS SyncCounters

CONSTANTS a, b, c, k, l, f, x, y

MCClients == {a, b, c}
MCOneClient == {a}
MCOwner ==
    [z \in Objects \cup Alarms |->
       IF z \in {k, f, x} \/ b \notin Clients THEN a ELSE b]

Is(o, v, type) ==
    [obj |-> o, vtype |-> "Absolute", wait |-> v, check |-> type]
Grows(o, v, type) ==
    [obj |-> o, vtype |-> "Relative", wait |-> v, check |-> type]

MCAwaits ==
    { <<Is(k, 1, "PositiveComparison"), Grows(k, 2, "PositiveTransition")>>,
      <<Is(l, 0, "NegativeTransition"), Is(k, 0, "NegativeComparison")>>,
      <<Is(f, 0, "Fence"), Is(f, 0, "Fence")>> }

Set(o, v, type, d) ==
    [obj |-> o, vtype |-> "Absolute", wait |-> v, type |-> type, delta |-> d]
Rel(o, v, type, d) == [Set(o, v, type, d) EXCEPT !.vtype = "Relative"]

KeepAll == Set(Keep, Keep, Keep, Keep)
OnlyDelta(d) == [KeepAll EXCEPT !.vtype = Keep, !.delta = d]
OnlyType(t) == [KeepAll EXCEPT !.vtype = t]
NewValue(o, v) == [KeepAll EXCEPT !.vtype = Keep, !.obj = o, !.wait = v]
OnlyObject(o) == [KeepAll EXCEPT !.vtype = Keep, !.obj = o]

MCNewAlarms ==
    { Set(k, 0, "PositiveComparison", 2),
      Set(k, 0, "PositiveTransition", 0),
      Rel(l, -1, "NegativeComparison", -2) }
MCAlarmChanges ==
    { OnlyDelta(0), OnlyDelta(-1), OnlyObject(None), OnlyType("invalid"),
      NewValue(l, 1) }

\* The counter need not exist.
MCNewAlarm == { Set(k, 1, "PositiveComparison", 0) }
MCAlarmChange == { Set(l, 0, "PositiveTransition", Keep) }

MCMin == -4
MCInitial == {2}
MCSet == {-1}
MCIncrements == {3}
MCCounters == {k, l}
MCFences == {f}
MCNone == {}
MCAlarms == {x, y}
MCOneAlarm == {x}
=============================================================================
