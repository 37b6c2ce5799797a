--------------------------- MODULE MCPlanLifecycle ---------------------------
(* Small instances of the plan lifecycle for TLC. *)
EXTENDS PlanLifecycle, TLC

\* One device beside a job; or without one, and either more edits or more items (with more
\* items nothing dies).
OneStudent ==
  {[horizon |-> h, devices |-> {d}, jobs |-> JobWorkers, serial |-> FALSE, items |-> {i},
    rows |-> 2, edits |-> 1, deaths |-> 1] :
     h \in {"week", "semester"}, d \in Devices, i \in Items}
    \cup {[horizon |-> "week", devices |-> {d}, jobs |-> {}, serial |-> FALSE, items |-> {i},
           rows |-> 2, edits |-> 2, deaths |-> 1] : d \in Devices, i \in Items}
    \cup {[horizon |-> "week", devices |-> {d}, jobs |-> {}, serial |-> FALSE, items |-> Items,
           rows |-> 2, edits |-> 1, deaths |-> 0] : d \in Devices}

\* Payloads written one at a time: one device beside a job that may propose again; or two
\* devices that edit two items.
OneAtATime ==
  {[horizon |-> "semester", devices |-> {d}, jobs |-> JobWorkers, serial |-> TRUE,
    items |-> {i}, rows |-> 2, edits |-> 1, deaths |-> 0] : d \in Devices, i \in Items}
    \cup {[horizon |-> "week", devices |-> Devices, jobs |-> {}, serial |-> TRUE,
           items |-> Items, rows |-> 1, edits |-> 2, deaths |-> 0]}

Mixed == OneStudent \cup OneAtATime

\* Requests only, and all of them answered.
RequestsOnly ==
  {[horizon |-> "week", devices |-> Devices, jobs |-> {}, serial |-> FALSE, items |-> Items,
    rows |-> 1, edits |-> 2, deaths |-> 0]}

\* No action tells one item, or one device, from another.
Symmetry == Permutations(Items) \cup Permutations(Devices)
=============================================================================
