--------------------------- MODULE MCConsultation ---------------------------
(***************************************************************************)
(* ConsultationQueue over both storage drivers at once, on small           *)
(* instances: which one it is, is chosen at the start.  The module         *)
(* extended is the line over local files; OverPg is the same line over     *)
(* Postgres.                                                               *)
(***************************************************************************)
EXTENDS ConsultationQueue

CONSTANT Drivers    \* the drivers a run is about

VARIABLE driver

\* The lawyer goes online, and closes the line; nobody moves a switch back.
SwitchBound == {<<"setOnline", TRUE>>, <<"setQueueOpen", FALSE>>}

\* The lawyer goes online, and no switch is moved after that.
OnlineOnly == {<<"setOnline", TRUE>>}

\* Over Postgres everything overlaps: one failure and, below, one purchase.
OverPg == INSTANCE ConsultationQueue
          WITH Driver <- "pg", Switches <- OnlineOnly, MaxFaults <- 1

\* Which slot a request uses makes no difference.
RequestSymmetry == Permutations(Requests)

MCInit == Init /\ driver \in Drivers

MCNext ==
  /\ UNCHANGED driver
  /\ \/ driver = "local" /\ Next
     \/ /\ driver = "pg" /\ OverPg!Next
        /\ Cardinality({p \in Purchases : purchases'[p].status # "new"})
             + Cardinality({r \in Requests : req'[r].op = "buy"}) <= 1

MCSpec == MCInit /\ [][MCNext]_<<vars, driver>>

-----------------------------------------------------------------------------
\* Over local files, where no request comes between a read and a write of another
\* (local-storage.adapter.ts:45-78), one client at most is in service.
OneInServiceOverFiles == driver = "local" => OneInService

\* Over local files nobody loses a place in the line: the stored line is the line in
\* memory once every snapshot has landed, unless something parted them and nothing was
\* sent since, and a consumed purchase has its ticket (queue.service.ts:45, 213).
PlacesKeptOverFiles == driver = "local" => StoredCatchesUp /\ ConsumedHasATicket

\* Over local files a ticket that was written as over is never stored as anything else.
StaysOverOverFiles == [][driver = "local" => StaysOver]_<<vars, driver>>
=============================================================================
