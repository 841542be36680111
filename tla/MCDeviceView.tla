----------------------------- MODULE MCDeviceView -----------------------------
(***************************************************************************)
(* What an operator is shown of a device, on small instances, one per      *)
(* behaviour: the status the backend keeps of it (one device: no action    *)
(* relates two of them), or the live view of its readings in the dashboard *)
(* (pages of one row, a view of two).                                      *)
(***************************************************************************)
EXTENDS DeviceStatus, DashboardStream

CONSTANTS d1

VARIABLES part

MCVars == <<part, vars, streamVars>>

Status(action) == part = "status" /\ action /\ UNCHANGED <<part, streamVars>>
Stream(action) == part = "stream" /\ action /\ UNCHANGED <<part, vars>>

\* The inputs of the part that does not run are fixed.
MCInit ==
    /\ part \in {"status", "stream"}
    /\ Init /\ StreamInit
    /\ part = "status" => committed = 0
    /\ part = "stream" => status = Unknown

MCNext ==
    \/ Status(Next)
    \/ Stream(StreamNext)
    \/ part = "stream" /\ UNCHANGED MCVars      \* a view that was left may rest

\* The fairness of either component (DeviceStatus.Fairness, with its one device,
\* and DashboardStream.StreamFairness).
MCSpec ==
    /\ MCInit /\ [][MCNext]_MCVars
    /\ WF_MCVars(Status(ReadRow))
    /\ WF_MCVars(Status(Commit \/ RollBack))
    /\ WF_MCVars(Status(Report))
    /\ WF_MCVars(Status(Scan))
    /\ WF_MCVars(Status(RowAges(d1)))
    /\ WF_MCVars(Stream(PageArrives))
    /\ WF_MCVars(Stream(CatchUpTimer))
    /\ WF_MCVars(Stream(SeedArrives))
    /\ WF_MCVars(Stream(Opens))
    /\ WF_MCVars(Stream(Frame))
    /\ WF_MCVars(Stream(SocketTimer))
    /\ WF_MCVars(Stream(Answer))
    /\ WF_MCVars(Stream(Publish))

-------------------------------------------------------------------------------
(* Properties: the others are those of the two modules *)

\* The view catches up by itself (DashboardStream, useDeviceStream.ts:19).
ViewCatchesUp == part = "stream" => CatchesUp
===============================================================================
