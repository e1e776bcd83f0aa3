---------------------------- MODULE RequestTrace ----------------------------
(***************************************************************************)
(* GET /logs/trace/:correlationId, watched by an observer that knows which *)
(* hops had already ended when a hop began.                                *)
(***************************************************************************)
EXTENDS RequestLog

VARIABLE endedBefore   \* endedBefore[m]: the hops over when hop m began

Ended == {m \in Messages : hop[m] \in {"returned", "threw"}}

TraceInit == Init /\ endedBefore = [m \in Messages |-> {}]

TraceNext ==
    /\ Next
    /\ endedBefore' = [m \in Messages |->
                          IF hop[m] # "running" /\ hop'[m] = "running"
                          THEN Ended ELSE endedBefore[m]]

TraceSpec == TraceInit /\ [][TraceNext]_<<vars, endedBefore>>

(* LogRepository.findByCorrelationId: the flow's rows by created_at. *)
FindByCorrelationId(flow) ==
    LET OfFlow(row) == row.flow = flow
    IN  SelectSeq(rows, OfFlow)

(* log.controller.ts: the rows of a flow are "ordered by when it           *)
(* happened", so a hop is never listed before one that had ended when it   *)
(* began.                                                                  *)
TraceInOrder ==
    \A flow \in Flows :
        LET trace == FindByCorrelationId(flow)
        IN  \A i, j \in DOMAIN trace :
                trace[j].hop \in endedBefore[trace[i].hop] => j < i
=============================================================================
