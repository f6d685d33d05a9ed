------------------------------ MODULE MCSession ------------------------------
(* Small sessions for TLC: which answers the database gives to which request. *)
EXTENDS Session

AnyTime == {"MT_PING_PONG", "MT_CLOSE"}

\* The database of docs/protocol.md: it may also close, ping and stall.
Conforming ==
  [MT_CLIENT |-> {"MT_INFO"} \cup AnyTime,
   MT_META   |-> {"MT_META"} \cup AnyTime,
   MT_RUN    |-> {"MT_RUN", "MT_CALL", "MT_CLEANUP"} \cup AnyTime,
   MT_NEXT   |-> {"MT_NEXT", "MT_DONE", "MT_TRY_AGAIN", "MT_CLEANUP"} \cup AnyTime,
   MT_EMIT   |-> {"MT_EMIT", "MT_PING_PONG"},
   MT_IMPORT |-> {"MT_IMPORT", "MT_PING_PONG"},
   MT_DONE   |-> {"MT_DONE", "MT_CLEANUP"} \cup AnyTime,
   MT_RETURN |-> {"MT_RETURN", "MT_CLEANUP"} \cup AnyTime,
   MT_UNDEFINED_CALL |-> {"MT_UNDEFINED_CALL", "MT_CLEANUP"} \cup AnyTime,
   MT_FINISHED |-> {"MT_FINISHED", "MT_PING_PONG"},
   MT_CLOSE  |-> {"MT_CLOSE"}]

\* A single call may be acknowledged with the wrong kind of echo.
MixedAcks ==
  [Conforming EXCEPT !["MT_RETURN"] = @ \cup {"MT_UNDEFINED_CALL"},
                     !["MT_UNDEFINED_CALL"] = @ \cup {"MT_RETURN"}]

\* The database may close the session while it is taking output.
MayCloseEmit == [Conforming EXCEPT !["MT_EMIT"] = @ \cup {"MT_CLOSE"}]

\* The database may also end the session with its answer to a flush or a lookup.
MayEndAnywhere ==
  [MixedAcks EXCEPT !["MT_EMIT"]   = @ \cup TerminalTypes,
                    !["MT_IMPORT"] = @ \cup TerminalTypes]

\* Any reply to any request.
Anything == [q \in RequestTypes |-> ResponseTypes]

OneConnection == {1}

Streaming ==
  [t \in ResponseTypes |->
     CASE t = "MT_INFO"   -> {"info"}
       [] t = "MT_META"   -> {"data"}
       [] t = "MT_NEXT"   -> {"table"}
       [] t = "MT_IMPORT" -> {"conn", "refused"}
       [] OTHER           -> Payloads(t)]

AllPayloads == [t \in ResponseTypes |-> Payloads(t)]

\* Every payload, but no batch that cannot be decoded: its rows are lost.
DecodableBatches == [AllPayloads EXCEPT !["MT_NEXT"] = {"table"}]

(* The databases of the runs answer as the premises of the theorems ask of  *)
(* them, so a theorem with a premise is about the sessions that are run.    *)
ASSUME RunsFollowProtocol ==
  \A may \in {Conforming, MayCloseEmit, MayEndAnywhere} :
    /\ RowsInKind(may, Streaming) /\ RowsInKind(may, DecodableBatches)
    /\ OutputInKind(may)
    /\ FinishedInKind(may)

ScalarShapes == {s \in Shapes : s.input = "ExactlyOnce"}
SetShapes    == {s \in Shapes : s.input = "Multiple"}
=============================================================================
