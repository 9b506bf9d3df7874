----------------------------- MODULE MCDataBus -----------------------------
(* Instances of DataBus for TLC: each transport, the socket with recoveries *)
(* without limit and the worker with one attempt, or the worker alone.      *)
EXTENDS DataBus

Setup(kind, limit, calls) == [kind |-> kind, limit |-> limit, moves |-> calls]

BothTransports == {Setup("websocket", 0, 5), Setup("worker", 1, 4)}
WorkerOnly == {Setup("worker", 0, 4)}
============================================================================
