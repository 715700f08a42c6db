------------------------------ MODULE PushImage ------------------------------
(***************************************************************************)
(* pushImage (src/cmd/vclusterctl/cmd/registry/push.go): a goroutine runs  *)
(* remote.Push with a progress channel of capacity 200 and puts its result *)
(* into an error channel of capacity 1; the caller ranges over the         *)
(* progress channel, printing each update, then reads the result.          *)
(*                                                                         *)
(* remote.Push (go-containerregistry) sends its updates with blocking      *)
(* sends, may send one update carrying the error when it fails, and closes *)
(* the progress channel when it returns.  The number of updates and the    *)
(* capacity are scaled down (Updates, Capacity); what matters is whether   *)
(* the updates fit into the buffer.                                        *)
(***************************************************************************)
EXTENDS Naturals, Sequences

CONSTANTS
    Updates,        \* progress updates a successful push sends
    Capacity,       \* make(chan v1.Update, 200)
    PushMayFail,    \* the registry may reject the push
    WriteMayFail    \* fmt.Fprintf(os.Stdout, ...) may fail (closed stdout)

VARIABLES
    progress,   \* progressChan: buffered updates, "update" or "error"
    closed,     \* progressChan is closed
    errBuf,     \* errChan: buffered results
    prod,       \* the goroutine: "pushing", "closing", "result", "exited"
    sent,       \* updates sent so far
    outcome,    \* what remote.Push returns: "none", "ok", "failed"
    cons,       \* pushImage: "range", "wait", "returned"
    ret         \* pushImage's return value: "none", "ok", "error"

vars == <<progress, closed, errBuf, prod, sent, outcome, cons, ret>>

\* make(chan error, 1)
ErrChanCapacity == 1

Init ==
    /\ progress = <<>>
    /\ closed = FALSE
    /\ errBuf = <<>>
    /\ prod = "pushing"
    /\ sent = 0
    /\ outcome = "none"
    /\ cons = "range"
    /\ ret = "none"

-----------------------------------------------------------------------------
(* The goroutine.                                                          *)

\* Variant that sends past the channel's capacity.
SendUpdateUnbounded ==
    /\ prod = "pushing" /\ sent < Updates
    /\ progress' = Append(progress, "update")
    /\ sent' = sent + 1
    /\ UNCHANGED <<closed, errBuf, prod, outcome, cons, ret>>

\* A blocking send of one progress update.
SendUpdate ==
    /\ prod = "pushing" /\ sent < Updates
    /\ Len(progress) < Capacity
    /\ progress' = Append(progress, "update")
    /\ sent' = sent + 1
    /\ UNCHANGED <<closed, errBuf, prod, outcome, cons, ret>>

\* The push fails; remote.Push may first send an update with the error.
PushFails ==
    /\ prod = "pushing" /\ PushMayFail
    /\ outcome' = "failed"
    /\ \/ Len(progress) < Capacity /\ progress' = Append(progress, "error")
       \/ UNCHANGED progress
    /\ prod' = "closing"
    /\ UNCHANGED <<closed, errBuf, sent, cons, ret>>

PushSucceeds ==
    /\ prod = "pushing" /\ sent = Updates
    /\ outcome' = "ok"
    /\ prod' = "closing"
    /\ UNCHANGED <<progress, closed, errBuf, sent, cons, ret>>

\* remote.Push closes the progress channel as it returns.
CloseProgress ==
    /\ prod = "closing"
    /\ closed' = TRUE
    /\ prod' = "result"
    /\ UNCHANGED <<progress, errBuf, sent, outcome, cons, ret>>

\* errChan <- remote.Push(...): a blocking send.
SendResult ==
    /\ prod = "result"
    /\ Len(errBuf) < ErrChanCapacity
    /\ errBuf' = Append(errBuf, outcome)
    /\ prod' = "exited"
    /\ UNCHANGED <<progress, closed, sent, outcome, cons, ret>>

-----------------------------------------------------------------------------
(* The caller.  After it returns nothing receives from either channel:   *)
(* the program stops once the goroutine has exited or blocked for good.   *)

\* for update := range progressChan: an update with an error is returned;
\* otherwise it is printed, and a failed print is returned.
ReceiveUpdate ==
    /\ cons = "range" /\ progress # <<>>
    /\ progress' = Tail(progress)
    /\ \/ Head(progress) = "error" /\ cons' = "returned" /\ ret' = "error"
       \/ Head(progress) = "update" /\ UNCHANGED <<cons, ret>>
       \/ Head(progress) = "update" /\ WriteMayFail
          /\ cons' = "returned" /\ ret' = "error"
    /\ UNCHANGED <<closed, errBuf, prod, sent, outcome>>

\* Variant returning success when the range ends, without reading errChan.
RangeEndsSkipsResult ==
    /\ cons = "range" /\ progress = <<>> /\ closed
    /\ cons' = "returned" /\ ret' = "ok"
    /\ UNCHANGED <<progress, closed, errBuf, prod, sent, outcome>>

\* The range ends once the channel is closed and drained.
RangeEnds ==
    /\ cons = "range" /\ progress = <<>> /\ closed
    /\ cons' = "wait"
    /\ UNCHANGED <<progress, closed, errBuf, prod, sent, outcome, ret>>

\* if err != nil { return err }; return nil
ResultOf(o) == IF o = "ok" THEN "ok" ELSE "error"

\* err = <-errChan: the result of the push is returned.
ReceiveResult ==
    /\ cons = "wait" /\ errBuf # <<>>
    /\ ret' = ResultOf(Head(errBuf))
    /\ errBuf' = Tail(errBuf)
    /\ cons' = "returned"
    /\ UNCHANGED <<progress, closed, prod, sent, outcome>>

Producer == SendUpdate \/ PushFails \/ PushSucceeds \/ CloseProgress \/ SendResult
Consumer == ReceiveUpdate \/ RangeEnds \/ ReceiveResult

Next == Producer \/ Consumer

\* The Go scheduler runs every runnable goroutine eventually.
Spec == Init /\ [][Next]_vars /\ WF_vars(Producer) /\ WF_vars(Consumer)

-----------------------------------------------------------------------------
TypeOK ==
    /\ progress \in Seq({"update", "error"}) /\ Len(progress) <= Capacity
    /\ closed \in BOOLEAN
    /\ errBuf \in Seq({"ok", "failed"}) /\ Len(errBuf) <= 1
    /\ prod \in {"pushing", "closing", "result", "exited"}
    /\ sent \in 0..Updates
    /\ outcome \in {"none", "ok", "failed"}
    /\ cons \in {"range", "wait", "returned"}
    /\ ret \in {"none", "ok", "error"}

=============================================================================
