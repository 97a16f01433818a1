----------------------------- MODULE ResampleData -----------------------------
(***************************************************************************)
(* The command `flexmeasures edit resample-data` beside the writers of     *)
(* BeliefStore: it reads all beliefs of a sensor, waits for the host to    *)
(* confirm, then deletes them and saves the resampled ones through the     *)
(* same save_to_db.                                                        *)
(*                                                                         *)
(* The event is one of the finer events that upsampling splits the         *)
(* original into: each of its beliefs keeps its time, probability and      *)
(* value.                                                                  *)
(***************************************************************************)
EXTENDS BeliefStore

\* The data is read and shown; nothing is locked while the host decides.
ReadHistory(w) ==
    /\ Free(w)
    /\ db # {}
    /\ writer' = [writer EXCEPT ![w] = [Idle EXCEPT !.pc = "confirm", !.batch = db]]
    /\ UNCHANGED <<db, overwrite, accepted, ordered, posts, crashes>>

\* One transaction: its own DELETE has emptied what the two queries return.
Resampled(B) == Filtered(ExAnte(B), {}) \cup Filtered(ExPost(B), {})

ReplaceHistory(w) ==
    /\ writer[w].pc = "confirm"
    /\ db' = Resampled(writer[w].batch)
    /\ ordered' = (ordered /\ ~ writer[w].dirty)
    /\ writer' = [v \in Writers |->
                    IF v = w THEN Idle
                    ELSE IF Free(v) THEN writer[v]
                    ELSE [writer[v] EXCEPT !.dirty = TRUE]]
    /\ UNCHANGED <<overwrite, accepted, posts, crashes>>

ResampleNext ==
    \/ Next
    \/ \E w \in Writers : ReadHistory(w) \/ ReplaceHistory(w)

ResampleSpec == Init /\ [][ResampleNext]_vars

\* save_to_db: an updated belief with "a different event value [...] represents
\* a changed belief", and changed beliefs are stored: when batches come in
\* order, every accepted ex-post belief that differs from the one before it is
\* in the database, and resampling does not lose it.
ChangesSaved ==
    ordered =>
        \A b, c \in ExPost(accepted) :
            (/\ b.bt < c.bt /\ b.cp = c.cp /\ b.val # c.val
             /\ ~ \E d \in accepted : b.cp = d.cp /\ b.bt < d.bt /\ d.bt < c.bt)
                => c \in db

=============================================================================
