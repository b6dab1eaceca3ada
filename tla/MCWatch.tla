------------------------------ MODULE MCWatch ------------------------------
(* The instances of Watch that TLC checks: bounds are set in the .cfg files. *)
EXTENDS WatchProperties

\* A plain watch behaves as a loop's whose owner never changes: Watch tells the
\* two apart in Current alone.
MCInit == Init /\ args.mode # "plain"
MCSpec == MCInit /\ [][Next]_vars /\ WF_vars(TaskStep) /\ WF_vars(ServiceStep)
=============================================================================
