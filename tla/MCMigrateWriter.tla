--------------------------- MODULE MCMigrateWriter ---------------------------
(***************************************************************************)
(* The executor of MCMigrate with another writer of the controllers'      *)
(* Scale beside it (a user's kubectl scale, an autoscaler), which sets    *)
(* spec.replicas to a value of WriteValues while the Scale's              *)
(* resourceVersion is below MaxVersion.                                  *)
(***************************************************************************)
EXTENDS MCMigrate

CONSTANTS WriteValues, MaxVersion

ExternalWrite(w, v) ==
  /\ ver[w] < MaxVersion
  /\ replicas' = [replicas EXCEPT ![w] = v]
  /\ ver' = [ver EXCEPT ![w] = @ + 1]
  /\ UNCHANGED <<loc, born, call, ip, sc, scv, pc>>

WriterNext == Next \/ \E w \in Scaled, v \in WriteValues : ExternalWrite(w, v)

WriterSpec == Init /\ [][WriterNext]_vars /\ WF_vars(Executor)

=============================================================================
