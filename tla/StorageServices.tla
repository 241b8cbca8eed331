--------------------------- MODULE StorageServices ---------------------------
(***************************************************************************)
(* The services that take the recorders of the transcript to storage:      *)
(* EpochCommit (epoch_commit.d), DARTService (DART.d) and                  *)
(* ReplicatorService (replicator.d). epoch_commit handles one request at a *)
(* time and blocks in two nested receives; committing holds that request   *)
(* and at, the service whose answer it waits for. The step of the service  *)
(* that answers takes epoch_commit to its next send, since it is blocked   *)
(* for exactly that answer.                                                *)
(***************************************************************************)
EXTENDS PipelineState

\* Seeded fault: the next request is taken before the replicator has answered.
epoch_commitOverlapping(n) ==
    LET req == Head(commits[n])
    IN  /\ running[n] # "down"
        /\ committing[n] # None => committing[n].at = "replicator"
        /\ commits[n] # <<>>
        /\ commits' = [commits EXCEPT ![n] = Tail(@)]
        /\ committing' = [committing EXCEPT ![n] =
               [id |-> req.id, recorder |-> req.recorder, at |-> "dart"]]
        /\ dart_box' = [dart_box EXCEPT ![n] =
               Append(@, [method |-> "modify", recorder |-> req.recorder])]
        /\ UNCHANGED <<networkVars, running, shutdown, last_epoch_number, votingVars,
                       executionVars, checked, bullseyes, dart, last_block>>

\* epoch_commit: a request is taken and its recorder goes to the DART.
epoch_commit(n) ==
    LET req == Head(commits[n])
    IN  /\ running[n] # "down"
        /\ committing[n] = None
        /\ commits[n] # <<>>
        /\ commits' = [commits EXCEPT ![n] = Tail(@)]
        /\ committing' = [committing EXCEPT ![n] =
               [id |-> req.id, recorder |-> req.recorder, at |-> "dart"]]
        /\ dart_box' = [dart_box EXCEPT ![n] =
               Append(@, [method |-> "modify", recorder |-> req.recorder])]
        /\ UNCHANGED <<networkVars, running, shutdown, last_epoch_number, votingVars,
                       executionVars, checked, bullseyes, dart, last_block>>

\* dartCheckReadRR: answers with the archives that are not in the DART.
checkRead(n) ==
    LET req == Head(dart_box[n])
    IN  /\ running[n] # "down"
        /\ dart_box[n] # <<>>
        /\ req.method = "checkRead"
        /\ dart_box' = [dart_box EXCEPT ![n] = Tail(@)]
        /\ checked' = [checked EXCEPT ![n] =
               Append(@, [id |-> req.id, not_in_dart |-> req.inputs \ dart[n].bills])]
        /\ UNCHANGED <<networkVars, running, shutdown, last_epoch_number, votingVars,
                       executionVars, commits, bullseyes, storageVars>>

\* dartModifyRR: the recorder is stored, and epoch_commit hands it to the replicator.
modifyDART(n) ==
    LET req == Head(dart_box[n])
    IN  /\ running[n] # "down"
        /\ dart_box[n] # <<>>
        /\ req.method = "modify"
        /\ dart_box' = [dart_box EXCEPT ![n] = Tail(@)]
        /\ dart' = [dart EXCEPT ![n] = modify(@, req.recorder)]
        /\ committing' = [committing EXCEPT ![n].at = "replicator"]
        /\ UNCHANGED <<networkVars, running, shutdown, last_epoch_number, votingVars,
                       executionVars, checked, commits, bullseyes, last_block>>

\* Seeded fault: the recorder may be replicated again when the answer is late.
receiveRecorderAgain(n) ==
    LET req == committing[n]
        block == Append(last_block[n], [epoch |-> req.id, recorder |-> req.recorder,
                                        bullseye |-> dart[n]])
    IN  /\ running[n] # "down"
        /\ committing[n] # None
        /\ req.at = "replicator"
        /\ last_block' = [last_block EXCEPT ![n] = block]
        /\ \/ committing' = [committing EXCEPT ![n] = None]
           \/ UNCHANGED committing
        /\ bullseyes' = [bullseyes EXCEPT ![n] =
               Append(@, [id |-> req.id, bullseye |-> dart[n], block |-> block])]
        /\ UNCHANGED <<networkVars, running, shutdown, last_epoch_number, votingVars,
                       executionVars, dart_box, checked, commits, dart>>

\* Replicate: the recorder block is chained to the one before and written, and
\* epoch_commit answers the transcript with the bullseye and the block.
receiveRecorder(n) ==
    LET req == committing[n]
        block == Append(last_block[n], [epoch |-> req.id, recorder |-> req.recorder,
                                        bullseye |-> dart[n]])
    IN  /\ running[n] # "down"
        /\ committing[n] # None
        /\ req.at = "replicator"
        /\ last_block' = [last_block EXCEPT ![n] = block]
        /\ committing' = [committing EXCEPT ![n] = None]
        /\ bullseyes' = [bullseyes EXCEPT ![n] =
               Append(@, [id |-> req.id, bullseye |-> dart[n], block |-> block])]
        /\ UNCHANGED <<networkVars, running, shutdown, last_epoch_number, votingVars,
                       executionVars, dart_box, checked, commits, dart>>
===============================================================================
