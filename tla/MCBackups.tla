------------------------------ MODULE MCBackups ------------------------------
(***************************************************************************)
(* The parts that move or change a tenant's data, the batches of commands  *)
(* among them, side by side. They share no state, so a behaviour is one of *)
(* any one of them: part says which, and the others stay as they begin.    *)
(***************************************************************************)
EXTENDS Backups, Restores, Cloning, SqlImport, SqlSplitter, Batches

CONSTANTS
  MaxLines, \* bound on the lines of a dump
  MaxInput  \* bound on the symbols the splitter reads

VARIABLE part

AllVars == <<part, vars, restoreVars, cloneVars, importVars, splitVars, batchVars>>

For(p, inputs, nothing) == IF part = p THEN inputs ELSE {nothing}

DataInit ==
  /\ part \in {"backups", "restores", "cloning", "import", "splitter", "batches"}
  /\ Init
  /\ RestoreInit
  /\ part # "restores" => archive = "whole" /\ mirrored
  /\ CloneInit(For("cloning", [schemaOnly : BOOLEAN, clearSessions : BOOLEAN],
                   [schemaOnly |-> FALSE, clearSessions |-> FALSE]))
  /\ ImportInit(For("import", BoundedSeq(Lines, MaxLines), <<>>))
  /\ SplitInit(For("splitter", BoundedSeq(Symbols, MaxInput), <<>>))
  /\ BatchesInit
  /\ part # "batches" => \A t \in BatchTenants : tenantIs[t] = "absent" /\ batches[t] = <<>>

DataNext ==
  /\ UNCHANGED part
  /\ \/ /\ part = "backups" /\ Next
        /\ UNCHANGED <<restoreVars, cloneVars, importVars, splitVars, batchVars>>
     \/ /\ part = "restores" /\ RestoreNext
        /\ UNCHANGED <<vars, cloneVars, importVars, splitVars, batchVars>>
     \/ /\ part = "cloning" /\ CloneNext
        /\ UNCHANGED <<vars, restoreVars, importVars, splitVars, batchVars>>
     \/ /\ part = "import" /\ ImportNext
        /\ UNCHANGED <<vars, restoreVars, cloneVars, splitVars, batchVars>>
     \/ /\ part = "splitter" /\ SplitNext
        /\ UNCHANGED <<vars, restoreVars, cloneVars, importVars, batchVars>>
     \/ /\ part = "batches" /\ BatchesNext
        /\ UNCHANGED <<vars, restoreVars, cloneVars, importVars, splitVars>>

\* Which process, delivery or run is which makes no difference.
DataSymmetry == Permutations(BatchRuns)

DataSpec == DataInit /\ [][DataNext]_AllVars
=============================================================================
