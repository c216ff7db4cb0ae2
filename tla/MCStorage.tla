------------------------------ MODULE MCStorage ------------------------------
(* The three growing arrays of the library side by side: the list of an    *)
(* aggregate, the string of a context, the file names of a read.           *)
EXTENDS SettingList, StringBuffer, StringVector

CONSTANTS x, y, c

StorageInit == Init /\ BufInit /\ VecInit

StorageNext ==
  \/ Next /\ UNCHANGED <<bufVars, vecVars>>
  \/ BufNext /\ UNCHANGED <<vars, vecVars>>
  \/ VecNext /\ UNCHANGED <<vars, bufVars>>

StorageSpec == StorageInit /\ [][StorageNext]_<<vars, bufVars, vecVars>>

MCPieces == {<<>>, <<c, c>>}
=============================================================================
