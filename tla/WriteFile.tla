------------------------------ MODULE WriteFile ------------------------------
(***************************************************************************)
(* config_write_file() of lib/libconfig.c down to the disk: the stream     *)
(* with its buffer, the file as the system has it, and what of it survives *)
(* a crash.  Opening, every write, fsync() and fclose() may fail.          *)
(*                                                                         *)
(* A configuration is written in pieces; the k-th save writes the pieces   *)
(* <<k, 1>>, <<k, 2>>, ...                                                 *)
(***************************************************************************)
EXTENDS Locale, Sequences, SequencesExt

CONSTANTS
  Writer,    \* the thread that saves its configuration
  CLOSED,    \* the stream when it is not open
  PieceCount,  \* the pieces of a configuration
  BufSize,   \* BUFSIZ: the pieces the buffer of a stream has room for
  MaxSaves   \* bound: calls of config_write_file()

ASSUME WriteAssumption ==
  /\ Writer \in Threads /\ CLOSED \notin Seq(Nat \X Nat)
  /\ PieceCount \in Nat /\ BufSize \in Nat \ {0} /\ MaxSaves \in Nat

VARIABLES
  pc,      \* where the call is; "idle" outside
  stream,  \* the pieces in the buffer of the stream, or CLOSED
  next,    \* the piece that config_write() writes next
  file,    \* the contents of the file
  disk,    \* what a crash leaves of it
  save,    \* the number of the save, and CONFIG_OPTION_FSYNC
  lost,    \* a write failed: not in the program
  error    \* config->error_type after the last call, "UNKNOWN" after a crash

fileVars == <<pc, stream, next, file, disk, save, lost, error>>
writeVars == <<localeVars, fileVars>>

Contents(k) == [i \in 1 .. PieceCount |-> <<k, i>>]

WriteInit ==
  /\ LocaleInit
  /\ pc = "idle" /\ stream = CLOSED /\ next = 1
  /\ file = <<>> /\ disk = <<>>
  /\ save = [number |-> 0, fsync |-> FALSE]
  /\ lost = FALSE /\ error = "NONE"

(* write(): the pieces get into the file, or not all of them.              *)
Flush(pieces) ==
  \/ file' = file \o pieces /\ UNCHANGED lost
  \/ /\ \E n \in 0 .. Len(pieces) - 1 : file' = file \o SubSeq(pieces, 1, n)
     /\ lost' = TRUE

(* fclose(), whose result is ignored, and the end of the call.             *)
Close(result) ==
  /\ Flush(stream)
  /\ stream' = CLOSED /\ pc' = "idle" /\ error' = result
  /\ UNCHANGED <<next, disk, save>>

-----------------------------------------------------------------------------
(* config_write_file(), step by step.                                      *)

OpenFails ==
  /\ pc = "idle" /\ nesting[Writer] = 0
  /\ error' = "FILE_IO"
  /\ UNCHANGED <<localeVars, pc, stream, next, file, disk, save, lost>>

(* The old contents go.                                                    *)
Open ==
  /\ pc = "idle" /\ nesting[Writer] = 0 /\ save.number < MaxSaves
  /\ \E fsync \in BOOLEAN : save' = [number |-> save.number + 1, fsync |-> fsync]
  /\ file' = <<>> /\ stream' = <<>> /\ next' = 1 /\ lost' = FALSE
  /\ pc' = "opened"
  /\ UNCHANGED <<localeVars, disk, error>>

BeginWrite ==
  /\ pc = "opened"
  /\ Override(Writer)
  /\ pc' = "writing"
  /\ UNCHANGED <<stream, next, file, disk, save, lost, error>>

(* A full buffer is written before it takes another piece.                 *)
PutPiece ==
  /\ pc = "writing" /\ next <= PieceCount
  /\ IF Len(stream) < BufSize
     THEN /\ stream' = Append(stream, <<save.number, next>>)
          /\ UNCHANGED <<file, lost>>
     ELSE Flush(stream) /\ stream' = << <<save.number, next>> >>
  /\ next' = next + 1
  /\ UNCHANGED <<localeVars, pc, disk, save, error>>

EndWrite ==
  /\ pc = "writing" /\ next > PieceCount
  /\ Restore(Writer)
  /\ pc' = IF save.fsync THEN "sync" ELSE "close"
  /\ UNCHANGED <<stream, next, file, disk, save, lost, error>>

Synced == disk' = file /\ pc' = "close"

\* Mutant: the result of fsync() is ignored.
SyncUnchecked ==
  /\ pc = "sync"
  /\ \/ Synced
     \/ pc' = "close" /\ UNCHANGED disk
  /\ UNCHANGED <<localeVars, stream, next, file, save, lost, error>>

(* fsync() of what has left the stream; when it fails the call ends.       *)
Sync ==
  /\ pc = "sync"
  /\ \/ Synced /\ UNCHANGED <<stream, next, file, save, lost, error>>
     \/ Close("FILE_IO")
  /\ UNCHANGED localeVars

\* Mutant: the stream is left open.
CloseForgotten ==
  /\ pc = "close"
  /\ pc' = "idle" /\ error' = "NONE"
  /\ UNCHANGED <<localeVars, stream, next, file, disk, save, lost>>

Succeed ==
  /\ pc = "close"
  /\ Close("NONE")
  /\ UNCHANGED localeVars

Save == OpenFails \/ Open \/ BeginWrite \/ PutPiece \/ EndWrite \/ Sync \/ Succeed

-----------------------------------------------------------------------------
(* The system.                                                             *)

(* The file reaches the disk when the system likes, in order.              *)
WriteBack ==
  /\ \E n \in 0 .. Len(file) :
       /\ IsPrefix(disk, file) => Len(disk) <= n
       /\ disk' = SubSeq(file, 1, n)
  /\ UNCHANGED <<localeVars, pc, stream, next, file, save, lost, error>>

(* The machine stops, and the program starts again.                        *)
Crash ==
  /\ file' = disk
  /\ pc' = "idle" /\ stream' = CLOSED /\ error' = "UNKNOWN"
  /\ locale' = [t \in Threads |-> GLOBAL]
  /\ radix' = [o \in Objects |-> FREED]
  /\ own' = {} /\ nesting' = [t \in Threads |-> 0]
  /\ UNCHANGED <<process, next, disk, save, lost>>

(* The program, and reads and writes of other configurations.              *)
OthersStep ==
  /\ LocaleStep
  /\ UNCHANGED fileVars
  /\ (pc # "idle" => locale'[Writer] = locale[Writer]) = TRUE

WriteNext == Save \/ WriteBack \/ Crash \/ OthersStep

WriteSpec == WriteInit /\ [][WriteNext]_writeVars

-----------------------------------------------------------------------------
(* After config_write_file() returned the file is closed, and when it      *)
(* returned CONFIG_TRUE the file holds the configuration, the whole of it  *)
(* and nothing else; but for a write that failed, which nobody notices.    *)
SavedAsReported ==
  pc = "idle" =>
    /\ stream = CLOSED
    /\ error = "NONE" /\ ~lost /\ save.number > 0 => file = Contents(save.number)

(* CONFIG_OPTION_FSYNC: of a configuration that was written with success a *)
(* crash takes at most what the buffer of the stream still held at fsync().*)
SyncedButTheTail ==
  pc = "idle" /\ error = "NONE" /\ ~lost /\ save.fsync =>
    /\ IsPrefix(disk, Contents(save.number))
    /\ Len(disk) + BufSize >= PieceCount
=============================================================================
