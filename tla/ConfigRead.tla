----------------------------- MODULE ConfigRead -----------------------------
(***************************************************************************)
(* Reading a configuration: config_read_file() and config_read_string(),   *)
(* the scan context with its stack of included files (lib/scanctx.c), the  *)
(* @include and end-of-file rules of lib/scanner.l, the unwinding after an *)
(* error, and the error report kept in the config_t.                       *)
(*                                                                         *)
(* A file is a sequence of lines; a line holds a setting, an @include or   *)
(* something the parser refuses.  Streams, flex buffers and file names are *)
(* numbered in the order they are made; for each the number of times it    *)
(* was closed, deleted or freed is counted.                                *)
(***************************************************************************)
EXTENDS Integers, Sequences, FiniteSets, SequencesExt

CONSTANTS
  Files,            \* names of files
  NULL,             \* the null pointer
  Text,             \* Text[f]: the lines of f
  IncludePaths,     \* the arguments of @include
  IncludeFn,        \* IncludeFn[p]: what include_fn returns for p
  MaxIncludeDepth,  \* MAX_INCLUDE_DEPTH
  MaxCalls          \* bound on the calls of the program

Lines == {"setting", "bad"} \cup IncludePaths

ASSUME ReadAssumption ==
  /\ NULL \notin Files /\ NULL \notin Int
  /\ IncludePaths \cap {"setting", "bad"} = {}
  /\ Text \in [Files -> Seq(Lines)]
  /\ IncludeFn \in [IncludePaths -> [files : Seq(Files), error : BOOLEAN]]
  /\ MaxIncludeDepth \in Nat
  /\ MaxCalls \in Nat

VARIABLES
  pc,        \* "idle": no read is running; "scan"; "failed": yyparse gave up
  present,   \* the files that can be opened
  streams,   \* streams[s]: how often stream s was closed
  buffers,   \* flex buffers: the file, its name, the next line, the stream it
             \* is filled from, and how often it was deleted
  current,   \* YY_CURRENT_BUFFER
  frames,    \* scan_ctx.include_stack, up to stack_depth
  top,       \* the stream config_read_file() opened, and top_filename
  names,     \* the file names allocated: the name, and how often it was freed
  ctxNames,  \* scan_ctx.filenames
  filenames, \* config->filenames
  sources,   \* the names that config->root and its settings point to
  error,     \* config->error_type, error_text, error_file and error_line
  last,      \* what the last read or write really met: not in the program
  delivered, \* the settings this read has handed to the parser: the same
  calls      \* the number of calls so far

vars == <<pc, present, streams, buffers, current, frames, top, names, ctxNames,
          filenames, sources, error, last, delivered, calls>>
heap == <<streams, buffers, current, frames, top, names, ctxNames>>

NoError == [type |-> "NONE", text |-> NULL, file |-> NULL, line |-> 0]

-----------------------------------------------------------------------------
(* Resources.                                                              *)

(* fclose(), yy_delete_buffer() and free(), of every one in a set.         *)
Close(S, ss) == [s \in DOMAIN ss |-> IF s \in S THEN ss[s] + 1 ELSE ss[s]]
Delete(B) == [b \in DOMAIN buffers |->
                IF b \in B THEN [buffers[b] EXCEPT !.deleted = @ + 1] ELSE buffers[b]]
Free(N) == [n \in DOMAIN names |->
              IF n \in N THEN [names[n] EXCEPT !.freed = @ + 1] ELSE names[n]]

Buffer(f, nm, s) ==
  [file |-> f, name |-> nm, next |-> 1, stream |-> s, deleted |-> 0]
Name(f) == [file |-> f, freed |-> 0]

Depth == Len(frames)
Top == frames[Depth]

(* As if the stack were tested with stack_depth > 1.                       *)
OuterFilename(fs) ==
  IF Len(fs) > 1 THEN fs[Len(fs)].files[fs[Len(fs)].pos] ELSE top.name

(* libconfig_scanctx_current_filename(), for a stack fs.                   *)
CurrentFilename(fs) ==
  IF fs # <<>> THEN fs[Len(fs)].files[fs[Len(fs)].pos] ELSE top.name

Here == buffers[current]
Line == Text[Here.file][Here.next]
AtEof == Here.next > Len(Text[Here.file])

(* The text of a buffer, one line further.                                 *)
Advance == [buffers EXCEPT ![current].next = @ + 1]

-----------------------------------------------------------------------------
(* Errors.                                                                 *)

(* As if libconfig_yyerror() did not take the line.                        *)
YyErrorWithoutLine(text) ==
  IF error.text # NULL THEN error ELSE [error EXCEPT !.text = text]

(* libconfig_yyerror(): the first error is kept.                           *)
YyError(text) ==
  IF error.text # NULL THEN error
  ELSE [error EXCEPT !.text = text, !.line = Here.next]

(* What the include rules of the scanner report; the parser then calls     *)
(* yyerror, which finds an error_text.                                     *)
ScanError(text) == [error EXCEPT !.text = text, !.line = Here.next]

(* What a reader of the text would report.                                 *)
Parsed(text) == [type |-> "PARSE", text |-> text, file |-> Here.name, line |-> Here.next]

(* yyparse() returns with an error, and __config_read() completes the      *)
(* report; fs is the include stack.                                        *)
GiveUp(report, fs) ==
  /\ pc' = "failed"
  /\ error' = [report EXCEPT !.type = "PARSE", !.file = CurrentFilename(fs)]
  /\ UNCHANGED <<present, current, top, filenames, sources, delivered, calls>>

-----------------------------------------------------------------------------
(* The calls of the program.                                               *)

Init ==
  /\ pc = "idle"
  /\ present \in SUBSET Files
  /\ streams = <<>> /\ buffers = <<>> /\ current = NULL /\ frames = <<>>
  /\ top = [stream |-> NULL, name |-> NULL]
  /\ names = <<>> /\ ctxNames = <<>> /\ filenames = <<>>
  /\ sources = {}
  /\ error = NoError /\ last = NoError
  /\ delivered = <<>>
  /\ calls = 0

Call == pc = "idle" /\ calls < MaxCalls /\ calls' = calls + 1

(* __config_read() up to the call of the parser, for the text of f.        *)
StartRead(f, stream, nm) ==
  /\ pc' = "scan"
  /\ streams' = IF stream = NULL THEN <<>> ELSE <<0>>
  /\ buffers' = <<Buffer(f, nm, stream)>>
  /\ current' = 1
  /\ frames' = <<>>
  /\ top' = [stream |-> stream, name |-> nm]
  /\ names' = IF nm = NULL THEN Free(ToSet(filenames))
              ELSE Append(Free(ToSet(filenames)), Name(f))
  /\ ctxNames' = IF nm = NULL THEN <<>> ELSE <<nm>>
  /\ filenames' = <<>>
  /\ sources' = {nm}
  /\ delivered' = <<>>
  /\ UNCHANGED <<present, error, last>>

IoError ==
  /\ error' = [error EXCEPT !.type = "FILE_IO", !.text = "io"]
  /\ last' = [NoError EXCEPT !.type = "FILE_IO", !.text = "io"]
  /\ UNCHANGED <<pc, present, heap, filenames, sources, delivered>>

ConfigReadFile(f) ==
  /\ Call
  /\ IF f \in present THEN StartRead(f, 1, Len(names) + 1) ELSE IoError

(* config_read_string(), and config_read() from a stream of the program.   *)
ConfigReadString(f) == Call /\ StartRead(f, NULL, NULL)

(* config_write_file(), as far as errors go: the file cannot be opened, or *)
(* everything succeeds.                                                    *)
ConfigWriteFile ==
  /\ Call
  /\ \/ IoError
     \/ /\ error' = [error EXCEPT !.type = "NONE"]
        /\ last' = NoError
        /\ UNCHANGED <<pc, present, heap, filenames, sources, delivered>>

(* config_clear().                                                         *)
ConfigClear ==
  /\ Call
  /\ names' = Free(ToSet(filenames))
  /\ filenames' = <<>>
  /\ sources' = {}
  /\ UNCHANGED <<pc, present, streams, buffers, current, frames, top, ctxNames,
                 error, last, delivered>>

(* config_destroy(), and config_init() again.                              *)
ConfigDestroy ==
  /\ Call
  /\ names' = Free(ToSet(filenames))
  /\ filenames' = <<>>
  /\ sources' = {}
  /\ error' = NoError
  /\ last' = NoError
  /\ UNCHANGED <<pc, present, streams, buffers, current, frames, top, ctxNames,
                 delivered>>

(* A file appears or goes away between two calls.                          *)
FilesChange ==
  /\ pc = "idle"
  /\ \E f \in Files : present' \in {present \cup {f}, present \ {f}}
  /\ UNCHANGED <<pc, heap, filenames, sources, error, last, delivered, calls>>

-----------------------------------------------------------------------------
(* Scanning.                                                               *)

(* A setting: it notes the file it comes from (capture_parse_pos).         *)
ScanSetting ==
  /\ pc = "scan" /\ ~AtEof /\ Line = "setting"
  /\ buffers' = Advance
  /\ sources' = sources \cup {CurrentFilename(frames)}
  /\ delivered' = Append(delivered, <<Here.file, Here.next>>)
  /\ UNCHANGED <<pc, present, streams, current, frames, top, names, ctxNames,
                 filenames, error, last, calls>>

(* A syntax error, a duplicate setting, an array of mixed types.           *)
ScanBad ==
  /\ pc = "scan" /\ ~AtEof /\ Line = "bad"
  /\ last' = Parsed("syntax")
  /\ GiveUp(YyError("syntax"), frames)
  /\ UNCHANGED <<streams, buffers, frames, names, ctxNames>>

(* libconfig_scanctx_push_include() when the include function fails, or    *)
(* when the stack is full.                                                 *)
IncludeRefused(text) ==
  /\ last' = Parsed(text)
  /\ GiveUp(ScanError(text), frames)
  /\ UNCHANGED <<streams, buffers, frames, names, ctxNames>>

(* The list is empty: nothing is included.                                 *)
IncludeNothing ==
  /\ buffers' = Advance
  /\ UNCHANGED <<pc, present, streams, current, frames, top, names, ctxNames,
                 filenames, sources, error, last, delivered, calls>>

(* The files of the list become strings of the filenames vector, and the   *)
(* first is opened; when it cannot be, the frame is popped again.          *)
IncludeFiles(fs) ==
  LET ids == [i \in 1 .. Len(fs) |-> Len(names) + i]
      s == Len(streams) + 1
      opened == fs[1] \in present
  IN /\ names' = names \o [i \in 1 .. Len(fs) |-> Name(fs[i])]
     /\ ctxNames' = ctxNames \o ids
     /\ IF opened
        THEN /\ frames' = Append(frames, [files |-> ids, pos |-> 1, stream |-> s,
                                          parent |-> current])
             /\ streams' = Append(streams, 0)
             /\ buffers' = Append(Advance, Buffer(fs[1], ids[1], s))
             /\ current' = Len(buffers) + 1
             /\ UNCHANGED <<pc, present, top, filenames, sources, error, last,
                            delivered, calls>>
        ELSE /\ last' = Parsed("open")
             /\ GiveUp(ScanError("open"), frames)
             /\ UNCHANGED <<streams, buffers, frames>>

(* The @include rule.                                                      *)
ScanInclude ==
  /\ pc = "scan" /\ ~AtEof /\ Line \in IncludePaths
  /\ LET r == IncludeFn[Line]
     IN IF Depth = MaxIncludeDepth THEN IncludeRefused("deep")
        ELSE IF r.error THEN IncludeRefused("function")
        ELSE IF r.files = <<>> THEN IncludeNothing
        ELSE IncludeFiles(r.files)

(* The <<EOF>> rule at the end of the top file or string: yyparse returns  *)
(* with success, and __config_read() and config_read_file() release the    *)
(* scanner, the scan context and the stream.                               *)
Release ==
  /\ pc' = "idle"
  /\ buffers' = Delete({current})
  /\ current' = NULL
  /\ streams' = Close({top.stream}, streams)
  /\ top' = [stream |-> NULL, name |-> NULL]
  /\ filenames' = ctxNames
  /\ ctxNames' = <<>>
  /\ UNCHANGED <<present, frames, names, sources, delivered, calls>>

(* As if the rule did not call yyterminate().                              *)
EndOfInputIgnored ==
  /\ pc = "scan" /\ AtEof /\ frames = <<>>
  /\ UNCHANGED vars

EndOfInput ==
  /\ pc = "scan" /\ AtEof /\ frames = <<>>
  /\ last' = NoError
  /\ UNCHANGED error
  /\ Release

(* As if the file were left open when the next one cannot be opened.       *)
NextFileLeaving ==
  /\ pc = "scan" /\ AtEof /\ frames # <<>> /\ Top.pos < Len(Top.files)
  /\ names[Top.files[Top.pos + 1]].file \notin present
  /\ frames' = [frames EXCEPT ![Depth].pos = @ + 1, ![Depth].stream = NULL]
  /\ last' = Parsed("open")
  /\ GiveUp(ScanError("open"), frames')
  /\ UNCHANGED <<streams, buffers, names, ctxNames>>

(* libconfig_scanctx_next_include_file(): the file is closed, and the next *)
(* of the list is opened in its place.                                     *)
NextFile ==
  /\ pc = "scan" /\ AtEof /\ frames # <<>> /\ Top.pos < Len(Top.files)
  /\ LET id == Top.files[Top.pos + 1]
         f == names[id].file
         s == Len(streams) + 1
         next == [Top EXCEPT !.pos = @ + 1, !.stream = IF f \in present THEN s ELSE NULL]
     IN /\ frames' = [frames EXCEPT ![Depth] = next]
        /\ IF f \in present
           THEN /\ streams' = Append(Close({Top.stream}, streams), 0)
                /\ buffers' = Append(Delete({current}), Buffer(f, id, s))
                /\ current' = Len(buffers) + 1
                /\ UNCHANGED <<pc, present, top, filenames, sources, error, last,
                               delivered, calls>>
           ELSE /\ streams' = Close({Top.stream}, streams)
                /\ last' = Parsed("open")
                /\ GiveUp(ScanError("open"), frames')
                /\ UNCHANGED buffers
  /\ UNCHANGED <<names, ctxNames>>

(* libconfig_scanctx_pop_include(); the caller deletes one buffer, b.      *)
PopInclude(b) ==
  /\ frames' = Front(frames)
  /\ streams' = Close({Top.stream}, streams)
  /\ buffers' = Delete({b})
  /\ UNCHANGED <<pc, present, top, names, ctxNames, filenames, sources, error,
                 last, delivered, calls>>

(* As if every end of file ended the list.                                 *)
EndOfFirstFile ==
  /\ pc = "scan" /\ AtEof /\ frames # <<>>
  /\ current' = Top.parent
  /\ PopInclude(current)

(* The end of the last file of a list: the including file goes on.         *)
EndOfInclude ==
  /\ pc = "scan" /\ AtEof /\ frames # <<>> /\ Top.pos = Len(Top.files)
  /\ current' = Top.parent
  /\ PopInclude(current)

(* After an error, __config_read() empties the include stack ...           *)
Unwind ==
  /\ pc = "failed" /\ frames # <<>>
  /\ UNCHANGED current
  /\ PopInclude(Top.parent)

(* ... and returns; the settings read so far stay in the configuration.    *)
ReturnFailure ==
  /\ pc = "failed" /\ frames = <<>>
  /\ UNCHANGED <<error, last>>
  /\ Release

Read == \/ ScanSetting \/ ScanBad \/ ScanInclude
        \/ EndOfInput \/ NextFile \/ EndOfInclude
        \/ Unwind \/ ReturnFailure

Program == \/ \E f \in Files : ConfigReadFile(f) \/ ConfigReadString(f)
           \/ ConfigWriteFile \/ ConfigClear \/ ConfigDestroy

Next == Read \/ Program \/ FilesChange

(* A read runs in the thread of its caller until it returns.               *)
Fairness == WF_vars(Read)

Spec == Init /\ [][Next]_vars /\ Fairness

-----------------------------------------------------------------------------
(* Properties.                                                             *)

Ids(s) == DOMAIN s
OrNull(S) == S \cup {NULL}

Reports == [type : {"NONE", "FILE_IO", "PARSE"},
            text : OrNull({"io", "syntax", "deep", "function", "open"}),
            file : OrNull(Ids(names)),
            line : Nat]

(* Every variable has its type; the stack of scan_ctx never outgrows the   *)
(* array it is kept in; a running read scans a line of a known text.       *)
TypeOK ==
  /\ pc \in {"idle", "scan", "failed"}
  /\ present \subseteq Files
  /\ streams \in Seq(Nat)
  /\ buffers \in Seq([file : Files, name : OrNull(Ids(names)), next : Nat \ {0},
                      stream : OrNull(Ids(streams)), deleted : Nat])
  /\ current \in IF pc = "idle" THEN {NULL} ELSE Ids(buffers)
  /\ frames \in Seq([files : Seq(Ids(names)), pos : Nat, stream : OrNull(Ids(streams)),
                     parent : Ids(buffers)])
  /\ \A i \in Ids(frames) : frames[i].pos \in 1 .. Len(frames[i].files)
  /\ Depth <= MaxIncludeDepth
  /\ pc = "scan" => Here.next <= Len(Text[Here.file]) + 1
  /\ top \in [stream : OrNull(Ids(streams)), name : OrNull(Ids(names))]
  /\ names \in Seq([file : Files, freed : Nat])
  /\ ctxNames \in Seq(Ids(names)) /\ filenames \in Seq(Ids(names))
  /\ sources \subseteq OrNull(Ids(names))
  /\ error \in Reports /\ last \in Reports
  /\ delivered \in Seq(Files \X Nat)
  /\ calls \in 0 .. MaxCalls

OpenStreams == OrNull({top.stream} \cup {frames[i].stream : i \in Ids(frames)})

(* A stream is open exactly while the caller of the parser or a frame of   *)
(* the include stack holds it: none is leaked, none is closed twice, at    *)
(* whatever line the read fails.                                           *)
StreamsClosedOnce ==
  /\ \A s \in Ids(streams) : streams[s] = IF s \in OpenStreams THEN 0 ELSE 1
  /\ \A i, j \in Ids(frames) : frames[i].stream = frames[j].stream =>
       i = j \/ frames[i].stream = NULL
  /\ \A i \in Ids(frames) : frames[i].stream = top.stream => top.stream = NULL

(* A flex buffer lives exactly while it is the current one or waits in a   *)
(* frame for an included file to end.                                      *)
BuffersDeletedOnce ==
  LET parents == {frames[i].parent : i \in Ids(frames)}
  IN /\ \A b \in Ids(buffers) :
          buffers[b].deleted = IF b = current \/ b \in parents THEN 0 ELSE 1
     /\ current \notin parents
     /\ \A i, j \in Ids(frames) : frames[i].parent = frames[j].parent => i = j

(* A file name belongs to exactly one of the two vectors, the one of the   *)
(* running read and the one of the configuration, until it is freed once.  *)
NamesOwnedOnce ==
  LET owners == ctxNames \o filenames
  IN /\ \A n \in Ids(names) : names[n].freed = IF n \in ToSet(owners) THEN 0 ELSE 1
     /\ IsInjective(owners)

(* config_setting_source_file() of every setting is a string that still    *)
(* exists, between any two calls and while a read is running.              *)
SourcesAreLive == \A n \in sources \ {NULL} : names[n].freed = 0

(* What a read takes it gives back exactly once, wherever it ends and      *)
(* whatever calls follow it: streams, scanner buffers and file names, which*)
(* settings go on pointing to.                                             *)
ResourcesReleasedOnce ==
  StreamsClosedOnce /\ BuffersDeletedOnce /\ NamesOwnedOnce /\ SourcesAreLive

(* The file that settings and errors are attributed to is the one whose    *)
(* text is being scanned, from a stream that is still open.                *)
ScansTheCurrentFile ==
  pc = "scan" =>
    /\ CurrentFilename(frames) = Here.name
    /\ Here.stream \in OpenStreams
    /\ Here.stream # NULL => streams[Here.stream] = 0

(* Expansion[d][f]: the settings of f, each @include replaced by the       *)
(* settings of its files, d levels deep.                                   *)
Expansion[d \in 0 .. MaxIncludeDepth] ==
  LET Inner(p) == IF d = 0 THEN <<>>
                  ELSE FlattenSeq([i \in Ids(IncludeFn[p].files) |->
                                     Expansion[d - 1][IncludeFn[p].files[i]]])
      OfLine(f, n) == IF Text[f][n] = "setting" THEN <<<<f, n>>>>
                      ELSE IF Text[f][n] = "bad" THEN <<>>
                      ELSE Inner(Text[f][n])
  IN [f \in Files |-> FlattenSeq([n \in Ids(Text[f]) |-> OfLine(f, n)])]

(* A read that returns with success has handed the parser the whole text:  *)
(* every line once, in order, with every file of every include list in     *)
(* the place of its @include.                                              *)
ReturnsWholeText ==
  [][pc = "scan" /\ pc' = "idle" =>
       delivered = Expansion[MaxIncludeDepth][buffers[1].file]]_vars

(* A failed read of a configuration that holds no error yet reports what   *)
(* went wrong and the line of the text where it did; unless a further file *)
(* of an include list could not be opened, it also reports the file.       *)
FailureIsReported ==
  [][pc = "scan" /\ pc' = "failed" /\ error.text = NULL =>
       /\ error'.type = "PARSE"
       /\ error'.text = last'.text
       /\ error'.line = last'.line
       /\ frames' = frames => error'.file = last'.file]_vars

(* Every read returns, even when files include each other in a circle.     *)
ReadTerminates == pc # "idle" ~> pc = "idle"
=============================================================================
